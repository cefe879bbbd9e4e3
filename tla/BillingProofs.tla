---------------------------- MODULE BillingProofs ----------------------------
(***************************************************************************)
(* Proofs about Billing.  With any number of sessions: types, a wallet that *)
(* is never negative, a suspension that always has its deadline, credits   *)
(* given at most once for each session.  With one session at a time: the   *)
(* whole grace period, a balance that adds up and usage that is invoiced.  *)
(*                                                                         *)
(* Sessions write what follows from what they have read, so the invariants *)
(* speak of both: the rows, and the copies sessions hold (HeldOK).         *)
(***************************************************************************)
EXTENDS Billing, SumsProofs

-----------------------------------------------------------------------------
(* Rows and sessions                                                       *)

\* What a session has read and what it is about, by the step it is at.
HeldOK(r) ==
  /\ r.pc \in {"grant", "subscribe"} => r.arg \in Plans /\ r.sub \in SubRow
  /\ r.pc = "grant" => r.counted = 0
  /\ r.pc = "subscribe" /\ r.counted = 1 => r.balance \in Nat
  /\ r.pc \in {"paystack", "topupWallet", "topup"} => r.arg \in Refs
  /\ r.pc \in {"topupWallet", "topup", "usageWallet", "deduct", "recheck", "suspend",
               "invoice", "invoiced"} => r.sub \in SubRow
  /\ r.pc \in {"topup", "deduct", "invoiced"} => r.balance \in Nat
  /\ r.pc = "deduct" => r.balance >= Fee

\* A suspended row has its deadline.
HasGrace(row) == row.status = "SUSPENDED" => row.graceEnds # Nothing

BillingInv ==
  /\ TypeOK
  /\ balance \in Nat
  /\ HasGrace(sub)
  /\ \A s \in Slots : HeldOK(run[s])

\* A commit of changed columns leaves a row of the same type.
LEMMA FlushType ==
  ASSUME NEW current \in SubRow, NEW read \in SubRow, NEW new \in SubRow
  PROVE  /\ Flush(current, read, new) \in SubRow
         /\ Flush(current, read, new).status
              = IF new.status = read.status THEN current.status ELSE new.status
         /\ Flush(current, read, new).graceEnds
              = IF new.graceEnds = read.graceEnds THEN current.graceEnds
                ELSE new.graceEnds
<1>1. DOMAIN current = {"status", "plan", "trialEnds", "since", "graceEnds", "count"}
  BY DEF SubRow
<1> DEFINE row == Flush(current, read, new)
<1>2. row = [f \in {"status", "plan", "trialEnds", "since", "graceEnds", "count"} |->
               IF new[f] = read[f] THEN current[f] ELSE new[f]]
  BY <1>1 DEF Flush
<1>3. /\ row.status \in Status /\ row.plan \in Plans /\ row.trialEnds \in Date
      /\ row.since \in Date /\ row.graceEnds \in Date /\ row.count \in Int
  BY <1>2 DEF SubRow
<1> QED
  BY <1>2, <1>3 DEF SubRow

\* A commit that does not suspend, and clears a deadline only when it ends the
\* suspension, leaves a suspended row its deadline, however old its copy is.
LEMMA FlushKeepsGrace ==
  ASSUME NEW current \in SubRow, NEW read \in SubRow, NEW new \in SubRow,
         HasGrace(current),
         new.status = read.status \/ new.status # "SUSPENDED",
         new.graceEnds = read.graceEnds \/ new.status # read.status
  PROVE  Flush(current, read, new) \in SubRow /\ HasGrace(Flush(current, read, new))
<1> DEFINE row == Flush(current, read, new)
<1>1. /\ row \in SubRow
      /\ row.status = IF new.status = read.status THEN current.status ELSE new.status
      /\ row.graceEnds = IF new.graceEnds = read.graceEnds THEN current.graceEnds
                         ELSE new.graceEnds
  BY FlushType
<1> HIDE DEF row
<1>2. HasGrace(row)
  BY <1>1 DEF HasGrace
<1> QED
  BY <1>1, <1>2 DEF row

\* Idle sessions hold nothing.
LEMMA IdleOK == Idle \in Session /\ HeldOK(Idle)
  BY DEF Idle, Begun, Session, HeldOK, Date

\* A session that moves to r leaves the others alone.
LEMMA SessionSet ==
  ASSUME NEW f \in [Slots -> Session], \A u \in Slots : HeldOK(f[u]),
         NEW s \in Slots, NEW r \in Session, HeldOK(r)
  PROVE  /\ [f EXCEPT ![s] = r] \in [Slots -> Session]
         /\ \A u \in Slots : HeldOK([f EXCEPT ![s] = r][u])
<1> DEFINE g == [f EXCEPT ![s] = r]
<1>1. g \in [Slots -> Session]
  OBVIOUS
<1>2. ASSUME NEW u \in Slots PROVE HeldOK(g[u])
  <2>1. g[u] = r \/ g[u] = f[u]
    OBVIOUS
  <2> QED
    BY <2>1
<1> QED
  BY <1>1, <1>2

\* The rows and the counters, apart from the sessions.
RowsOK ==
  /\ sub \in SubRow /\ balance \in Nat /\ HasGrace(sub)
  /\ credited \in [Refs -> Nat]
  /\ welcomes \in Nat /\ fees \in Nat /\ billed \in Int /\ spent \in Nat
  /\ invoiced \subseteq Nat
  /\ pending \in [Usages -> Nat]
  /\ day \in 0..MaxDay

SessionsOK == run \in [Slots -> Session] /\ \A s \in Slots : HeldOK(run[s])

LEMMA InvParts == BillingInv <=> RowsOK /\ SessionsOK
  BY DEF BillingInv, RowsOK, SessionsOK, TypeOK

LEMMA InvNext == RowsOK' /\ SessionsOK' => BillingInv'
  BY DEF BillingInv, RowsOK, SessionsOK, TypeOK

LEMMA InitInv == Init => BillingInv
<1> SUFFICES ASSUME Init PROVE RowsOK /\ SessionsOK
  BY InvParts
<1>1. sub \in SubRow /\ HasGrace(sub)
  BY BillingAssumption DEF Init, SubRow, HasGrace, Status, Date
<1>2. RowsOK
  BY <1>1, BillingAssumption DEF Init, RowsOK
<1>3. SessionsOK
  BY IdleOK DEF Init, SessionsOK
<1> QED
  BY <1>2, <1>3

-----------------------------------------------------------------------------
(* Requests                                                                *)

LEMMA SubscribeInv ==
  ASSUME BillingInv, NEW s \in Slots, NEW p \in Plans, Subscribe(s, p)
  PROVE  BillingInv'
<1> DEFINE pc == IF sub.status = "NONE" THEN "subscribe" ELSE "grant"
<1> DEFINE r == Begun("subscribe", pc, p, 0, sub)
<1>1. RowsOK /\ SessionsOK
  BY InvParts
<1>2. RowsOK'
  BY <1>1 DEF Subscribe, RowsOK, wallet, paper
<1>3. run' = [run EXCEPT ![s] = r]
  BY DEF Subscribe
<1>4. pc \in {"subscribe", "grant"}
  OBVIOUS
<1> HIDE DEF pc
<1>5. r \in Session /\ HeldOK(r)
  BY <1>1, <1>4 DEF RowsOK, Begun, Session, HeldOK, Date
<1>6. SessionsOK'
  BY <1>1, <1>3, <1>5, SessionSet DEF SessionsOK
<1> QED
  BY <1>2, <1>6, InvNext

LEMMA GrantInv ==
  ASSUME BillingInv, NEW s \in Slots, Grant(s)
  PROVE  BillingInv'
<1> DEFINE r == [run[s] EXCEPT !.balance = balance,
                   !.counted = IF Welcome(run[s].arg) > 0 THEN 1 ELSE 0,
                   !.pc = "subscribe"]
<1>1. RowsOK /\ SessionsOK
  BY InvParts
<1>2. RowsOK'
  BY <1>1 DEF Grant, RowsOK, wallet, paper, bounds
<1>3. r \in Session /\ HeldOK(r)
  BY <1>1 DEF Grant, RowsOK, SessionsOK, Session, HeldOK, Date
<1>4. run' = [run EXCEPT ![s] = r]
  BY <1>1 DEF Grant, SessionsOK, Session
<1>5. SessionsOK'
  BY <1>1, <1>3, <1>4, SessionSet DEF SessionsOK
<1> QED
  BY <1>2, <1>5, InvNext

\* A change of plan ends a trial or a suspension, or keeps the status: it never
\* makes a row SUSPENDED.
LEMMA SwitchInv ==
  ASSUME BillingInv, NEW s \in Slots, Switch(s)
  PROVE  BillingInv'
<1> DEFINE r == run[s]
<1> DEFINE new == [r.sub EXCEPT !.plan = r.arg,
                     !.status = IF @ \in {"TRIAL", "SUSPENDED"} THEN "ACTIVE" ELSE @]
<1>1. RowsOK /\ SessionsOK
  BY InvParts
<1>2. r \in Session /\ HeldOK(r) /\ r.pc = "subscribe"
  BY <1>1 DEF Switch, SessionsOK
<1>3. r.sub \in SubRow /\ r.arg \in Plans
  BY <1>2 DEF HeldOK
<1>4. new \in SubRow /\ new.status # "SUSPENDED" /\ new.graceEnds = r.sub.graceEnds
  BY <1>3 DEF SubRow, Status
<1> HIDE DEF new
<1>5. sub' \in SubRow /\ HasGrace(sub')
  <2>1. sub' = Flush(sub, r.sub, new)
    BY DEF Switch, new
  <2> QED
    BY <1>1, <1>3, <1>4, <2>1, FlushKeepsGrace DEF RowsOK
<1>6. balance' \in Nat
  BY <1>1, <1>2, <1>3, BillingAssumption DEF Switch, RowsOK, HeldOK
<1>7. welcomes' \in Nat
  BY <1>1, <1>2 DEF Switch, RowsOK, Session
<1>8. RowsOK'
  BY <1>1, <1>5, <1>6, <1>7 DEF Switch, RowsOK, paper
<1>9. SessionsOK'
  BY <1>1, IdleOK, SessionSet DEF Switch, End, SessionsOK
<1> QED
  BY <1>8, <1>9, InvNext

LEMMA CreateTrialInv ==
  ASSUME BillingInv, NEW s \in Slots, CreateTrial(s)
  PROVE  BillingInv'
<1> DEFINE r == run[s]
<1>1. RowsOK /\ SessionsOK
  BY InvParts
<1>2. r.arg \in Plans /\ Welcome(r.arg) \in Nat
  BY <1>1, BillingAssumption DEF CreateTrial, SessionsOK, HeldOK, Welcome
<1>3. RowsOK'
  <2>1. CASE UNCHANGED <<sub, balance, welcomes>>
    BY <1>1, <2>1 DEF CreateTrial, RowsOK, paper
  <2>2. CASE sub.status = "NONE" /\ ~UNCHANGED <<sub, balance, welcomes>>
    <3>1. sub' = [sub EXCEPT !.status = "TRIAL", !.plan = r.arg,
                             !.trialEnds = day + TrialDays]
      BY <2>2 DEF CreateTrial
    <3>2. day + TrialDays \in Int
      BY <1>1, BillingAssumption DEF RowsOK
    <3>3. sub' \in SubRow /\ HasGrace(sub')
      BY <1>1, <1>2, <3>1, <3>2 DEF RowsOK, SubRow, Status, Date, HasGrace
    <3>4. balance' \in Nat /\ welcomes' \in Nat
      BY <1>2, <2>2 DEF CreateTrial
    <3> QED
      BY <1>1, <3>3, <3>4 DEF CreateTrial, RowsOK, paper
  <2> QED
    BY <2>1, <2>2 DEF CreateTrial
<1>4. SessionsOK'
  BY <1>1, IdleOK, SessionSet DEF CreateTrial, End, SessionsOK
<1> QED
  BY <1>3, <1>4, InvNext

LEMMA VerifyInv ==
  ASSUME BillingInv, NEW s \in Slots, NEW ref \in Refs, Verify(s, ref)
  PROVE  BillingInv'
<1> DEFINE r == Begun("verify", "paystack", ref, 0, Nothing)
<1>1. RowsOK /\ SessionsOK
  BY InvParts
<1>2. RowsOK'
  BY <1>1 DEF Verify, RowsOK, wallet, paper
<1>3. r \in Session /\ HeldOK(r)
  BY DEF Begun, Session, HeldOK, Date
<1>4. SessionsOK'
  <2>1. CASE run' = run
    BY <1>1, <2>1 DEF SessionsOK
  <2>2. CASE run' = [run EXCEPT ![s] = r]
    BY <1>1, <1>3, <2>2, SessionSet DEF SessionsOK
  <2> QED
    BY <2>1, <2>2 DEF Verify
<1> QED
  BY <1>2, <1>4, InvNext

LEMMA AnsweredInv ==
  ASSUME BillingInv, NEW s \in Slots, Answered(s)
  PROVE  BillingInv'
<1> DEFINE r == [run[s] EXCEPT !.sub = sub, !.pc = "topupWallet"]
<1>1. RowsOK /\ SessionsOK
  BY InvParts
<1>2. RowsOK'
  BY <1>1 DEF Answered, RowsOK, wallet, paper, bounds
<1>3. r \in Session /\ HeldOK(r)
  BY <1>1 DEF Answered, RowsOK, SessionsOK, Session, HeldOK
<1>4. SessionsOK'
  <2>1. CASE End(s)
    BY <1>1, <2>1, IdleOK, SessionSet DEF End, SessionsOK
  <2>2. CASE run' = [run EXCEPT ![s].sub = sub, ![s].pc = "topupWallet"]
    <3>1. run' = [run EXCEPT ![s] = r]
      BY <1>1, <2>2 DEF SessionsOK, Session
    <3> QED
      BY <1>1, <1>3, <3>1, SessionSet DEF SessionsOK
  <2> QED
    BY <2>1, <2>2 DEF Answered
<1> QED
  BY <1>2, <1>4, InvNext

LEMMA TopupWalletInv ==
  ASSUME BillingInv, NEW s \in Slots, TopupWallet(s)
  PROVE  BillingInv'
<1> DEFINE r == [run[s] EXCEPT !.balance = balance, !.pc = "topup"]
<1>1. RowsOK /\ SessionsOK
  BY InvParts
<1>2. RowsOK'
  BY <1>1 DEF TopupWallet, RowsOK, wallet, paper, bounds
<1>3. r \in Session /\ HeldOK(r)
  BY <1>1 DEF TopupWallet, RowsOK, SessionsOK, Session, HeldOK, Date
<1>4. run' = [run EXCEPT ![s] = r]
  BY <1>1 DEF TopupWallet, SessionsOK, Session
<1>5. SessionsOK'
  BY <1>1, <1>3, <1>4, SessionSet DEF SessionsOK
<1> QED
  BY <1>2, <1>5, InvNext

LEMMA TopupInv ==
  ASSUME BillingInv, NEW s \in Slots, Topup(s)
  PROVE  BillingInv'
<1> DEFINE r == run[s]
<1> DEFINE new == [r.sub EXCEPT !.status = "ACTIVE", !.since = Nothing,
                                !.graceEnds = Nothing]
<1>1. RowsOK /\ SessionsOK
  BY InvParts
<1>2. HeldOK(r) /\ r.pc = "topup"
  BY <1>1 DEF Topup, SessionsOK
<1>3. r.sub \in SubRow /\ r.arg \in Refs /\ r.balance \in Nat
  BY <1>2 DEF HeldOK
<1>4. sub' \in SubRow /\ HasGrace(sub')
  <2>1. CASE sub' = sub
    BY <1>1, <2>1 DEF RowsOK, HasGrace
  <2>2. CASE r.sub.status = "SUSPENDED" /\ sub' = Flush(sub, r.sub, new)
    <3>1. new \in SubRow /\ new.status = "ACTIVE"
      BY <1>3 DEF SubRow, Status, Date
    <3> HIDE DEF new
    <3> QED
      BY <1>1, <1>3, <2>2, <3>1, FlushKeepsGrace DEF RowsOK
  <2> QED
    BY <2>1, <2>2 DEF Topup
<1>5. balance' \in Nat /\ credited' \in [Refs -> Nat]
  BY <1>1, <1>3, BillingAssumption DEF Topup, RowsOK
<1>6. RowsOK'
  BY <1>1, <1>4, <1>5 DEF Topup, RowsOK, paper
<1>7. SessionsOK'
  BY <1>1, IdleOK, SessionSet DEF Topup, End, SessionsOK
<1> QED
  BY <1>6, <1>7, InvNext

-----------------------------------------------------------------------------
(* Deductions                                                              *)

LEMMA UsageInv ==
  ASSUME BillingInv, NEW s \in Slots, NEW u \in Usages, Usage(s, u)
  PROVE  BillingInv'
<1> DEFINE pc == IF sub.status \in {"NONE", "BLOCKED"} THEN "ack" ELSE "usageWallet"
<1> DEFINE r == Begun("usage", pc, u, 0, sub)
<1>1. RowsOK /\ SessionsOK
  BY InvParts
<1>2. RowsOK'
  BY <1>1 DEF Usage, RowsOK, wallet, paper
<1>3. run' = [run EXCEPT ![s] = r]
  BY DEF Usage
<1>4. pc \in {"ack", "usageWallet"}
  OBVIOUS
<1> HIDE DEF pc
<1>5. r \in Session /\ HeldOK(r)
  BY <1>1, <1>4 DEF RowsOK, Begun, Session, HeldOK, Date
<1>6. SessionsOK'
  BY <1>1, <1>3, <1>5, SessionSet DEF SessionsOK
<1> QED
  BY <1>2, <1>6, InvNext

\* A fee is taken only from a balance that covers it, as it was read.
LEMMA UsageWalletInv ==
  ASSUME BillingInv, NEW s \in Slots, UsageWallet(s)
  PROVE  BillingInv'
<1> DEFINE pc == IF balance >= Fee THEN "deduct"
                 ELSE IF balance < Minimum[run[s].sub.plan] /\ run[s].sub.status = "ACTIVE"
                 THEN "suspend" ELSE "ack"
<1> DEFINE r == [run[s] EXCEPT !.balance = balance, !.counted = 1, !.pc = pc]
<1>1. RowsOK /\ SessionsOK
  BY InvParts
<1>2. RowsOK'
  BY <1>1 DEF UsageWallet, RowsOK, wallet, paper, bounds
<1>3. run' = [run EXCEPT ![s] = r]
  BY <1>1 DEF UsageWallet, SessionsOK, Session
<1>4. pc \in {"deduct", "suspend", "ack"} /\ (pc = "deduct" => balance >= Fee)
  OBVIOUS
<1> HIDE DEF pc
<1>5. r \in Session /\ HeldOK(r)
  BY <1>1, <1>4 DEF UsageWallet, RowsOK, SessionsOK, Session, HeldOK, Date
<1>6. SessionsOK'
  BY <1>1, <1>3, <1>5, SessionSet DEF SessionsOK
<1> QED
  BY <1>2, <1>6, InvNext

LEMMA DeductInv ==
  ASSUME BillingInv, NEW s \in Slots, Deduct(s)
  PROVE  BillingInv'
<1> DEFINE r == run[s]
<1> DEFINE new == [r.sub EXCEPT !.count = @ + 1]
<1> DEFINE done == [r EXCEPT !.pc = "recheck", !.counted = 0]
<1>1. RowsOK /\ SessionsOK
  BY InvParts
<1>2. r \in Session /\ HeldOK(r) /\ r.pc = "deduct"
  BY <1>1 DEF Deduct, SessionsOK
<1>3. r.sub \in SubRow /\ r.balance \in Nat /\ r.balance >= Fee
  BY <1>2 DEF HeldOK
<1>4. sub' \in SubRow /\ HasGrace(sub')
  <2>1. /\ new \in SubRow /\ new.status = r.sub.status
        /\ new.graceEnds = r.sub.graceEnds
    BY <1>3 DEF SubRow
  <2>2. sub' = Flush(sub, r.sub, new)
    BY DEF Deduct
  <2> HIDE DEF new
  <2> QED
    BY <1>1, <1>3, <2>1, <2>2, FlushKeepsGrace DEF RowsOK
<1>5. balance' \in Nat
  BY <1>1, <1>3, BillingAssumption DEF Deduct, FlushValue, RowsOK
<1>6. RowsOK'
  BY <1>1, <1>4, <1>5, BillingAssumption DEF Deduct, RowsOK, paper, bounds
<1>7. done \in Session /\ HeldOK(done)
  BY <1>2, <1>3 DEF Session, HeldOK
<1>8. run' = [run EXCEPT ![s] = done]
  BY <1>1 DEF Deduct, SessionsOK, Session
<1>9. SessionsOK'
  BY <1>1, <1>7, <1>8, SessionSet DEF SessionsOK
<1> QED
  BY <1>6, <1>9, InvNext

LEMMA RecheckInv ==
  ASSUME BillingInv, NEW s \in Slots, Recheck(s)
  PROVE  BillingInv'
<1> DEFINE pc == IF balance >= Minimum[run[s].sub.plan] THEN "ack" ELSE "low"
<1> DEFINE r == [run[s] EXCEPT !.balance = balance, !.pc = pc]
<1>1. RowsOK /\ SessionsOK
  BY InvParts
<1>2. RowsOK'
  BY <1>1 DEF Recheck, RowsOK, wallet, paper, bounds
<1>3. run' = [run EXCEPT ![s] = r]
  BY <1>1 DEF Recheck, SessionsOK, Session
<1>4. pc \in {"ack", "low"}
  OBVIOUS
<1> HIDE DEF pc
<1>5. r \in Session /\ HeldOK(r)
  BY <1>1, <1>4 DEF Recheck, RowsOK, SessionsOK, Session, HeldOK, Date
<1>6. SessionsOK'
  BY <1>1, <1>3, <1>5, SessionSet DEF SessionsOK
<1> QED
  BY <1>2, <1>6, InvNext

LEMMA LowInv ==
  ASSUME BillingInv, NEW s \in Slots, Low(s)
  PROVE  BillingInv'
<1> DEFINE pc == IF sub.status = "ACTIVE" THEN "suspend" ELSE "ack"
<1> DEFINE r == [run[s] EXCEPT !.sub = sub, !.pc = pc]
<1>1. RowsOK /\ SessionsOK
  BY InvParts
<1>2. RowsOK'
  BY <1>1 DEF Low, RowsOK, wallet, paper, bounds
<1>3. run' = [run EXCEPT ![s] = r]
  BY <1>1 DEF Low, SessionsOK, Session
<1>4. pc \in {"suspend", "ack"}
  OBVIOUS
<1> HIDE DEF pc
<1>5. r \in Session /\ HeldOK(r)
  BY <1>1, <1>4 DEF Low, RowsOK, SessionsOK, Session, HeldOK
<1>6. SessionsOK'
  BY <1>1, <1>3, <1>5, SessionSet DEF SessionsOK
<1> QED
  BY <1>2, <1>6, InvNext

\* A suspension is a row of its type with its deadline.
LEMMA SuspendedOK ==
  ASSUME NEW row \in SubRow, NEW now \in Int
  PROVE  Suspended(row, now) \in SubRow /\ HasGrace(Suspended(row, now))
<1>1. now + GraceDays \in Int /\ Nothing \notin Int
  BY BillingAssumption
<1> QED
  BY <1>1 DEF Suspended, SubRow, Status, Date, HasGrace

LEMMA SuspendInv ==
  ASSUME BillingInv, NEW s \in Slots, Suspend(s)
  PROVE  BillingInv'
<1> DEFINE r == run[s]
<1> DEFINE new == [r.sub EXCEPT !.count = @ + r.counted]
<1> DEFINE done == [r EXCEPT !.pc = "ack"]
<1>1. RowsOK /\ SessionsOK
  BY InvParts
<1>2. r \in Session /\ HeldOK(r) /\ r.pc = "suspend"
  BY <1>1 DEF Suspend, SessionsOK
<1>3. r.sub \in SubRow /\ r.counted \in Int
  BY <1>2 DEF HeldOK, Session
<1>4. sub' \in SubRow /\ HasGrace(sub')
  <2>1. new \in SubRow
    BY <1>3 DEF SubRow
  <2>2. sub' = Suspended(Flush(sub, r.sub, new), day)
    BY DEF Suspend
  <2>3. Flush(sub, r.sub, new) \in SubRow
    <3> HIDE DEF new
    <3> QED
      BY <1>1, <1>3, <2>1, FlushType DEF RowsOK
  <2>4. day \in Int
    BY <1>1 DEF RowsOK
  <2> QED
    BY <2>2, <2>3, <2>4, SuspendedOK
<1>5. RowsOK'
  BY <1>1, <1>4 DEF Suspend, RowsOK, wallet, paper, bounds
<1>6. done \in Session /\ HeldOK(done)
  BY <1>2 DEF Session, HeldOK
<1>7. run' = [run EXCEPT ![s] = done]
  BY <1>1 DEF Suspend, SessionsOK, Session
<1>8. SessionsOK'
  BY <1>1, <1>6, <1>7, SessionSet DEF SessionsOK
<1> QED
  BY <1>5, <1>8, InvNext

LEMMA AckInv ==
  ASSUME BillingInv, NEW s \in Slots, Ack(s)
  PROVE  BillingInv'
<1>1. RowsOK /\ SessionsOK
  BY InvParts
<1>2. RowsOK'
  BY <1>1 DEF Ack, RowsOK, wallet, paper, bounds
<1>3. SessionsOK'
  BY <1>1, IdleOK, SessionSet DEF Ack, End, SessionsOK
<1> QED
  BY <1>2, <1>3, InvNext

-----------------------------------------------------------------------------
(* Scheduled jobs, days and restarts                                       *)

LEMMA JobInv ==
  ASSUME BillingInv, NEW s \in Slots, NEW job \in {"expire", "enforce", "invoice"},
         NEW at \in Nat, Job(s, job, at)
  PROVE  BillingInv'
<1> DEFINE r == Begun(job, job, Nothing, at, sub)
<1>1. RowsOK /\ SessionsOK
  BY InvParts
<1>2. RowsOK'
  BY <1>1 DEF Job, RowsOK, wallet, paper, bounds
<1>3. r \in Session /\ HeldOK(r)
  BY <1>1 DEF RowsOK, Begun, Session, HeldOK, Date
<1>4. SessionsOK'
  BY <1>1, <1>3, SessionSet DEF Job, SessionsOK
<1> QED
  BY <1>2, <1>4, InvNext

LEMMA JobsInv ==
  ASSUME BillingInv, NEW s \in Slots, ExpireTrials(s) \/ EnforceGrace(s) \/ Invoice(s)
  PROVE  BillingInv'
<1>1. day \in Nat /\ day \div MonthDays \in Nat
  BY InvParts, BillingAssumption DEF RowsOK
<1> QED
  BY <1>1, JobInv DEF ExpireTrials, EnforceGrace, Invoice

LEMMA ExpireInv ==
  ASSUME BillingInv, NEW s \in Slots, Expire(s)
  PROVE  BillingInv'
<1>1. RowsOK /\ SessionsOK
  BY InvParts
<1>2. run[s].at \in Int
  BY <1>1 DEF SessionsOK, Session
<1>3. sub' \in SubRow /\ HasGrace(sub')
  BY <1>1, <1>2, SuspendedOK DEF Expire, RowsOK
<1>4. RowsOK'
  BY <1>1, <1>3 DEF Expire, RowsOK, wallet, paper, bounds
<1>5. SessionsOK'
  BY <1>1, IdleOK, SessionSet DEF Expire, End, SessionsOK
<1> QED
  BY <1>4, <1>5, InvNext

LEMMA EnforceInv ==
  ASSUME BillingInv, NEW s \in Slots, Enforce(s)
  PROVE  BillingInv'
<1>1. RowsOK /\ SessionsOK
  BY InvParts
<1>2. sub' \in SubRow /\ HasGrace(sub')
  BY <1>1 DEF Enforce, RowsOK, SubRow, Status, HasGrace
<1>3. RowsOK'
  BY <1>1, <1>2 DEF Enforce, RowsOK, wallet, paper, bounds
<1>4. SessionsOK'
  BY <1>1, IdleOK, SessionSet DEF Enforce, End, SessionsOK
<1> QED
  BY <1>3, <1>4, InvNext

LEMMA InvoiceWalletInv ==
  ASSUME BillingInv, NEW s \in Slots, InvoiceWallet(s)
  PROVE  BillingInv'
<1> DEFINE r == [run[s] EXCEPT !.balance = balance, !.pc = "invoiced"]
<1>1. RowsOK /\ SessionsOK
  BY InvParts
<1>2. RowsOK'
  BY <1>1 DEF InvoiceWallet, RowsOK, wallet, paper, bounds
<1>3. r \in Session /\ HeldOK(r)
  BY <1>1 DEF InvoiceWallet, RowsOK, SessionsOK, Session, HeldOK, Date
<1>4. run' = [run EXCEPT ![s] = r]
  BY <1>1 DEF InvoiceWallet, SessionsOK, Session
<1>5. SessionsOK'
  BY <1>1, <1>3, <1>4, SessionSet DEF SessionsOK
<1> QED
  BY <1>2, <1>5, InvNext

\* The monthly fee is charged only from a balance that covers it, as read.
LEMMA InvoicedInv ==
  ASSUME BillingInv, NEW s \in Slots, Invoiced(s)
  PROVE  BillingInv'
<1> DEFINE r == run[s]
<1> DEFINE new == [r.sub EXCEPT !.count = 0]
<1> DEFINE fee == MonthlyFee[r.sub.plan]
<1> DEFINE charged == IF r.balance >= fee THEN fee ELSE 0
<1>1. RowsOK /\ SessionsOK
  BY InvParts
<1>2. r \in Session /\ HeldOK(r) /\ r.pc = "invoiced"
  BY <1>1 DEF Invoiced, SessionsOK
<1>3. r.sub \in SubRow /\ r.balance \in Nat
  BY <1>2 DEF HeldOK
<1>4. sub' \in SubRow /\ HasGrace(sub')
  <2>1. /\ new \in SubRow /\ new.status = r.sub.status
        /\ new.graceEnds = r.sub.graceEnds
    BY <1>3 DEF SubRow
  <2>2. sub' = Flush(sub, r.sub, new)
    BY DEF Invoiced
  <2> HIDE DEF new
  <2> QED
    BY <1>1, <1>3, <2>1, <2>2, FlushKeepsGrace DEF RowsOK
<1>5. fee \in Nat /\ r.sub.count \in Int
  BY <1>3, BillingAssumption DEF SubRow
<1>6. balance' \in Nat /\ fees' \in Nat
  <2> HIDE DEF fee
  <2>1. charged \in Nat /\ r.balance - charged \in Nat
    BY <1>3, <1>5
  <2>2. balance' \in {balance, r.balance - charged} /\ fees' = fees + charged
    BY DEF Invoiced, FlushValue, fee
  <2> QED
    BY <1>1, <2>1, <2>2 DEF RowsOK
<1>7. billed' \in Int
  BY <1>1, <1>5 DEF Invoiced, RowsOK
<1>8. invoiced' \subseteq Nat
  BY <1>1, <1>2 DEF Invoiced, RowsOK, Session
<1>9. SessionsOK'
  BY <1>1, IdleOK, SessionSet DEF Invoiced, End, SessionsOK
<1>10. RowsOK'
  BY <1>1, <1>2, <1>4, <1>6, <1>7, <1>8 DEF Invoiced, RowsOK
<1> QED
  BY <1>9, <1>10, InvNext

LEMMA TickInv == BillingInv /\ Tick => BillingInv'
<1> SUFFICES ASSUME BillingInv, Tick PROVE BillingInv'
  OBVIOUS
<1>1. RowsOK /\ SessionsOK
  BY InvParts
<1>2. RowsOK'
  BY <1>1, BillingAssumption DEF Tick, RowsOK, wallet, paper, bounds
<1>3. SessionsOK'
  BY <1>1 DEF Tick, SessionsOK
<1> QED
  BY <1>2, <1>3, InvNext

\* A crash forgets what sessions have read; redelivery counts finitely many.
LEMMA CrashInv ==
  ASSUME BillingInv, NEW jobs, Crash(jobs)
  PROVE  BillingInv'
<1> DEFINE dead == {s \in Slots : run[s].job \in jobs}
<1> DEFINE again(u) == {s \in dead : run[s].job = "usage" /\ run[s].arg = u}
<1>1. RowsOK /\ SessionsOK
  BY InvParts
<1>2. ASSUME NEW u \in Usages PROVE pending[u] + Cardinality(again(u)) \in Nat
  <2>1. IsFiniteSet(again(u))
    BY BillingAssumption, FS_Subset
  <2> QED
    BY <1>1, <2>1, FS_CardinalityType DEF RowsOK
<1>3. pending' = [u \in Usages |-> pending[u] + Cardinality(again(u))]
  BY DEF Crash
<1>4. pending' \in [Usages -> Nat]
  <2> HIDE DEF again
  <2> QED
    BY <1>2, <1>3
<1>5. RowsOK'
  BY <1>1, <1>4 DEF Crash, RowsOK, wallet, paper
<1>6. SessionsOK'
  <2>1. run' = [s \in Slots |-> IF s \in dead THEN Idle ELSE run[s]]
    BY DEF Crash
  <2> HIDE DEF dead
  <2> QED
    BY <1>1, <2>1, IdleOK DEF SessionsOK
<1> QED
  BY <1>5, <1>6, InvNext

LEMMA NextInv == BillingInv /\ [Next]_vars => BillingInv'
<1> SUFFICES ASSUME BillingInv, [Next]_vars PROVE BillingInv'
  OBVIOUS
<1>1. ASSUME NEW s \in Slots, Step(s) PROVE BillingInv'
  BY <1>1, GrantInv, SwitchInv, CreateTrialInv, AnsweredInv, TopupWalletInv, TopupInv,
     UsageWalletInv, DeductInv, RecheckInv, LowInv, SuspendInv, AckInv, ExpireInv,
     EnforceInv, InvoiceWalletInv, InvoicedInv DEF Step
<1>2. ASSUME NEW s \in Slots, NEW p \in Plans, Subscribe(s, p) PROVE BillingInv'
  BY <1>2, SubscribeInv
<1>3. ASSUME NEW s \in Slots, NEW ref \in Refs, Verify(s, ref) PROVE BillingInv'
  BY <1>3, VerifyInv
<1>4. ASSUME NEW s \in Slots, NEW u \in Usages, Usage(s, u) PROVE BillingInv'
  BY <1>4, UsageInv
<1>5. ASSUME NEW s \in Slots, ExpireTrials(s) \/ EnforceGrace(s) \/ Invoice(s)
      PROVE  BillingInv'
  BY <1>5, JobsInv
<1>6. CASE ApiCrash \/ WorkerCrash
  BY <1>6, CrashInv DEF ApiCrash, WorkerCrash
<1>7. CASE UNCHANGED vars
  <2>1. RowsOK /\ SessionsOK
    BY InvParts
  <2>2. RowsOK'
    BY <1>7, <2>1 DEF vars, RowsOK, wallet, paper
  <2>3. SessionsOK'
    BY <1>7, <2>1 DEF vars, SessionsOK
  <2> QED
    BY <2>2, <2>3, InvNext
<1> QED
  BY <1>1, <1>2, <1>3, <1>4, <1>5, <1>6, <1>7, TickInv DEF Next

-----------------------------------------------------------------------------
(* With any number of sessions                                             *)

THEOREM BillingInvariant == Spec => []BillingInv
  BY InitInv, NextInv, PTL DEF Spec

\* The rows and sessions of the billing service keep their types.
THEOREM BillingTypes == Spec => []TypeOK
<1>1. BillingInv => TypeOK
  BY DEF BillingInv
<1> QED
  BY <1>1, BillingInvariant, PTL

\* deduct_usage and generate_monthly_invoices never make the balance negative,
\* whatever sessions write the wallet between their read and their commit: the
\* commit sets the balance to one that was covered when it was read.
THEOREM NeverNegative == Spec => []WalletNeverNegative
<1>1. BillingInv => WalletNeverNegative
  BY DEF BillingInv, WalletNeverNegative
<1> QED
  BY <1>1, BillingInvariant, PTL

\* _check_and_suspend and expire_trials write status and deadline together, and
\* every session that clears the deadline ends the suspension it has read.
THEOREM GraceIsSet == Spec => []SuspendedHasGrace
<1>1. BillingInv => SuspendedHasGrace
  BY DEF BillingInv, HasGrace, SuspendedHasGrace
<1> QED
  BY <1>1, BillingInvariant, PTL

-----------------------------------------------------------------------------
(* Credits, with any number of sessions                                    *)

\* The sessions that found a reference not credited, and those that found that the
\* tenant had no welcome credit.
Waiting(ref) == {s \in Slots : run[s].pc \in {"paystack", "topupWallet", "topup"}
                               /\ run[s].arg = ref}
Granting     == {s \in Slots : run[s].pc = "subscribe" /\ run[s].counted = 1}

\* Each credit has used up one session; none is added once there is a credit.
CreditInv  == \A ref \in Refs : credited[ref] + Cardinality(Waiting(ref)) <= Cardinality(Slots)
WelcomeInv == welcomes + Cardinality(Granting) <= Cardinality(Slots)

LEMMA SlotSets ==
  /\ IsFiniteSet(Slots)
  /\ \A S \in SUBSET Slots :
       /\ Cardinality(S) \in Nat /\ Cardinality(S) <= Cardinality(Slots)
       /\ \A T \in SUBSET S : Cardinality(T) <= Cardinality(S)
       /\ \A s \in S : \A T \in SUBSET (S \ {s}) : Cardinality(T) <= Cardinality(S) - 1
<1>1. IsFiniteSet(Slots)
  BY BillingAssumption
<1>2. ASSUME NEW S \in SUBSET Slots
      PROVE  /\ IsFiniteSet(S) /\ Cardinality(S) \in Nat /\ Cardinality(S) <= Cardinality(Slots)
             /\ \A T \in SUBSET S : Cardinality(T) <= Cardinality(S)
  BY <1>1, FS_Subset, FS_CardinalityType
<1>3. ASSUME NEW S \in SUBSET Slots, NEW s \in S, NEW T \in SUBSET (S \ {s})
      PROVE  Cardinality(T) <= Cardinality(S) - 1
  <2>1. Cardinality(S \ {s}) = Cardinality(S) - 1
    BY <1>2, FS_RemoveElement
  <2>2. Cardinality(T) <= Cardinality(S \ {s})
    BY <1>2
  <2> QED
    BY <2>1, <2>2
<1> QED
  BY <1>1, <1>2, <1>3

\* A step of a session leaves the others alone.
LEMMA OthersKept ==
  ASSUME run \in [Slots -> Session], NEW s \in Slots,
         \/ \E p \in Plans : Subscribe(s, p)
         \/ \E ref \in Refs : Verify(s, ref)
         \/ \E u \in Usages : Usage(s, u)
         \/ ExpireTrials(s) \/ EnforceGrace(s) \/ Invoice(s) \/ Step(s)
  PROVE  \A u \in Slots : u # s => run'[u] = run[u]
<1> DEFINE Kept == \A u \in Slots : u # s => run'[u] = run[u]
<1>1. CASE \E p \in Plans : Subscribe(s, p)
  BY <1>1 DEF Subscribe
<1>2. CASE \E ref \in Refs : Verify(s, ref)
  BY <1>2 DEF Verify
<1>3. CASE \E u \in Usages : Usage(s, u)
  BY <1>3 DEF Usage
<1>4. CASE ExpireTrials(s) \/ EnforceGrace(s) \/ Invoice(s)
  BY <1>4 DEF ExpireTrials, EnforceGrace, Invoice, Job
<1>5. CASE Grant(s) \/ Answered(s) \/ TopupWallet(s)
  BY <1>5 DEF Grant, Answered, TopupWallet, End
<1>6. CASE Switch(s) \/ CreateTrial(s) \/ Topup(s) \/ Ack(s) \/ Expire(s) \/ Enforce(s) \/ Invoiced(s)
  BY <1>6 DEF Switch, CreateTrial, Topup, Ack, Expire, Enforce, Invoiced, End
<1>7. CASE UsageWallet(s) \/ Deduct(s) \/ Recheck(s)
  BY <1>7 DEF UsageWallet, Deduct, Recheck
<1>8. CASE Low(s) \/ Suspend(s) \/ InvoiceWallet(s)
  BY <1>8 DEF Low, Suspend, InvoiceWallet
<1> QED
  BY <1>1, <1>2, <1>3, <1>4, <1>5, <1>6, <1>7, <1>8 DEF Step

\* The steps that neither begin nor end a top-up.
LEMMA CreditKept ==
  ASSUME BillingInv, NEW s \in Slots,
         \/ \E p \in Plans : Subscribe(s, p)
         \/ \E u \in Usages : Usage(s, u)
         \/ ExpireTrials(s) \/ EnforceGrace(s) \/ Invoice(s)
         \/ Grant(s) \/ Switch(s) \/ CreateTrial(s)
         \/ UsageWallet(s) \/ Deduct(s) \/ Recheck(s) \/ Low(s) \/ Suspend(s)
         \/ Ack(s) \/ Expire(s) \/ Enforce(s) \/ InvoiceWallet(s) \/ Invoiced(s)
  PROVE  credited' = credited /\ run'[s].pc \notin {"paystack", "topupWallet", "topup"}
<1>1. run \in [Slots -> Session]
  BY DEF BillingInv, TypeOK
<1> USE DEF wallet, Begun, Session
<1>2. CASE \E p \in Plans : Subscribe(s, p)
  BY <1>1, <1>2 DEF Subscribe
<1>3. CASE \E u \in Usages : Usage(s, u)
  BY <1>1, <1>3 DEF Usage
<1>4. CASE ExpireTrials(s) \/ EnforceGrace(s) \/ Invoice(s)
  BY <1>1, <1>4 DEF ExpireTrials, EnforceGrace, Invoice, Job
<1>5. CASE Grant(s)
  BY <1>1, <1>5 DEF Grant
<1>6. CASE Switch(s) \/ CreateTrial(s) \/ Ack(s) \/ Expire(s) \/ Enforce(s) \/ Invoiced(s)
  BY <1>1, <1>6 DEF Switch, CreateTrial, Ack, Expire, Enforce, Invoiced, End, Idle
<1>7. CASE UsageWallet(s)
  BY <1>1, <1>7 DEF UsageWallet
<1>8. CASE Deduct(s)
  BY <1>1, <1>8 DEF Deduct
<1>9. CASE Recheck(s)
  BY <1>1, <1>9 DEF Recheck
<1>10. CASE Low(s)
  BY <1>1, <1>10 DEF Low
<1>11. CASE Suspend(s) \/ InvoiceWallet(s)
  BY <1>1, <1>11 DEF Suspend, InvoiceWallet
<1> QED
  BY <1>2, <1>3, <1>4, <1>5, <1>6, <1>7, <1>8, <1>9, <1>10, <1>11

LEMMA CreditNext ==
  ASSUME BillingInv, CreditInv, [Next]_vars
  PROVE  CreditInv'
<1> SUFFICES ASSUME NEW ref \in Refs
             PROVE  credited'[ref] + Cardinality(Waiting(ref)') <= Cardinality(Slots)
  BY DEF CreditInv
<1>1. /\ run \in [Slots -> Session] /\ credited \in [Refs -> Nat] /\ credited[ref] \in Nat
      /\ Waiting(ref) \in SUBSET Slots /\ Waiting(ref)' \in SUBSET Slots
      /\ credited[ref] + Cardinality(Waiting(ref)) <= Cardinality(Slots)
  BY DEF BillingInv, TypeOK, CreditInv, Waiting
<1>2. /\ Cardinality(Waiting(ref)) \in Nat /\ Cardinality(Waiting(ref)') \in Nat
      /\ Cardinality(Slots) \in Nat /\ Cardinality(Waiting(ref)') <= Cardinality(Slots)
  BY <1>1, SlotSets
\* A step that credits nothing and adds no session, or finds no credit.
<1>3. ASSUME credited'[ref] = credited[ref],
             Waiting(ref)' \subseteq Waiting(ref) \/ credited[ref] = 0
      PROVE  credited'[ref] + Cardinality(Waiting(ref)') <= Cardinality(Slots)
  <2>1. CASE credited[ref] = 0
    BY <1>2, <1>3, <2>1
  <2>2. CASE Waiting(ref)' \subseteq Waiting(ref)
    <3>1. Cardinality(Waiting(ref)') <= Cardinality(Waiting(ref))
      BY <1>1, <2>2, SlotSets
    <3> QED
      BY <1>1, <1>2, <1>3, <3>1
  <2> QED
    BY <1>3, <2>1, <2>2
<1>4. ASSUME NEW s \in Slots, NEW r \in Refs, Verify(s, r)
      PROVE  credited'[ref] + Cardinality(Waiting(ref)') <= Cardinality(Slots)
  <2>1. credited'[ref] = credited[ref] /\ \A u \in Slots : u # s => run'[u] = run[u]
    BY <1>1, <1>4, OthersKept DEF Verify, wallet
  <2>2. run'[s] = run[s] \/ (run'[s].arg = r /\ ~(credited[r] > 0))
    BY <1>1, <1>4 DEF Verify, Begun
  <2>3. CASE run'[s] = run[s] \/ r # ref
    BY <1>3, <2>1, <2>2, <2>3 DEF Waiting
  <2>4. CASE r = ref /\ ~(credited[r] > 0)
    BY <1>1, <1>3, <2>1, <2>4
  <2> QED
    BY <2>2, <2>3, <2>4
<1>5. ASSUME NEW s \in Slots, Answered(s) \/ TopupWallet(s)
      PROVE  credited'[ref] + Cardinality(Waiting(ref)') <= Cardinality(Slots)
  <2>1. credited'[ref] = credited[ref] /\ \A u \in Slots : u # s => run'[u] = run[u]
    BY <1>1, <1>5, OthersKept DEF Step, Answered, TopupWallet, wallet
  <2>2. \/ run'[s].pc = "idle"
        \/ run[s].pc \in {"paystack", "topupWallet"} /\ run'[s].arg = run[s].arg
    BY <1>1, <1>5 DEF Answered, TopupWallet, End, Idle, Begun, Session
  <2> QED
    BY <1>3, <2>1, <2>2 DEF Waiting
<1>6. ASSUME NEW s \in Slots, Topup(s)
      PROVE  credited'[ref] + Cardinality(Waiting(ref)') <= Cardinality(Slots)
  <2>1. run'[s].pc = "idle" /\ \A u \in Slots : u # s => run'[u] = run[u]
    BY <1>1, <1>6, OthersKept DEF Step, Topup, End, Idle, Begun
  <2>2. credited' = [credited EXCEPT ![run[s].arg] = @ + 1] /\ run[s].pc = "topup"
    BY <1>6 DEF Topup
  <2>3. Waiting(ref)' \subseteq Waiting(ref) \ {s}
    BY <2>1 DEF Waiting
  <2>4. CASE run[s].arg = ref
    <3>1. s \in Waiting(ref)
      BY <2>2, <2>4 DEF Waiting
    <3>2. Cardinality(Waiting(ref)') <= Cardinality(Waiting(ref)) - 1
      BY <1>1, <2>3, <3>1, SlotSets
    <3>3. credited'[ref] = credited[ref] + 1
      BY <1>1, <2>2, <2>4
    <3> QED
      BY <1>1, <1>2, <3>2, <3>3
  <2>5. CASE run[s].arg # ref
    BY <1>1, <1>3, <2>2, <2>3, <2>5
  <2> QED
    BY <2>4, <2>5
<1>7. ASSUME NEW s \in Slots, credited' = credited,
             run'[s].pc \notin {"paystack", "topupWallet", "topup"},
             \A u \in Slots : u # s => run'[u] = run[u]
      PROVE  credited'[ref] + Cardinality(Waiting(ref)') <= Cardinality(Slots)
  BY <1>3, <1>7 DEF Waiting
<1>8. CASE Tick \/ UNCHANGED vars
  BY <1>3, <1>8 DEF Tick, vars, wallet, Waiting
<1>9. CASE ApiCrash \/ WorkerCrash
  <2>1. credited' = credited
    BY <1>9 DEF ApiCrash, WorkerCrash, Crash, wallet
  <2>2. \A u \in Slots : run'[u] = Idle \/ run'[u] = run[u]
    BY <1>9 DEF ApiCrash, WorkerCrash, Crash
  <2> QED
    BY <1>3, <2>1, <2>2 DEF Waiting, Idle, Begun
<1> QED
  BY <1>1, <1>4, <1>5, <1>6, <1>7, <1>8, <1>9, CreditKept, OthersKept DEF Next, Step

\* verify_topup credits a reference at most once for each session that can be verifying
\* it at a time, however many requests, webhooks and restarts there are: once there is a
\* credit, a request that looks finds it.  (Two sessions may both look before either
\* credits; one session at a time gives one credit.)
THEOREM CreditedByWaiting == Spec => []TopupByWaiting
<1>1. Init => CreditInv
  <2> SUFFICES ASSUME Init, NEW ref \in Refs
               PROVE  credited[ref] + Cardinality(Waiting(ref)) <= Cardinality(Slots)
    BY DEF CreditInv
  <2>1. credited[ref] = 0 /\ Waiting(ref) \in SUBSET Slots
    BY DEF Init, Waiting
  <2> QED
    BY <2>1, SlotSets
<1>2. BillingInv /\ CreditInv /\ [Next]_vars => CreditInv'
  BY CreditNext
<1>3. BillingInv /\ CreditInv => TopupByWaiting
  <2> SUFFICES ASSUME BillingInv, CreditInv, NEW ref \in Refs PROVE credited[ref] <= Cardinality(Slots)
    BY DEF TopupByWaiting
  <2>1. credited[ref] \in Nat /\ Waiting(ref) \in SUBSET Slots
    BY DEF BillingInv, TypeOK, Waiting
  <2>2. credited[ref] + Cardinality(Waiting(ref)) <= Cardinality(Slots)
    BY DEF CreditInv
  <2> QED
    BY <2>1, <2>2, SlotSets
<1> QED
  BY <1>1, <1>2, <1>3, BillingInvariant, PTL DEF Spec

\* The steps that neither decide on a welcome credit nor grant one.
LEMMA WelcomeKept ==
  ASSUME BillingInv, NEW s \in Slots,
         \/ \E p \in Plans : Subscribe(s, p)
         \/ \E u \in Usages : Usage(s, u)
         \/ ExpireTrials(s) \/ EnforceGrace(s) \/ Invoice(s)
         \/ Answered(s) \/ TopupWallet(s) \/ Topup(s)
         \/ UsageWallet(s) \/ Deduct(s) \/ Recheck(s) \/ Low(s) \/ Suspend(s)
         \/ Ack(s) \/ Expire(s) \/ Enforce(s) \/ InvoiceWallet(s) \/ Invoiced(s)
  PROVE  welcomes' = welcomes /\ (run'[s].pc # "subscribe" \/ run'[s].counted = 0)
<1>1. run \in [Slots -> Session]
  BY DEF BillingInv, TypeOK
<1> USE DEF wallet, Begun, Session
<1>2. CASE \E p \in Plans : Subscribe(s, p)
  BY <1>1, <1>2 DEF Subscribe
<1>3. CASE \E u \in Usages : Usage(s, u)
  BY <1>1, <1>3 DEF Usage
<1>4. CASE ExpireTrials(s) \/ EnforceGrace(s) \/ Invoice(s)
  BY <1>1, <1>4 DEF ExpireTrials, EnforceGrace, Invoice, Job
<1>5. CASE Answered(s) \/ TopupWallet(s)
  BY <1>1, <1>5 DEF Answered, TopupWallet, End, Idle
<1>6. CASE Topup(s) \/ Ack(s) \/ Expire(s) \/ Enforce(s) \/ Invoiced(s)
  BY <1>1, <1>6 DEF Topup, Ack, Expire, Enforce, Invoiced, End, Idle
<1>7. CASE UsageWallet(s)
  BY <1>1, <1>7 DEF UsageWallet
<1>8. CASE Deduct(s)
  BY <1>1, <1>8 DEF Deduct
<1>9. CASE Recheck(s)
  BY <1>1, <1>9 DEF Recheck
<1>10. CASE Low(s)
  BY <1>1, <1>10 DEF Low
<1>11. CASE Suspend(s) \/ InvoiceWallet(s)
  BY <1>1, <1>11 DEF Suspend, InvoiceWallet
<1> QED
  BY <1>2, <1>3, <1>4, <1>5, <1>6, <1>7, <1>8, <1>9, <1>10, <1>11

LEMMA WelcomeNext ==
  ASSUME BillingInv, WelcomeInv, [Next]_vars
  PROVE  WelcomeInv'
<1>1. /\ run \in [Slots -> Session] /\ welcomes \in Nat
      /\ Granting \in SUBSET Slots /\ Granting' \in SUBSET Slots
      /\ welcomes + Cardinality(Granting) <= Cardinality(Slots)
  BY DEF BillingInv, TypeOK, WelcomeInv, Granting
<1>2. /\ Cardinality(Granting) \in Nat /\ Cardinality(Granting') \in Nat
      /\ Cardinality(Slots) \in Nat /\ Cardinality(Granting') <= Cardinality(Slots)
  BY <1>1, SlotSets
<1>3. ASSUME welcomes' = welcomes, Granting' \subseteq Granting \/ welcomes = 0
      PROVE  WelcomeInv'
  <2>1. CASE welcomes = 0
    BY <1>2, <1>3, <2>1 DEF WelcomeInv
  <2>2. CASE Granting' \subseteq Granting
    <3>1. Cardinality(Granting') <= Cardinality(Granting)
      BY <1>1, <2>2, SlotSets
    <3> QED
      BY <1>1, <1>2, <1>3, <3>1 DEF WelcomeInv
  <2> QED
    BY <1>3, <2>1, <2>2
<1>4. ASSUME NEW s \in Slots, NEW ref \in Refs, Verify(s, ref) PROVE WelcomeInv'
  <2>1. welcomes' = welcomes /\ (run' = run \/ run'[s].pc = "paystack")
        /\ \A u \in Slots : u # s => run'[u] = run[u]
    BY <1>1, <1>4, OthersKept DEF Verify, wallet, Begun
  <2> QED
    BY <1>3, <2>1 DEF Granting
<1>5. ASSUME NEW s \in Slots, Grant(s) PROVE WelcomeInv'
  <2>1. /\ welcomes' = welcomes
        /\ run'[s].counted = IF Welcome(run[s].arg) > 0 THEN 1 ELSE 0
        /\ \A u \in Slots : u # s => run'[u] = run[u]
    BY <1>1, <1>5, OthersKept DEF Grant, wallet, Session, Step
  <2>2. run'[s].counted = 1 => welcomes = 0
    BY <2>1 DEF Welcome
  <2> QED
    BY <1>3, <2>1, <2>2 DEF Granting
<1>6. ASSUME NEW s \in Slots, Switch(s) \/ CreateTrial(s) PROVE WelcomeInv'
  <2>1. run'[s].pc = "idle" /\ \A u \in Slots : u # s => run'[u] = run[u]
    <3>1. End(s)
      BY <1>6 DEF Switch, CreateTrial
    <3> QED
      BY <1>1, <3>1 DEF End, Idle, Begun
  <2>2. run[s].counted \in {0, 1} /\ run[s].pc = "subscribe"
    BY <1>1, <1>6 DEF Session, Switch, CreateTrial
  <2>3. Granting' \subseteq Granting \ {s} /\ Granting' \subseteq Slots \ {s}
    BY <2>1 DEF Granting
  <2>4. CASE welcomes' = welcomes
    BY <1>3, <2>3, <2>4
  <2>5. CASE run[s].counted = 1 /\ welcomes' = welcomes + 1
    <3>1. s \in Granting
      BY <2>2, <2>5 DEF Granting
    <3>2. Cardinality(Granting') <= Cardinality(Granting) - 1
      BY <1>1, <2>3, <3>1, SlotSets
    <3> QED
      BY <1>1, <1>2, <2>5, <3>2 DEF WelcomeInv
  <2>6. CASE welcomes' \in {0, 1}
    <3>1. Cardinality(Granting') <= Cardinality(Slots) - 1
      BY <2>3, SlotSets
    <3> QED
      BY <1>2, <2>6, <3>1 DEF WelcomeInv
  <2> QED
    BY <1>1, <1>6, <2>2, <2>4, <2>5, <2>6 DEF Switch, CreateTrial
<1>7. ASSUME NEW s \in Slots, welcomes' = welcomes,
             run'[s].pc # "subscribe" \/ run'[s].counted = 0,
             \A u \in Slots : u # s => run'[u] = run[u]
      PROVE  WelcomeInv'
  BY <1>3, <1>7 DEF Granting
<1>8. CASE Tick \/ UNCHANGED vars
  BY <1>3, <1>8 DEF Tick, vars, wallet, Granting
<1>9. CASE ApiCrash \/ WorkerCrash
  <2>1. welcomes' = welcomes
    BY <1>9 DEF ApiCrash, WorkerCrash, Crash, wallet
  <2>2. \A u \in Slots : run'[u] = Idle \/ run'[u] = run[u]
    BY <1>9 DEF ApiCrash, WorkerCrash, Crash
  <2> QED
    BY <1>3, <2>1, <2>2 DEF Granting, Idle, Begun
<1> QED
  BY <1>1, <1>4, <1>5, <1>6, <1>7, <1>8, <1>9, WelcomeKept, OthersKept DEF Next, Step

\* _check_and_grant_welcome_credit gives the credit at most once for each session that
\* can be changing the plan at a time: one that looks after it was given gives no other.
THEOREM WelcomedByWaiting == Spec => []WelcomeByWaiting
<1>1. Init => WelcomeInv
  <2> SUFFICES ASSUME Init PROVE WelcomeInv
    OBVIOUS
  <2>1. welcomes = 0 /\ Granting \in SUBSET Slots
    BY DEF Init, Granting
  <2> QED
    BY <2>1, SlotSets DEF WelcomeInv
<1>2. BillingInv /\ WelcomeInv /\ [Next]_vars => WelcomeInv'
  BY WelcomeNext
<1>3. BillingInv /\ WelcomeInv => WelcomeByWaiting
  <2> SUFFICES ASSUME BillingInv, WelcomeInv PROVE welcomes <= Cardinality(Slots)
    BY DEF WelcomeByWaiting
  <2>1. welcomes \in Nat /\ Granting \in SUBSET Slots
    BY DEF BillingInv, TypeOK, Granting
  <2>2. welcomes + Cardinality(Granting) <= Cardinality(Slots)
    BY DEF WelcomeInv
  <2> QED
    BY <2>1, <2>2, SlotSets
<1> QED
  BY <1>1, <1>2, <1>3, BillingInvariant, PTL DEF Spec

-----------------------------------------------------------------------------
(* With one session at a time                                              *)

OneSession == \A s, u \in Slots : s = u

\* What the only session has decided is still so when it commits.
GraceStillOver(r) ==
  r.pc = "enforce" => sub.status = "SUSPENDED" /\ sub.graceEnds \in Int /\ sub.graceEnds <= day

\* The deadline is the one of the suspension that is running.
GraceDates(row) ==
  row.status = "SUSPENDED" => row.since \in Int /\ row.graceEnds = row.since + GraceDays

GraceInv   == GraceDates(sub) /\ \A s \in Slots : GraceStillOver(run[s])

\* A commit that does not suspend leaves a suspended row both its dates.
LEMMA FlushKeepsDates ==
  ASSUME NEW current \in SubRow, NEW read \in SubRow, NEW new \in SubRow,
         GraceDates(current),
         new.status = read.status \/ new.status # "SUSPENDED",
         \/ new.graceEnds = read.graceEnds /\ new.since = read.since
         \/ new.status # read.status
  PROVE  GraceDates(Flush(current, read, new))
<1> DEFINE row == Flush(current, read, new)
<1>1. /\ row.status = IF new.status = read.status THEN current.status ELSE new.status
      /\ row.graceEnds = IF new.graceEnds = read.graceEnds THEN current.graceEnds
                         ELSE new.graceEnds
      /\ row.since = IF new.since = read.since THEN current.since ELSE new.since
  BY DEF Flush, SubRow
<1> HIDE DEF row
<1>2. GraceDates(row)
  BY <1>1 DEF GraceDates
<1> QED
  BY <1>2 DEF row

\* Whoever writes the row, its deadline is the running suspension's.
LEMMA GraceDatesNext ==
  ASSUME BillingInv, GraceDates(sub), [Next]_vars
  PROVE  GraceDates(sub')
<1>1. /\ sub \in SubRow /\ day \in Int /\ run \in [Slots -> Session]
      /\ \A s \in Slots : HeldOK(run[s])
  BY DEF BillingInv, TypeOK
<1>2. CASE sub' = sub
  BY <1>2 DEF GraceDates
<1>3. ASSUME NEW s \in Slots, Switch(s) PROVE GraceDates(sub')
  <2> DEFINE r == run[s]
  <2> DEFINE new == [r.sub EXCEPT !.plan = r.arg,
                       !.status = IF @ \in {"TRIAL", "SUSPENDED"} THEN "ACTIVE" ELSE @]
  <2>1. r.sub \in SubRow /\ r.arg \in Plans
    BY <1>1, <1>3 DEF Switch, HeldOK
  <2>2. /\ new \in SubRow /\ new.status # "SUSPENDED"
        /\ new.graceEnds = r.sub.graceEnds /\ new.since = r.sub.since
    BY <2>1 DEF SubRow, Status
  <2>3. sub' = Flush(sub, r.sub, new)
    BY <1>3 DEF Switch
  <2> HIDE DEF new
  <2> QED
    BY <1>1, <2>1, <2>2, <2>3, FlushKeepsDates
<1>4. ASSUME NEW s \in Slots, CreateTrial(s) PROVE GraceDates(sub')
  <2>1. sub' = sub \/ sub'.status = "TRIAL"
    BY <1>1, <1>4 DEF CreateTrial, SubRow
  <2> QED
    BY <1>2, <2>1 DEF GraceDates
<1>5. ASSUME NEW s \in Slots, Topup(s) PROVE GraceDates(sub')
  <2> DEFINE r == run[s]
  <2> DEFINE new == [r.sub EXCEPT !.status = "ACTIVE", !.since = Nothing,
                                  !.graceEnds = Nothing]
  <2>1. r.sub \in SubRow
    BY <1>1, <1>5 DEF Topup, HeldOK
  <2>2. CASE r.sub.status = "SUSPENDED" /\ sub' = Flush(sub, r.sub, new)
    <3>1. new \in SubRow /\ new.status = "ACTIVE"
      BY <2>1 DEF SubRow, Status, Date
    <3> HIDE DEF new
    <3> QED
      BY <1>1, <2>1, <2>2, <3>1, FlushKeepsDates
  <2> QED
    BY <1>2, <1>5, <2>2 DEF Topup
<1>6. ASSUME NEW s \in Slots, Deduct(s) \/ Invoiced(s) PROVE GraceDates(sub')
  <2> DEFINE r == run[s]
  <2>1. r.sub \in SubRow
    BY <1>1, <1>6 DEF Deduct, Invoiced, HeldOK
  <2>2. PICK n \in Int : sub' = Flush(sub, r.sub, [r.sub EXCEPT !.count = n])
    <3>1. r.sub.count + 1 \in Int /\ 0 \in Int
      BY <2>1 DEF SubRow
    <3> QED
      BY <1>6, <3>1 DEF Deduct, Invoiced
  <2> DEFINE new == [r.sub EXCEPT !.count = n]
  <2>3. /\ new \in SubRow /\ new.status = r.sub.status
        /\ new.graceEnds = r.sub.graceEnds /\ new.since = r.sub.since
    BY <2>1 DEF SubRow
  <2>4. sub' = Flush(sub, r.sub, new)
    BY <2>2
  <2> HIDE DEF new
  <2> QED
    BY <1>1, <2>1, <2>3, <2>4, FlushKeepsDates
<1>7. ASSUME NEW row \in SubRow, NEW now \in Int PROVE GraceDates(Suspended(row, now))
  BY <1>7 DEF Suspended, SubRow, GraceDates
<1>8. ASSUME NEW s \in Slots, Suspend(s) PROVE GraceDates(sub')
  <2> DEFINE r == run[s]
  <2> DEFINE new == [r.sub EXCEPT !.count = @ + r.counted]
  <2>1. r.sub \in SubRow /\ r.counted \in Int
    BY <1>1, <1>8 DEF Suspend, HeldOK, Session
  <2>2. new \in SubRow
    BY <2>1 DEF SubRow
  <2>3. sub' = Suspended(Flush(sub, r.sub, new), day)
    BY <1>8 DEF Suspend
  <2> HIDE DEF new
  <2> QED
    BY <1>1, <1>7, <2>1, <2>2, <2>3, FlushType
<1>9. ASSUME NEW s \in Slots, Expire(s) PROVE GraceDates(sub')
  <2>1. run[s].at \in Int
    BY <1>1 DEF Session
  <2> QED
    BY <1>1, <1>7, <1>9, <2>1 DEF Expire
<1>10. ASSUME NEW s \in Slots, Enforce(s) PROVE GraceDates(sub')
  BY <1>1, <1>10 DEF Enforce, SubRow, GraceDates
<1>11. CASE Next /\ sub' # sub
  <2>1. PICK s \in Slots : \/ Switch(s) \/ CreateTrial(s) \/ Topup(s) \/ Deduct(s)
                          \/ Invoiced(s) \/ Suspend(s) \/ Expire(s) \/ Enforce(s)
    BY <1>11 DEF Next, Step, Subscribe, Verify, Usage, ExpireTrials, EnforceGrace, Invoice,
         Job, Grant, Answered, TopupWallet, UsageWallet, Recheck, Low, Ack,
         InvoiceWallet, Tick, ApiCrash, WorkerCrash, Crash
  <2> QED
    BY <1>3, <1>4, <1>5, <1>6, <1>8, <1>9, <1>10, <2>1
<1> QED
  BY <1>2, <1>11 DEF vars

\* The steps after which no session is about to block the tenant.
LEMMA NotEnforcing ==
  ASSUME BillingInv, NEW s \in Slots,
         \/ \E p \in Plans : Subscribe(s, p)
         \/ \E u \in Usages : Usage(s, u)
         \/ ExpireTrials(s) \/ Invoice(s)
         \/ Step(s)
  PROVE  run'[s].pc # "enforce"
<1>1. run \in [Slots -> Session]
  BY DEF BillingInv, TypeOK
<1> USE DEF Begun, Session
<1>2. CASE \E p \in Plans : Subscribe(s, p)
  BY <1>1, <1>2 DEF Subscribe
<1>3. CASE \E u \in Usages : Usage(s, u)
  BY <1>1, <1>3 DEF Usage
<1>4. CASE ExpireTrials(s) \/ Invoice(s)
  BY <1>1, <1>4 DEF ExpireTrials, Invoice, Job
<1>5. CASE Answered(s) \/ TopupWallet(s)
  BY <1>1, <1>5 DEF Answered, TopupWallet, End, Idle
<1>6. CASE \/ Switch(s) \/ CreateTrial(s) \/ Topup(s) \/ Ack(s) \/ Expire(s)
          \/ Enforce(s) \/ Invoiced(s)
  BY <1>1, <1>6 DEF Switch, CreateTrial, Topup, Ack, Expire, Enforce, Invoiced, End, Idle
<1>7. CASE UsageWallet(s)
  BY <1>1, <1>7 DEF UsageWallet
<1>8. CASE Grant(s) \/ Deduct(s)
  BY <1>1, <1>8 DEF Grant, Deduct
<1>9. CASE Recheck(s) \/ Low(s)
  BY <1>1, <1>9 DEF Recheck, Low
<1>10. CASE Suspend(s) \/ InvoiceWallet(s)
  BY <1>1, <1>10 DEF Suspend, InvoiceWallet
<1> QED
  BY <1>2, <1>3, <1>4, <1>5, <1>6, <1>7, <1>8, <1>9, <1>10 DEF Step

LEMMA GraceNext ==
  ASSUME OneSession, BillingInv, GraceInv, [Next]_vars
  PROVE  GraceInv'
<1>1. /\ run \in [Slots -> Session] /\ sub \in SubRow /\ day \in Int
      /\ GraceDates(sub) /\ \A s \in Slots : GraceStillOver(run[s])
  BY DEF BillingInv, TypeOK, GraceInv
<1>2. GraceDates(sub)'
  <2>1. GraceDates(sub')
    BY <1>1, GraceDatesNext
  <2> QED
    BY <2>1 DEF GraceDates
<1> SUFFICES \A u \in Slots : GraceStillOver(run[u])'
  BY <1>2 DEF GraceInv
<1>3. ASSUME NEW s \in Slots, run'[s].pc # "enforce"
      PROVE  \A u \in Slots : GraceStillOver(run[u])'
  BY <1>3 DEF OneSession, GraceStillOver
<1>4. ASSUME NEW s \in Slots, EnforceGrace(s)
      PROVE  \A u \in Slots : GraceStillOver(run[u])'
  <2>1. sub' = sub /\ day' = day
    BY <1>4 DEF EnforceGrace, Job
  <2>2. sub.status = "SUSPENDED" /\ sub.graceEnds \in Int /\ sub.graceEnds <= day
    BY <1>1, <1>4 DEF EnforceGrace, GraceOver, SubRow, Date
  <2> QED
    BY <2>1, <2>2 DEF GraceStillOver
<1>5. ASSUME NEW s \in Slots, NEW ref \in Refs, Verify(s, ref)
      PROVE  \A u \in Slots : GraceStillOver(run[u])'
  <2>1. sub' = sub /\ day' = day /\ (run' = run \/ run'[s].pc = "paystack")
    BY <1>1, <1>5 DEF Verify, Begun
  <2> QED
    BY <1>1, <1>3, <2>1 DEF GraceStillOver
<1>6. CASE Tick \/ ApiCrash \/ WorkerCrash \/ UNCHANGED vars
  <2>1. sub' = sub /\ (day' = day \/ day' = day + 1)
    BY <1>6 DEF Tick, ApiCrash, WorkerCrash, Crash, vars
  <2>2. \A u \in Slots : run'[u] = Idle \/ run'[u] = run[u]
    BY <1>6 DEF Tick, ApiCrash, WorkerCrash, Crash, vars
  <2> QED
    BY <1>1, <2>1, <2>2 DEF GraceStillOver, Idle, Begun
<1> QED
  BY <1>3, <1>4, <1>5, <1>6, NotEnforcing DEF Next

\* Only the grace job blocks a tenant, and it finds the deadline over.
LEMMA BlockStep ==
  ASSUME BillingInv, GraceInv, [Next]_vars,
         sub'.status = "BLOCKED", sub.status # "BLOCKED"
  PROVE  sub.status = "SUSPENDED" /\ day >= sub.since + GraceDays
<1>1. /\ sub \in SubRow /\ day \in Int /\ run \in [Slots -> Session]
      /\ \A s \in Slots : HeldOK(run[s]) /\ GraceStillOver(run[s])
      /\ GraceDates(sub)
  BY DEF BillingInv, TypeOK, GraceInv
<1>2. ASSUME NEW s \in Slots, Enforce(s)
      PROVE  sub.status = "SUSPENDED" /\ day >= sub.since + GraceDays
  BY <1>1, <1>2, BillingAssumption DEF Enforce, GraceStillOver, GraceDates
<1>3. ASSUME NEW s \in Slots, NEW new \in SubRow, run[s].sub \in SubRow,
             sub' = Flush(sub, run[s].sub, new),
             new.status = run[s].sub.status \/ new.status # "BLOCKED"
      PROVE  FALSE
  <2>1. sub'.status = IF new.status = run[s].sub.status THEN sub.status ELSE new.status
    BY <1>1, <1>3, FlushType
  <2> QED
    BY <1>3, <2>1
<1>4. ASSUME NEW s \in Slots, Switch(s) PROVE FALSE
  <2> DEFINE r == run[s]
  <2> DEFINE new == [r.sub EXCEPT !.plan = r.arg,
                       !.status = IF @ \in {"TRIAL", "SUSPENDED"} THEN "ACTIVE" ELSE @]
  <2>1. r.sub \in SubRow /\ r.arg \in Plans
    BY <1>1, <1>4 DEF Switch, HeldOK
  <2>2. new \in SubRow /\ (new.status = r.sub.status \/ new.status # "BLOCKED")
    BY <2>1 DEF SubRow, Status
  <2>3. sub' = Flush(sub, r.sub, new)
    BY <1>4 DEF Switch
  <2> HIDE DEF new
  <2> QED
    BY <1>3, <2>1, <2>2, <2>3
<1>5. ASSUME NEW s \in Slots, Topup(s) PROVE FALSE
  <2> DEFINE r == run[s]
  <2> DEFINE new == [r.sub EXCEPT !.status = "ACTIVE", !.since = Nothing,
                                  !.graceEnds = Nothing]
  <2>1. r.sub \in SubRow
    BY <1>1, <1>5 DEF Topup, HeldOK
  <2>2. new \in SubRow /\ new.status = "ACTIVE"
    BY <2>1 DEF SubRow, Status, Date
  <2>3. sub' = sub \/ sub' = Flush(sub, r.sub, new)
    BY <1>5 DEF Topup
  <2> HIDE DEF new
  <2> QED
    BY <1>3, <2>1, <2>2, <2>3
<1>6. ASSUME NEW s \in Slots, Deduct(s) \/ Invoiced(s) PROVE FALSE
  <2> DEFINE r == run[s]
  <2>1. r.sub \in SubRow
    BY <1>1, <1>6 DEF Deduct, Invoiced, HeldOK
  <2>2. PICK n \in Int : sub' = Flush(sub, r.sub, [r.sub EXCEPT !.count = n])
    <3>1. r.sub.count + 1 \in Int /\ 0 \in Int
      BY <2>1 DEF SubRow
    <3> QED
      BY <1>6, <3>1 DEF Deduct, Invoiced
  <2> DEFINE new == [r.sub EXCEPT !.count = n]
  <2>3. new \in SubRow /\ new.status = r.sub.status
    BY <2>1 DEF SubRow
  <2>4. sub' = Flush(sub, r.sub, new)
    BY <2>2
  <2> HIDE DEF new
  <2> QED
    BY <1>3, <2>1, <2>3, <2>4
<1>7. ASSUME NEW row \in SubRow, NEW now \in Int, sub' = Suspended(row, now) PROVE FALSE
  BY <1>7 DEF Suspended, SubRow
<1>8. ASSUME NEW s \in Slots, Suspend(s) PROVE FALSE
  <2> DEFINE r == run[s]
  <2> DEFINE new == [r.sub EXCEPT !.count = @ + r.counted]
  <2>1. r.sub \in SubRow /\ r.counted \in Int
    BY <1>1, <1>8 DEF Suspend, HeldOK, Session
  <2>2. new \in SubRow
    BY <2>1 DEF SubRow
  <2>3. sub' = Suspended(Flush(sub, r.sub, new), day)
    BY <1>8 DEF Suspend
  <2> HIDE DEF new
  <2> QED
    BY <1>1, <1>7, <2>1, <2>2, <2>3, FlushType
<1>9. ASSUME NEW s \in Slots, Expire(s) PROVE FALSE
  <2>1. run[s].at \in Int
    BY <1>1 DEF Session
  <2> QED
    BY <1>1, <1>7, <1>9, <2>1 DEF Expire
<1>10. ASSUME NEW s \in Slots, CreateTrial(s) PROVE FALSE
  BY <1>1, <1>10 DEF CreateTrial, SubRow
<1>11. Next /\ sub' # sub
  BY DEF vars
<1>12. PICK s \in Slots : \/ Switch(s) \/ CreateTrial(s) \/ Topup(s) \/ Deduct(s)
                         \/ Invoiced(s) \/ Suspend(s) \/ Expire(s) \/ Enforce(s)
  BY <1>11 DEF Next, Step, Subscribe, Verify, Usage, ExpireTrials, EnforceGrace, Invoice,
       Job, Grant, Answered, TopupWallet, UsageWallet, Recheck, Low, Ack,
       InvoiceWallet, Tick, ApiCrash, WorkerCrash, Crash
<1> QED
  BY <1>2, <1>4, <1>5, <1>6, <1>8, <1>9, <1>10, <1>12

\* With one session at a time enforce_grace_periods blocks a tenant only when
\* the grace period of the running suspension is over.  The dates an earlier
\* suspension left in the row do not count: GraceDates.
THEOREM GraceIsGiven == ASSUME OneSession PROVE Spec => FullGrace
<1>1. Init => GraceInv
  BY DEF Init, GraceInv, GraceDates, GraceStillOver, Idle, Begun
<1>2. BillingInv /\ GraceInv /\ [Next]_vars => GraceInv'
  BY GraceNext
<1>3. BillingInv /\ GraceInv /\ [Next]_vars =>
        [sub'.status = "BLOCKED" /\ sub.status # "BLOCKED"
           => sub.status = "SUSPENDED" /\ day >= sub.since + GraceDays]_vars
  BY BlockStep
<1> QED
  BY <1>1, <1>2, <1>3, BillingInvariant, PTL DEF Spec, FullGrace

-----------------------------------------------------------------------------
(* The books of one session                                                *)

\* What the only session has read is still so when it commits.
Current(r) ==
  /\ r.pc \in {"grant", "subscribe", "topupWallet", "topup", "usageWallet", "deduct", "suspend",
               "invoice", "invoiced"} => r.sub = sub
  /\ r.pc \in {"topup", "deduct", "invoiced"} => r.balance = balance
  /\ r.pc = "subscribe" /\ r.counted = 1 => r.balance = balance /\ r.arg = Starter
  /\ r.pc \in {"topupWallet", "topup", "usageWallet", "deduct", "invoice", "invoiced"} =>
       sub.status # "NONE"

\* A tenant without a subscription has no wallet.
NoWallet == sub.status = "NONE" => balance = 0 /\ welcomes = 0

BooksInv ==
  /\ BalanceExplained /\ UsageIsInvoiced /\ NoWallet
  /\ \A s \in Slots : Current(run[s])

\* What was paid in, by reference.
Paid == [r \in Refs |-> credited[r] * TopupAmount[r]]

\* A commit of a session that has read what is there now.
LEMMA FlushCurrent ==
  ASSUME NEW row \in SubRow, NEW new \in SubRow
  PROVE  Flush(row, row, new) = new
<1>1. DOMAIN row = {"status", "plan", "trialEnds", "since", "graceEnds", "count"}
  BY DEF SubRow
<1>2. Flush(row, row, new) =
        [f \in {"status", "plan", "trialEnds", "since", "graceEnds", "count"} |-> new[f]]
  BY <1>1 DEF Flush
<1> QED
  BY <1>2 DEF SubRow

LEMMA OneMore == \A n, m \in Int : (n + 1) * m = n * m + m
  OBVIOUS

LEMMA OneFeeMore == \A n, m \in Int : m * (n + 1) = m * n + m
  OBVIOUS

\* What the books are about, with its types.
LEMMA BooksTypes ==
  ASSUME BillingInv, BooksInv
  PROVE  /\ balance \in Nat /\ spent \in Nat /\ fees \in Nat /\ welcomes \in Nat
         /\ billed \in Int /\ sub \in SubRow /\ sub.count \in Int /\ day \in Int
         /\ credited \in [Refs -> Nat] /\ run \in [Slots -> Session]
         /\ Fee \in Nat /\ Minimum[Starter] \in Nat /\ SumOver(Paid, Refs) \in Int
         /\ \A r \in Refs : Paid[r] \in Int
         /\ balance + spent + fees = SumOver(Paid, Refs) + welcomes * Minimum[Starter]
         /\ spent <= Fee * (billed + sub.count)
<1>1. /\ balance \in Nat /\ spent \in Nat /\ fees \in Nat /\ welcomes \in Nat
      /\ billed \in Int /\ sub \in SubRow /\ sub.count \in Int /\ day \in Int
      /\ credited \in [Refs -> Nat] /\ run \in [Slots -> Session]
  BY DEF BillingInv, TypeOK, SubRow
<1>2. Fee \in Nat /\ Minimum[Starter] \in Nat
  BY BillingAssumption
<1>3. \A r \in Refs : Paid[r] \in Int
  <2>1. \A r \in Refs : credited[r] \in Int /\ TopupAmount[r] \in Int
    BY <1>1, BillingAssumption
  <2>2. \A n, m \in Int : n * m \in Int
    OBVIOUS
  <2> QED
    BY <2>1, <2>2 DEF Paid
<1>4. SumOver(Paid, Refs) \in Int
  BY <1>3, BillingAssumption, SumInt
<1> QED
  BY <1>1, <1>2, <1>3, <1>4 DEF BooksInv, BalanceExplained, UsageIsInvoiced, Paid

\* A step that commits nothing.
LEMMA ReadsKept ==
  ASSUME BooksInv, UNCHANGED <<sub, balance, credited, welcomes, fees, spent, billed>>
  PROVE  BalanceExplained' /\ UsageIsInvoiced' /\ NoWallet'
  BY DEF BooksInv, BalanceExplained, UsageIsInvoiced, NoWallet

\* The steps of the session that only read.
LEMMA ReadBooks ==
  ASSUME OneSession, BillingInv, BooksInv, NEW s \in Slots,
         \/ \E p \in Plans : Subscribe(s, p)
         \/ \E ref \in Refs : Verify(s, ref)
         \/ \E u \in Usages : Usage(s, u)
         \/ ExpireTrials(s) \/ EnforceGrace(s) \/ Invoice(s)
         \/ Grant(s) \/ Answered(s) \/ TopupWallet(s)
         \/ UsageWallet(s) \/ Recheck(s) \/ Low(s) \/ Ack(s) \/ InvoiceWallet(s)
  PROVE  BooksInv'
<1>1. run \in [Slots -> Session] /\ Current(run[s])
  BY DEF BillingInv, TypeOK, BooksInv
<1>2. UNCHANGED <<sub, balance, credited, welcomes, fees, spent, billed>>
  BY DEF Subscribe, Verify, Usage, ExpireTrials, EnforceGrace, Invoice, Job, Grant, Answered,
         TopupWallet, UsageWallet, Recheck, Low, Ack, InvoiceWallet, wallet, paper
<1>3. BalanceExplained' /\ UsageIsInvoiced' /\ NoWallet'
  BY <1>2, ReadsKept
<1>4. Current(run[s])'
  <2> USE DEF Begun, Session, Current
  <2>1. CASE \E p \in Plans : Subscribe(s, p)
    BY <1>1, <1>2, <2>1 DEF Subscribe
  <2>2. CASE \E ref \in Refs : Verify(s, ref)
    BY <1>1, <1>2, <2>2 DEF Verify
  <2>3. CASE \E u \in Usages : Usage(s, u)
    BY <1>1, <1>2, <2>3 DEF Usage
  <2>4. CASE ExpireTrials(s) \/ EnforceGrace(s) \/ Invoice(s)
    BY <1>1, <1>2, <2>4 DEF ExpireTrials, EnforceGrace, Invoice, Job
  <2>5. CASE Grant(s)
    <3>1. run'[s].pc = "subscribe" /\ run'[s].balance = balance /\ run'[s].arg = run[s].arg
          /\ run'[s].sub = run[s].sub
          /\ run'[s].counted = IF Welcome(run[s].arg) > 0 THEN 1 ELSE 0
      BY <1>1, <2>5 DEF Grant
    <3>2. Welcome(run[s].arg) > 0 => run[s].arg = Starter
      BY DEF Welcome
    <3> QED
      BY <1>1, <1>2, <2>5, <3>1, <3>2 DEF Grant
  <2>6. CASE Answered(s) \/ TopupWallet(s)
    BY <1>1, <1>2, <2>6 DEF Answered, TopupWallet, End, Idle
  <2>7. CASE UsageWallet(s)
    BY <1>1, <1>2, <2>7 DEF UsageWallet
  <2>8. CASE Recheck(s) \/ Low(s)
    BY <1>1, <1>2, <2>8 DEF Recheck, Low
  <2>9. CASE Ack(s) \/ InvoiceWallet(s)
    BY <1>1, <1>2, <2>9 DEF Ack, InvoiceWallet, End, Idle
  <2> QED
    BY <2>1, <2>2, <2>3, <2>4, <2>5, <2>6, <2>7, <2>8, <2>9
<1>5. \A u \in Slots : Current(run[u])'
  BY <1>4 DEF OneSession, Current
<1> QED
  BY <1>3, <1>5 DEF BooksInv

\* The session after a commit has nothing to lose.
LEMMA Written ==
  ASSUME OneSession, NEW s \in Slots, run'[s].pc \in {"idle", "recheck", "ack"},
         BalanceExplained', UsageIsInvoiced', NoWallet'
  PROVE  BooksInv'
  BY DEF OneSession, BooksInv, Current

LEMMA SwitchBooks ==
  ASSUME OneSession, BillingInv, BooksInv, NEW s \in Slots, Switch(s)
  PROVE  BooksInv'
<1> DEFINE r == run[s]
           new == [r.sub EXCEPT !.plan = r.arg,
                     !.status = IF @ \in {"TRIAL", "SUSPENDED"} THEN "ACTIVE" ELSE @]
<1>1. /\ r \in Session /\ HeldOK(r) /\ Current(r) /\ r.pc = "subscribe"
      /\ run'[s].pc = "idle" /\ r.sub = sub /\ sub.status # "NONE"
  BY BooksTypes DEF Switch, BillingInv, BooksInv, Current, End, Idle, Begun
<1>2. r.arg \in Plans /\ r.counted \in {0, 1}
  BY <1>1 DEF HeldOK, Session
<1>3. new \in SubRow /\ new.status # "NONE" /\ new.count = sub.count
  BY <1>1, <1>2, BooksTypes DEF SubRow, Status
<1>4. sub' = new
  <2>1. sub' = Flush(sub, r.sub, new)
    BY DEF Switch
  <2> HIDE DEF new
  <2> QED
    BY <1>1, <1>3, <2>1, BooksTypes, FlushCurrent
<1>5. UsageIsInvoiced' /\ NoWallet'
  <2> HIDE DEF new
  <2> QED
    BY <1>3, <1>4, BooksTypes DEF UsageIsInvoiced, NoWallet, Switch, paper
<1>6. BalanceExplained'
  <2>1. UNCHANGED <<credited, fees, spent>>
    BY DEF Switch
  <2>2. CASE r.counted = 1
    <3>1. balance' = balance + Minimum[Starter] /\ welcomes' = welcomes + 1
      BY <1>1, <2>2 DEF Switch, Current
    <3>2. (welcomes + 1) * Minimum[Starter] = welcomes * Minimum[Starter] + Minimum[Starter]
      <4>1. welcomes \in Int /\ Minimum[Starter] \in Int
        BY BooksTypes
      <4> QED
        BY <4>1, OneMore
    <3>3. balance' + spent + fees = SumOver(Paid, Refs) + welcomes' * Minimum[Starter]
      BY <3>1, <3>2, BooksTypes
    <3> QED
      BY <2>1, <3>3 DEF BalanceExplained, Paid
  <2>3. CASE r.counted = 0
    <3>1. balance' = balance /\ welcomes' = welcomes
      BY <2>3, BooksTypes DEF Switch
    <3> QED
      BY <2>1, <3>1 DEF BalanceExplained, BooksInv
  <2> QED
    BY <1>2, <2>2, <2>3
<1> QED
  BY <1>1, <1>5, <1>6, Written

LEMMA CreateTrialBooks ==
  ASSUME OneSession, BillingInv, BooksInv, NEW s \in Slots, CreateTrial(s)
  PROVE  BooksInv'
<1>1. run'[s].pc = "idle"
  BY BooksTypes DEF CreateTrial, End, Idle, Begun
<1>2. UNCHANGED <<credited, fees, spent, billed>>
  BY DEF CreateTrial, paper
<1>3. CASE UNCHANGED <<sub, balance, welcomes>>
  BY <1>1, <1>2, <1>3, ReadsKept, Written
<1>4. CASE sub.status = "NONE" /\ ~UNCHANGED <<sub, balance, welcomes>>
  <2> DEFINE p == run[s].arg
  <2>1. /\ sub' = [sub EXCEPT !.status = "TRIAL", !.plan = p, !.trialEnds = day + TrialDays]
        /\ balance' = Welcome(p) /\ welcomes' = IF Welcome(p) > 0 THEN 1 ELSE 0
    BY <1>4 DEF CreateTrial
  <2>2. sub'.status = "TRIAL" /\ sub'.count = sub.count
    BY <2>1, BooksTypes DEF SubRow
  <2>3. balance = 0 /\ welcomes = 0
    BY <1>4 DEF BooksInv, NoWallet
  <2>4. UsageIsInvoiced' /\ NoWallet'
    BY <1>2, <2>2, BooksTypes DEF UsageIsInvoiced, NoWallet
  <2>5. balance' = welcomes' * Minimum[Starter] /\ balance' \in Nat
    <3>1. CASE p = Starter /\ Minimum[Starter] > 0
      BY <2>1, <2>3, <3>1, BooksTypes DEF Welcome
    <3>2. CASE ~(p = Starter /\ Minimum[Starter] > 0)
      <4>1. Welcome(p) = 0
        BY <2>3, <3>2, BooksTypes DEF Welcome
      <4> QED
        BY <2>1, <4>1, BooksTypes
    <3> QED
      BY <3>1, <3>2
  <2>6. 0 * Minimum[Starter] = 0
    BY BooksTypes
  <2>7. balance' + spent + fees = SumOver(Paid, Refs) + welcomes' * Minimum[Starter]
    <3>1. spent + fees = SumOver(Paid, Refs)
      BY <2>3, <2>6, BooksTypes
    <3> HIDE DEF p
    <3> QED
      BY <2>5, <3>1, BooksTypes
  <2>8. BalanceExplained'
    BY <1>2, <2>7 DEF BalanceExplained, Paid
  <2> QED
    BY <1>1, <2>4, <2>8, Written
<1> QED
  BY <1>3, <1>4 DEF CreateTrial

LEMMA TopupBooks ==
  ASSUME OneSession, BillingInv, BooksInv, NEW s \in Slots, Topup(s)
  PROVE  BooksInv'
<1> DEFINE r == run[s]
           paid == TopupAmount[r.arg]
           new == [r.sub EXCEPT !.status = "ACTIVE", !.since = Nothing, !.graceEnds = Nothing]
<1>1. /\ HeldOK(r) /\ Current(r) /\ r.pc = "topup" /\ run'[s].pc = "idle"
  BY BooksTypes DEF Topup, BillingInv, BooksInv, End, Idle, Begun
<1>2. /\ r.sub = sub /\ r.balance = balance /\ sub.status # "NONE"
      /\ r.arg \in Refs /\ paid \in Nat
  BY <1>1, BillingAssumption DEF Current, HeldOK
<1>3. sub'.status # "NONE" /\ sub'.count = sub.count
  <2>1. new \in SubRow /\ new.status = "ACTIVE" /\ new.count = sub.count
    BY <1>2, BooksTypes DEF SubRow, Status, Date
  <2>2. sub' = sub \/ sub' = Flush(sub, r.sub, new)
    BY DEF Topup
  <2> HIDE DEF new
  <2> QED
    BY <1>2, <2>1, <2>2, BooksTypes, FlushCurrent
<1>4. /\ balance' = balance + paid /\ credited' = [credited EXCEPT ![r.arg] = @ + 1]
      /\ UNCHANGED <<welcomes, fees, spent, billed>>
  BY <1>2 DEF Topup, paper
<1>5. UsageIsInvoiced' /\ NoWallet'
  BY <1>3, <1>4, BooksTypes DEF UsageIsInvoiced, NoWallet
<1>6. SumOver(Paid', Refs) = SumOver(Paid, Refs) + paid
  <2>1. /\ credited[r.arg] \in Int /\ credited'[r.arg] = credited[r.arg] + 1
        /\ \A x \in Refs \ {r.arg} : credited'[x] = credited[x]
    BY <1>2, <1>4, BooksTypes
  <2>2. Paid[r.arg] = credited[r.arg] * paid /\ Paid'[r.arg] = (credited[r.arg] + 1) * paid
    BY <1>2, <2>1 DEF Paid
  <2>3. \A x \in Refs \ {r.arg} : Paid'[x] = Paid[x]
    BY <2>1 DEF Paid
  <2> HIDE DEF paid
  <2>4. Paid'[r.arg] = Paid[r.arg] + paid /\ Paid[r.arg] \in Int
    BY <1>2, <2>1, <2>2, BooksTypes, OneMore
  <2>5. \A x \in Refs : Paid[x] \in Int /\ Paid'[x] \in Int
    BY <1>2, <2>3, <2>4, BooksTypes
  <2>6. SumOver(Paid', Refs) = SumOver(Paid, Refs) + Paid'[r.arg] - Paid[r.arg]
    BY <1>2, <2>3, <2>5, BillingAssumption, SumChange
  <2> QED
    BY <1>2, <2>4, <2>6, BooksTypes
<1>7. BalanceExplained'
  <2> DEFINE gift == welcomes * Minimum[Starter]
  <2>1. gift \in Int
    BY BooksTypes
  <2>2. balance + spent + fees = SumOver(Paid, Refs) + gift
    BY BooksTypes
  <2> HIDE DEF gift, paid
  <2>3. balance + paid + spent + fees = SumOver(Paid, Refs) + paid + gift
    BY <1>2, <2>1, <2>2, BooksTypes
  <2>4. balance' + spent' + fees' = SumOver(Paid', Refs) + welcomes' * Minimum[Starter]
    BY <1>4, <1>6, <2>3 DEF gift
  <2> QED
    BY <2>4 DEF BalanceExplained, Paid
<1> QED
  BY <1>1, <1>5, <1>7, Written

LEMMA DeductBooks ==
  ASSUME OneSession, BillingInv, BooksInv, NEW s \in Slots, Deduct(s)
  PROVE  BooksInv'
<1> DEFINE r == run[s]
           new == [r.sub EXCEPT !.count = @ + 1]
<1>1. HeldOK(r) /\ Current(r) /\ r.pc = "deduct" /\ run'[s].pc = "recheck"
  BY BooksTypes DEF Deduct, BillingInv, BooksInv, Session
<1>2. r.sub = sub /\ r.balance = balance /\ sub.status # "NONE"
  BY <1>1 DEF Current
<1>3. sub' = [sub EXCEPT !.count = @ + 1]
  <2>1. new \in SubRow
    BY <1>2, BooksTypes DEF SubRow
  <2>2. sub' = Flush(sub, r.sub, new)
    BY DEF Deduct
  <2> HIDE DEF new
  <2>3. sub' = new
    BY <1>2, <2>1, <2>2, BooksTypes, FlushCurrent
  <2> QED
    BY <1>2, <2>3 DEF new
<1>4. sub'.status # "NONE" /\ sub'.count = sub.count + 1
  BY <1>2, <1>3, BooksTypes DEF SubRow
<1>5. /\ balance' = balance - Fee /\ spent' = spent + Fee
      /\ UNCHANGED <<credited, welcomes, fees, billed>>
  BY <1>2, BooksTypes DEF Deduct, FlushValue, paper
<1>6. NoWallet'
  BY <1>4 DEF NoWallet
<1>7. UsageIsInvoiced'
  <2>1. billed + sub.count \in Int /\ billed' + sub'.count = (billed + sub.count) + 1
    BY <1>4, <1>5, BooksTypes
  <2>2. Fee * (billed' + sub'.count) = Fee * (billed + sub.count) + Fee
    BY <2>1, BooksTypes, OneFeeMore
  <2>3. Fee * (billed + sub.count) \in Int
    BY <2>1, BooksTypes
  <2>4. spent' <= Fee * (billed' + sub'.count)
    <3> DEFINE total == Fee * (billed + sub.count)
    <3>1. total \in Int /\ spent <= total /\ Fee * (billed' + sub'.count) = total + Fee
      BY <2>2, <2>3, BooksTypes
    <3> HIDE DEF total
    <3> QED
      BY <1>5, <3>1, BooksTypes
  <2> QED
    BY <2>4 DEF UsageIsInvoiced
<1>8. BalanceExplained'
  <2>1. balance' + spent' + fees' = balance + spent + fees
    BY <1>5, BooksTypes
  <2> QED
    BY <1>5, <2>1 DEF BooksInv, BalanceExplained
<1> QED
  BY <1>1, <1>6, <1>7, <1>8, Written

LEMMA InvoicedBooks ==
  ASSUME OneSession, BillingInv, BooksInv, NEW s \in Slots, Invoiced(s)
  PROVE  BooksInv'
<1> DEFINE r == run[s]
           new == [r.sub EXCEPT !.count = 0]
           fee == MonthlyFee[r.sub.plan]
           charged == IF r.balance >= fee THEN fee ELSE 0
<1>1. HeldOK(r) /\ Current(r) /\ r.pc = "invoiced" /\ run'[s].pc = "idle"
  BY BooksTypes DEF Invoiced, BillingInv, BooksInv, End, Idle, Begun
<1>2. r.sub = sub /\ r.balance = balance /\ sub.status # "NONE"
  BY <1>1 DEF Current
<1>3. sub' = [sub EXCEPT !.count = 0]
  <2>1. new \in SubRow
    BY <1>2, BooksTypes DEF SubRow
  <2>2. sub' = Flush(sub, r.sub, new)
    BY DEF Invoiced
  <2> HIDE DEF new
  <2>3. sub' = new
    BY <1>2, <2>1, <2>2, BooksTypes, FlushCurrent
  <2> QED
    BY <1>2, <2>3 DEF new
<1>4. sub'.status # "NONE" /\ sub'.count = 0
  BY <1>2, <1>3, BooksTypes DEF SubRow
<1>5. charged \in Nat
  <2>1. fee \in Nat
    BY <1>2, BooksTypes, BillingAssumption DEF SubRow
  <2> HIDE DEF fee
  <2> QED
    BY <2>1
<1>6. /\ balance' = balance - charged /\ fees' = fees + charged
      /\ billed' = billed + sub.count /\ UNCHANGED <<credited, welcomes, spent>>
  <2>1. balance' = FlushValue(balance, r.balance, r.balance - charged) /\ fees' = fees + charged
        /\ billed' = billed + r.sub.count /\ UNCHANGED <<credited, welcomes, spent>>
    BY DEF Invoiced
  <2> HIDE DEF charged
  <2> QED
    BY <1>2, <1>5, <2>1, BooksTypes DEF FlushValue
<1> HIDE DEF charged
<1>7. UsageIsInvoiced' /\ NoWallet'
  <2>1. billed' + sub'.count = billed + sub.count
    BY <1>4, <1>6, BooksTypes
  <2> QED
    BY <1>4, <1>6, <2>1 DEF BooksInv, UsageIsInvoiced, NoWallet
<1>8. BalanceExplained'
  <2>1. balance' + spent' + fees' = balance + spent + fees
    BY <1>5, <1>6, BooksTypes
  <2> QED
    BY <1>6, <2>1 DEF BooksInv, BalanceExplained
<1> QED
  BY <1>1, <1>7, <1>8, Written

\* The steps that change the subscription only.
LEMMA StatusBooks ==
  ASSUME OneSession, BillingInv, BooksInv, NEW s \in Slots,
         Suspend(s) \/ Expire(s) \/ Enforce(s)
  PROVE  BooksInv'
<1>1. UNCHANGED <<balance, credited, welcomes, fees, spent, billed>>
  BY DEF Suspend, Expire, Enforce, wallet, paper
<1>2. run'[s].pc \in {"idle", "ack"}
  BY BooksTypes DEF Suspend, Expire, Enforce, End, Idle, Begun, Session
<1>3. sub'.status # "NONE" /\ sub'.count \in Int /\ sub'.count >= sub.count
  <2>1. CASE Suspend(s)
    <3> DEFINE r == run[s]
               new == [r.sub EXCEPT !.count = @ + r.counted]
    <3>1. r.sub = sub /\ r.counted \in {0, 1}
      BY <2>1, BooksTypes DEF Suspend, BooksInv, Current, Session
    <3>2. new \in SubRow /\ new.count \in Int /\ new.count >= sub.count
      BY <3>1, BooksTypes DEF SubRow
    <3>3. sub' = Suspended(Flush(sub, r.sub, new), day)
      BY <2>1 DEF Suspend
    <3> HIDE DEF new
    <3>4. sub' = Suspended(new, day)
      BY <3>1, <3>2, <3>3, BooksTypes, FlushCurrent
    <3> QED
      BY <3>2, <3>4 DEF Suspended, SubRow
  <2>2. CASE Expire(s)
    BY <2>2, BooksTypes DEF Expire, Suspended, SubRow
  <2>3. CASE Enforce(s)
    BY <2>3, BooksTypes DEF Enforce, SubRow
  <2> QED
    BY <2>1, <2>2, <2>3
<1>4. BalanceExplained' /\ NoWallet'
  BY <1>1, <1>3 DEF BooksInv, BalanceExplained, NoWallet
<1>5. UsageIsInvoiced'
  <2>1. billed + sub.count \in Int /\ billed + sub'.count \in Int
        /\ billed + sub.count <= billed + sub'.count
    BY <1>3, BooksTypes
  <2>2. \A f \in Nat, n, m \in Int : n <= m => f * n <= f * m /\ f * n \in Int /\ f * m \in Int
    OBVIOUS
  <2>3. Fee * (billed + sub.count) <= Fee * (billed + sub'.count)
        /\ Fee * (billed + sub.count) \in Int /\ Fee * (billed + sub'.count) \in Int
    BY <2>1, <2>2, BooksTypes
  <2>4. spent <= Fee * (billed + sub'.count)
    BY <2>3, BooksTypes
  <2> QED
    BY <1>1, <2>4 DEF UsageIsInvoiced
<1> QED
  BY <1>2, <1>4, <1>5, Written

LEMMA BooksInit == Init => BooksInv
<1> SUFFICES ASSUME Init PROVE BooksInv
  OBVIOUS
<1>1. BalanceExplained
  <2>1. \A r \in Refs : Paid[r] = 0
    BY BillingAssumption DEF Init, Paid
  <2>2. SumOver(Paid, Refs) = 0
    BY <2>1, BillingAssumption, SumZero
  <2>3. 0 * Minimum[Starter] = 0
    BY BillingAssumption
  <2> QED
    BY <2>2, <2>3 DEF Init, BalanceExplained, Paid
<1>2. UsageIsInvoiced
  BY BillingAssumption DEF Init, UsageIsInvoiced
<1>3. NoWallet /\ \A s \in Slots : Current(run[s])
  BY DEF Init, NoWallet, Current, Idle, Begun
<1> QED
  BY <1>1, <1>2, <1>3 DEF BooksInv

LEMMA BooksNext ==
  ASSUME OneSession, BillingInv, BooksInv, [Next]_vars
  PROVE  BooksInv'
<1>1. CASE Tick \/ ApiCrash \/ WorkerCrash \/ UNCHANGED vars
  <2>1. UNCHANGED <<sub, balance, credited, welcomes, fees, spent, billed>>
    BY <1>1 DEF Tick, ApiCrash, WorkerCrash, Crash, vars, wallet, paper
  <2>2. \A u \in Slots : run'[u] = Idle \/ run'[u] = run[u]
    BY <1>1 DEF Tick, ApiCrash, WorkerCrash, Crash, vars
  <2>3. \A u \in Slots : Current(run[u])'
    BY <2>1, <2>2 DEF BooksInv, Current, Idle, Begun
  <2> QED
    BY <2>1, <2>3, ReadsKept DEF BooksInv
<1> QED
  BY <1>1, ReadBooks, SwitchBooks, CreateTrialBooks, TopupBooks, DeductBooks, InvoicedBooks,
     StatusBooks DEF Next, Step

LEMMA BooksInvariant == ASSUME OneSession PROVE Spec => []BooksInv
<1>1. BillingInv /\ BooksInv /\ [Next]_vars => BooksInv'
  BY BooksNext
<1> QED
  BY <1>1, BooksInit, BillingInvariant, PTL DEF Spec

\* With one session at a time the balance is what the top-ups and the welcome credit of
\* verify_topup and subscribe brought in, less what deduct_usage and
\* generate_monthly_invoices took, through crashes between any two steps.
THEOREM BalanceAddsUp == ASSUME OneSession PROVE Spec => []BalanceExplained
<1>1. BooksInv => BalanceExplained
  BY DEF BooksInv
<1> QED
  BY <1>1, BooksInvariant, PTL

\* With one session at a time every usage fee deduct_usage took is on an invoice, or
\* counted in the row for the next one: no reset of the counter forgets a fee.
THEOREM FeesAreInvoiced == ASSUME OneSession PROVE Spec => []UsageIsInvoiced
<1>1. BooksInv => UsageIsInvoiced
  BY DEF BooksInv
<1> QED
  BY <1>1, BooksInvariant, PTL
=============================================================================
