------------------------ MODULE ReconciliationProofs ------------------------
(***************************************************************************)
(* Proofs about Reconciliation.  With any number of sessions: types.  With *)
(* one session at a time, and no match made before allocations were kept:  *)
(* what a session has read stays what the rows are (Current), and so every *)
(* commit keeps the books.                                                 *)
(***************************************************************************)
EXTENDS Reconciliation, SumsProofs

\* What a session is about and has read, by the step it is at.
Shaped(r) ==
  /\ r.pc \notin {"idle", "create"} => r.txn \in Txns /\ r.row \in TxnRow
  /\ r.pc \in {"undo", "undoPayer", "undone", "target", "overflow", "again"}
       => r.job = "match"
  /\ r.job \in {"match", "forced"} => r.txn \in Txns /\ r.ask \in Targets
  /\ r.pc = "pick" => r.to \in Payers /\ r.credit \in Int
  /\ r.pc \in {"apply", "overflow"} => r.to \in Obs /\ r.obRow \in ObRow
  /\ r.pc = "apply" /\ Amount[r.txn] > r.obRow.balance => r.credit \in Int
  /\ r.pc \in {"undoPayer", "undone"} => r.undo \in Allocation /\ r.obRow \in ObRow
  /\ r.pc = "undone" /\ r.undo.credited # 0 => r.credit \in Int
  /\ r.pc = "create" => r.to \in Obs /\ r.credit \in Int
  /\ r.pc = "create" <=> r.job = "create"

AllocTyped ==
  /\ IsFiniteSet(alloc)
  /\ \A a \in alloc : a \in Allocation /\ a.credited \in Nat

TypeInv ==
  /\ TypeOK
  /\ AllocTyped
  /\ \A s \in Slots : Shaped(run[s])

Same(read, row) ==
  /\ read.paid = row.paid /\ read.balance = row.balance
  /\ row.status \in {read.status, "VOIDED"}

\* What a session has read is what the rows are: T, O, C and A are the tables
\* txn, ob, credit and alloc, in this state or the next.  Only the status of an
\* obligation may have changed since, by cancel_obligation.
CurrentIn(r, T, O, C, A) ==
  /\ r.pc \in {"route", "pick", "unmatched", "apply", "overflow", "undo", "undoPayer", "undone"}
       => r.row = T[r.txn]
  /\ r.pc = "target" /\ r.row.status \notin Closed => r.row = T[r.txn]
  /\ r.pc \in {"route", "pick", "unmatched", "categorized", "target", "apply", "overflow"}
       => T[r.txn].status \notin Closed
  /\ r.pc = "undo" => T[r.txn].status \in Closed
  /\ r.pc \in {"undoPayer", "undone"} =>
       /\ T[r.txn].status = "MATCHED"
       /\ r.undo \in A /\ r.undo.txn = r.txn
       /\ Same(r.obRow, O[r.undo.ob])
  /\ r.pc \in {"apply", "overflow"} => Same(r.obRow, O[r.to]) /\ O[r.to].status # "ABSENT"
  /\ r.pc = "pick" => r.credit = C[r.to]
  /\ r.pc = "apply" /\ Amount[r.txn] > r.obRow.balance => r.credit = C[PayerOf[r.to]]
  /\ r.pc = "undone" /\ r.undo.credited # 0 => r.credit = C[r.undo.payer]
  /\ r.pc = "create" => O[r.to].status = "ABSENT" /\ r.credit = C[PayerOf[r.to]]

Current(r) == CurrentIn(r, txn, ob, credit, alloc)

\* Nothing was ever paid or allocated to an obligation that is not there.
AbsentIsEmpty ==
  /\ \A o \in Obs : ob[o].status = "ABSENT" => ob[o].paid = 0
  /\ \A a \in alloc : ob[a.ob].status # "ABSENT"

OneSession == \A s, u \in Slots : s = u
NoLegacy   == \A t \in Txns : Legacy[t] = Nothing

\* MatchIsAllocated and MoneyConserved where every match has its allocation; the
\* first for one transaction, of the tables T and A.
MatchAt(t, T, A) ==
  /\ (T[t].status = "CATEGORIZED") <=> T[t].cp
  /\ IF T[t].status = "MATCHED"
     THEN \E a \in A : /\ {b \in A : b.txn = t} = {a} /\ a.ob = T[t].ob
                       /\ a.applied >= 0 /\ a.credited >= 0
                       /\ a.applied + a.credited = Amount[t]
     ELSE {b \in A : b.txn = t} = {} /\ T[t].ob = Nothing

MatchRecorded == \A t \in Txns : MatchAt(t, txn, alloc)

Paid    == SumOver([o \in Obs |-> ob[o].paid], Obs)
Held    == SumOver(credit, Payers)
Brought == SumOver(Amount, {t \in Txns : txn[t].status = "MATCHED"})

MoneyKept == Paid + Held = Brought

SerialInv ==
  /\ TypeInv
  /\ MatchRecorded
  /\ BooksAgree
  /\ AbsentIsEmpty
  /\ MoneyKept
  /\ \A s \in Slots : Current(run[s])
-----------------------------------------------------------------------------
(* The operators of the model                                              *)

\* A commit of changed columns leaves a row of the same type.
LEMMA FlushTxn ==
  ASSUME NEW current \in TxnRow, NEW read \in TxnRow, NEW new \in TxnRow
  PROVE  /\ Flush(current, read, new) \in TxnRow
         /\ current = read => Flush(current, read, new) = new
<1>1. DOMAIN current = {"status", "ob", "cp"}
  BY DEF TxnRow
<1> DEFINE row == Flush(current, read, new)
<1>2. row = [f \in {"status", "ob", "cp"} |-> IF new[f] = read[f] THEN current[f] ELSE new[f]]
  BY <1>1 DEF Flush
<1>3. /\ row.status = IF new.status = read.status THEN current.status ELSE new.status
      /\ row.ob = IF new.ob = read.ob THEN current.ob ELSE new.ob
      /\ row.cp = IF new.cp = read.cp THEN current.cp ELSE new.cp
  BY <1>2
<1>4. row = [status |-> row.status, ob |-> row.ob, cp |-> row.cp]
  BY <1>2
<1>5. row \in TxnRow
  <2> HIDE DEF row
  <2> QED
    BY <1>3, <1>4 DEF TxnRow
<1>6. new = [status |-> new.status, ob |-> new.ob, cp |-> new.cp]
  BY DEF TxnRow
<1>7. ASSUME current = read PROVE row = new
  <2> HIDE DEF row
  <2>1. row.status = new.status /\ row.ob = new.ob /\ row.cp = new.cp
    BY <1>3, <1>7
  <2> QED
    BY <1>4, <1>6, <2>1
<1> QED
  BY <1>5, <1>7

LEMMA FlushOb ==
  ASSUME NEW current \in ObRow, NEW read \in ObRow, NEW new \in ObRow
  PROVE  /\ Flush(current, read, new) \in ObRow
         /\ Flush(current, read, new).status
              = IF new.status = read.status THEN current.status ELSE new.status
         /\ Flush(current, read, new).paid = IF new.paid = read.paid THEN current.paid ELSE new.paid
         /\ Flush(current, read, new).balance
              = IF new.balance = read.balance THEN current.balance ELSE new.balance
<1>1. DOMAIN current = {"status", "paid", "balance"}
  BY DEF ObRow
<1> DEFINE row == Flush(current, read, new)
<1>2. row = [f \in {"status", "paid", "balance"} |->
               IF new[f] = read[f] THEN current[f] ELSE new[f]]
  BY <1>1 DEF Flush
<1>3. /\ row.status = IF new.status = read.status THEN current.status ELSE new.status
      /\ row.paid = IF new.paid = read.paid THEN current.paid ELSE new.paid
      /\ row.balance = IF new.balance = read.balance THEN current.balance ELSE new.balance
  BY <1>2
<1>4. row = [status |-> row.status, paid |-> row.paid, balance |-> row.balance]
  BY <1>2
<1>5. row \in ObRow
  <2> HIDE DEF row
  <2> QED
    BY <1>3, <1>4 DEF ObRow
<1> QED
  BY <1>3, <1>5

\* There is a primary key no allocation has.
LEMMA FreshIdIsFree ==
  ASSUME IsFiniteSet(alloc)
  PROVE  FreshId \in Nat /\ \A a \in alloc : a.id # FreshId
<1> DEFINE n   == Cardinality(alloc)
           Ids == 1..(n + 1)
<1>1. n \in Nat
  BY FS_CardinalityType
<1>2. IsFiniteSet(Ids) /\ Cardinality(Ids) = n + 1
  <2> HIDE DEF n
  <2>1. 1 \in Int /\ n + 1 \in Int /\ ~(1 > n + 1)
    BY <1>1
  <2> QED
    BY <1>1, <2>1, FS_Interval
<1>3. ASSUME \A i \in Ids : \E a \in alloc : a.id = i PROVE FALSE
  <2> DEFINE f == [i \in Ids |-> CHOOSE a \in alloc : a.id = i]
  <2>1. \A i \in Ids : f[i] \in alloc /\ f[i].id = i
    BY <1>3
  <2>2. f \in [Ids -> alloc]
    BY <2>1
  <2>3. Cardinality(alloc) < Cardinality(Ids)
    BY <1>1, <1>2
  <2> HIDE DEF Ids, f
  <2>4. \E i, j \in Ids : i # j /\ f[i] = f[j]
    BY <1>2, <2>2, <2>3, FS_PigeonHole
  <2> QED
    BY <2>1, <2>4
<1>4. \E i \in Ids : \A a \in alloc : a.id # i
  BY <1>3
<1>5. FreshId \in Ids /\ \A a \in alloc : a.id # FreshId
  BY <1>4 DEF FreshId
<1> QED
  BY <1>1, <1>5

\* Of some obligations one is the oldest.
LEMMA OldestIsOne ==
  ASSUME NEW S \in SUBSET Obs, S # {}
  PROVE  Oldest(S) \in S
<1> USE ReconciliationAssumption
<1> DEFINE Older(o) == {u \in Obs : Rank[u] <= Rank[o]}
           F        == {Older(o) : o \in S}
<1>1. F \subseteq SUBSET Obs
  OBVIOUS
<1>2. F # {} /\ IsFiniteSet(Obs)
  <2>1. PICK o \in S : TRUE
    OBVIOUS
  <2>2. Older(o) \in F
    <3> HIDE DEF Older
    <3> QED
      OBVIOUS
  <2> QED
    BY <2>2
<1>3. PICK T \in F : \A U \in SUBSET T : U # T => U \notin F
  <2> HIDE DEF F
  <2> QED
    BY <1>1, <1>2, SmallestSubset
<1>4. PICK o \in S : T = Older(o)
  BY <1>3
<1>5. ASSUME NEW u \in S, ~(Rank[o] <= Rank[u]) PROVE FALSE
  <2>1. Rank[u] \in Nat /\ Rank[o] \in Nat /\ Rank[u] < Rank[o]
    BY <1>5
  <2>2. Older(u) \subseteq T /\ o \notin Older(u) /\ o \in T
    BY <1>4, <2>1
  <2>3. Older(u) \in F
    <3> HIDE DEF Older
    <3> QED
      OBVIOUS
  <2> HIDE DEF F, Older
  <2> QED
    BY <1>3, <2>2, <2>3
<1> QED
  BY <1>5 DEF Oldest

\* The obligation picked is an open one of the payer's.
LEMMA BestIsOpen ==
  ASSUME NEW p, NEW n, OpenOf(p) # {}
  PROVE  Best(p, n) \in OpenOf(p)
<1> DEFINE exact == {o \in OpenOf(p) : ob[o].status = "PENDING" /\ ob[o].balance = n}
           fits  == {o \in OpenOf(p) : ob[o].balance >= n}
<1>1. OpenOf(p) \subseteq Obs /\ exact \subseteq OpenOf(p) /\ fits \subseteq OpenOf(p)
  BY DEF OpenOf
<1>2. Best(p, n) = IF exact # {} THEN Oldest(exact)
                   ELSE IF fits # {} THEN Oldest(fits) ELSE Oldest(OpenOf(p))
  BY DEF Best
<1> HIDE DEF exact, fits
<1>3. exact # {} => Oldest(exact) \in exact
  BY <1>1, OldestIsOne
<1>4. fits # {} => Oldest(fits) \in fits
  BY <1>1, OldestIsOne
<1>5. Oldest(OpenOf(p)) \in OpenOf(p)
  BY <1>1, OldestIsOne
<1> QED
  BY <1>1, <1>2, <1>3, <1>4, <1>5

\* The rows an obligation gets are rows.
LEMMA AfterType ==
  ASSUME NEW o \in Obs, NEW row \in ObRow, NEW n \in Int
  PROVE  AfterPayment(o, row, n) \in ObRow /\ AfterUndo(o, row, n) \in ObRow
         /\ NewRow(o) \in ObRow
<1>1. Due[o] \in Int /\ row.paid \in Int /\ row.balance \in Int
  BY ReconciliationAssumption DEF ObRow
<1> QED
  BY <1>1 DEF AfterPayment, AfterUndo, NewRow, ObRow, Open

-----------------------------------------------------------------------------
(* Types, for any number of sessions                                       *)

\* A session that goes on as x leaves the others what they are.
LEMMA SessionStep ==
  ASSUME TypeInv, NEW s \in Slots, NEW x \in Session, Shaped(x),
         run' = [run EXCEPT ![s] = x]
  PROVE  /\ run' \in [Slots -> Session]
         /\ \A u \in Slots : Shaped(run'[u])
  BY DEF TypeInv, TypeOK

\* A session that only goes to another step.
LEMMA GotoStep ==
  ASSUME TypeInv, NEW s \in Slots, NEW x, x = [run[s] EXCEPT !.pc = x.pc],
         x \in Session, Shaped(x), Goto(s, x.pc)
  PROVE  /\ run' \in [Slots -> Session]
         /\ \A u \in Slots : Shaped(run'[u])
<1>1. run' = [run EXCEPT ![s] = x]
  BY DEF Goto, TypeInv, TypeOK
<1> QED
  BY <1>1, SessionStep

\* What a session is, and that its step is one.
LEMMA SessionType ==
  ASSUME TypeInv, NEW s \in Slots
  PROVE  run[s] \in Session /\ Shaped(run[s])
  BY DEF TypeInv, TypeOK

LEMMA IdleType == Idle \in Session /\ Shaped(Idle)
  BY DEF Idle, Session, Shaped

LEMMA TypeInit == Init => TypeInv
<1> SUFFICES ASSUME Init PROVE TypeInv
  OBVIOUS
<1> USE ReconciliationAssumption
<1>1. txn \in [Txns -> TxnRow]
  BY DEF Init, TxnRow, Closed
<1>2. ob \in [Obs -> ObRow]
  <2> SUFFICES ASSUME NEW o \in Obs PROVE ob[o] \in ObRow
    BY DEF Init
  <2>1. CASE o \notin Existing
    BY <2>1 DEF Init, ObRow
  <2>2. CASE o \in Existing /\ \E t \in Txns : Legacy[t] = o
    <3> DEFINE t == CHOOSE t \in Txns : Legacy[t] = o
    <3>1. t \in Txns
      BY <2>2
    <3>2. ob[o] = AfterPayment(o, NewRow(o), Amount[t])
      BY <2>2 DEF Init
    <3>3. NewRow(o) \in ObRow
      BY DEF NewRow, ObRow, Open
    <3>4. Amount[t] \in Int
      BY <3>1
    <3> HIDE DEF t
    <3> QED
      BY <3>2, <3>3, <3>4, AfterType
  <2>3. CASE o \in Existing /\ ~ \E t \in Txns : Legacy[t] = o
    BY <2>3 DEF Init, NewRow, ObRow, Open
  <2> QED
    BY <2>1, <2>2, <2>3
<1>3. run \in [Slots -> Session] /\ \A s \in Slots : Shaped(run[s])
  BY IdleType DEF Init
<1>4. AllocTyped
  BY FS_EmptySet DEF Init, AllocTyped
<1>5. credit \in [Payers -> Int] /\ pending \in [Txns -> Nat] /\ asked \subseteq Txns \X Targets
  BY DEF Init
<1> QED
  BY <1>1, <1>2, <1>3, <1>4, <1>5 DEF TypeInv, TypeOK, Init, AllocTyped

LEMMA ReconcileType ==
  ASSUME TypeInv, NEW s \in Slots, NEW t \in Txns, Reconcile(s, t)
  PROVE  TypeInv'
<1> DEFINE x == [Idle EXCEPT !.job = "reconcile", !.txn = t, !.row = txn[t],
                   !.pc = IF txn[t].status \in Closed THEN "done" ELSE "route"]
<1>1. x \in Session /\ Shaped(x)
  BY DEF TypeInv, TypeOK, Idle, Session, Shaped
<1>2. run' = [run EXCEPT ![s] = x]
  BY DEF Reconcile
<1> HIDE DEF x
<1>3. run' \in [Slots -> Session] /\ \A u \in Slots : Shaped(run'[u])
  BY <1>1, <1>2, SessionStep
<1>4. pending[t] \in Nat /\ pending[t] - 1 \in Nat
  BY DEF Reconcile, TypeInv, TypeOK
<1> QED
  BY <1>3, <1>4 DEF TypeInv, TypeOK, AllocTyped, Reconcile, db

LEMMA MatchType ==
  ASSUME TypeInv, NEW s \in Slots, NEW t \in Txns, NEW to \in Targets, Match(s, t, to)
  PROVE  TypeInv'
<1> DEFINE x == [Idle EXCEPT !.job = "match", !.txn = t, !.row = txn[t], !.ask = to,
                   !.pc = IF txn[t].status \in Closed THEN "undo" ELSE "target"]
<1>1. x \in Session /\ Shaped(x)
  BY DEF TypeInv, TypeOK, Idle, Session, Shaped
<1>2. run' = [run EXCEPT ![s] = x]
  BY DEF Match
<1> HIDE DEF x
<1>3. run' \in [Slots -> Session] /\ \A u \in Slots : Shaped(run'[u])
  BY <1>1, <1>2, SessionStep
<1> QED
  BY <1>3 DEF TypeInv, TypeOK, AllocTyped, Match, db

LEMMA CreateType ==
  ASSUME TypeInv, NEW s \in Slots, NEW o \in Obs, Create(s, o)
  PROVE  TypeInv'
<1> DEFINE x == [Idle EXCEPT !.job = "create", !.pc = "create", !.to = o,
                             !.credit = credit[PayerOf[o]]]
<1>1. x \in Session /\ Shaped(x)
  BY ReconciliationAssumption DEF TypeInv, TypeOK, Idle, Session, Shaped
<1>2. run' = [run EXCEPT ![s] = x]
  BY DEF Create
<1> HIDE DEF x
<1>3. run' \in [Slots -> Session] /\ \A u \in Slots : Shaped(run'[u])
  BY <1>1, <1>2, SessionStep
<1> QED
  BY <1>3 DEF TypeInv, TypeOK, AllocTyped, Create, db, bus

LEMMA RouteType ==
  ASSUME TypeInv, NEW s \in Slots, Route(s)
  PROVE  TypeInv'
<1>1. PICK dest \in RoutesTo[run[s].txn] :
        run' = [run EXCEPT ![s] =
                  IF dest = "cp" THEN [@ EXCEPT !.pc = "categorized"]
                  ELSE IF dest = "nobody" THEN [@ EXCEPT !.pc = "unmatched"]
                  ELSE [@ EXCEPT !.pc = "pick", !.to = dest, !.credit = credit[dest]]]
  BY DEF Route
<1> DEFINE r == run[s]
           x == IF dest = "cp" THEN [r EXCEPT !.pc = "categorized"]
                ELSE IF dest = "nobody" THEN [r EXCEPT !.pc = "unmatched"]
                ELSE [r EXCEPT !.pc = "pick", !.to = dest, !.credit = credit[dest]]
<1>2. r \in Session /\ Shaped(r) /\ r.pc = "route"
  BY SessionType DEF Route
<1>3. dest \in Payers \cup {"cp", "nobody"}
  BY <1>1, <1>2, ReconciliationAssumption DEF Shaped
<1>4. dest \in Payers => credit[dest] \in Int
  BY DEF TypeInv, TypeOK
<1>5. run' = [run EXCEPT ![s] = x]
  BY <1>1
<1>6. x \in Session /\ Shaped(x)
  <2> HIDE DEF r
  <2> QED
    BY <1>2, <1>3, <1>4 DEF Session, Shaped
<1> HIDE DEF x
<1>7. run' \in [Slots -> Session] /\ \A u \in Slots : Shaped(run'[u])
  BY <1>5, <1>6, SessionStep
<1> QED
  BY <1>7 DEF TypeInv, TypeOK, AllocTyped, Route, db, bus

LEMMA PickType ==
  ASSUME TypeInv, NEW s \in Slots, Pick(s)
  PROVE  TypeInv'
<1> DEFINE r == run[s]
           p == r.to
           o == Best(p, Amount[r.txn])
           x == IF OpenOf(p) = {} THEN [r EXCEPT !.pc = "unmatched"]
                ELSE [r EXCEPT !.pc = "apply", !.to = o, !.obRow = ob[o]]
<1>1. r \in Session /\ Shaped(r) /\ r.pc = "pick"
  BY SessionType DEF Pick
<1>2. OpenOf(p) # {} => o \in Obs /\ ob[o] \in ObRow
  BY BestIsOpen DEF OpenOf, TypeInv, TypeOK
<1>3. run' = [run EXCEPT ![s] = x]
  BY DEF Pick
<1>4. x \in Session /\ Shaped(x)
  <2> HIDE DEF r, p, o
  <2> QED
    BY <1>1, <1>2 DEF Session, Shaped
<1> HIDE DEF x
<1>5. run' \in [Slots -> Session] /\ \A u \in Slots : Shaped(run'[u])
  BY <1>3, <1>4, SessionStep
<1> QED
  BY <1>5 DEF TypeInv, TypeOK, AllocTyped, Pick, db, bus

LEMMA UnmatchedType ==
  ASSUME TypeInv, NEW s \in Slots, Unmatched(s)
  PROVE  TypeInv'
<1> DEFINE r == run[s]
           x == [r EXCEPT !.pc = "done"]
<1>1. r \in Session /\ Shaped(r) /\ r.pc = "unmatched"
  BY SessionType DEF Unmatched
<1>2. r.txn \in Txns /\ r.row \in TxnRow /\ txn[r.txn] \in TxnRow
  BY <1>1 DEF Shaped, TypeInv, TypeOK
<1>3. [r.row EXCEPT !.status = "UNMATCHED"] \in TxnRow
  BY <1>2 DEF TxnRow
<1>4. Flush(txn[r.txn], r.row, [r.row EXCEPT !.status = "UNMATCHED"]) \in TxnRow
  BY <1>2, <1>3, FlushTxn
<1>5. txn' \in [Txns -> TxnRow]
  BY <1>2, <1>4 DEF Unmatched, TypeInv, TypeOK
<1>6. x \in Session /\ Shaped(x)
  BY <1>1 DEF Session, Shaped
<1>7. run' = [run EXCEPT ![s] = x]
  BY DEF Unmatched, Goto, TypeInv, TypeOK
<1> HIDE DEF x
<1>8. run' \in [Slots -> Session] /\ \A u \in Slots : Shaped(run'[u])
  BY <1>6, <1>7, SessionStep
<1> QED
  BY <1>5, <1>8 DEF TypeInv, TypeOK, AllocTyped, Unmatched, bus

\* What follows a commit is another step of the session.
LEMMA CommittedType ==
  ASSUME TypeInv, NEW s \in Slots, run[s].pc \in {"apply", "categorized"}, Committed(s)
  PROVE  run' \in [Slots -> Session] /\ \A u \in Slots : Shaped(run'[u])
<1> DEFINE r == run[s]
           x == [r EXCEPT !.pc = IF r.job = "match" THEN "again" ELSE "done"]
<1>1. r \in Session /\ Shaped(r)
  BY SessionType
<1>2. x \in Session /\ Shaped(x)
  BY <1>1 DEF Session, Shaped
<1>3. run' = [run EXCEPT ![s] = x]
  BY DEF Committed, Goto, TypeInv, TypeOK
<1> HIDE DEF x
<1> QED
  BY <1>2, <1>3, SessionStep

LEMMA ApplyType ==
  ASSUME TypeInv, NEW s \in Slots, Apply(s)
  PROVE  TypeInv'
<1> USE ReconciliationAssumption
<1> DEFINE r == run[s]
           o == r.to
           overflow == IF Amount[r.txn] > r.obRow.balance
                       THEN Amount[r.txn] - r.obRow.balance ELSE 0
           applied == Amount[r.txn] - overflow
           new == [id |-> FreshId, txn |-> r.txn, ob |-> o, payer |-> PayerOf[o],
                   applied |-> applied, credited |-> overflow]
           matched == [r.row EXCEPT !.status = "MATCHED", !.ob = o]
<1>1. r \in Session /\ Shaped(r) /\ r.pc = "apply"
  BY SessionType DEF Apply
<1>2. /\ r.txn \in Txns /\ r.row \in TxnRow /\ txn[r.txn] \in TxnRow
      /\ o \in Obs /\ r.obRow \in ObRow /\ ob[o] \in ObRow
  BY <1>1 DEF Shaped, TypeInv, TypeOK
<1>3. Amount[r.txn] \in Nat /\ r.obRow.balance \in Int
  BY <1>2 DEF ObRow
<1>4. overflow \in Nat /\ applied \in Int
  BY <1>3
<1>5. overflow # 0 => r.credit \in Int
  BY <1>1, <1>3 DEF Shaped
<1>6. matched \in TxnRow
  BY <1>2 DEF TxnRow, Closed
<1>7. txn' = [txn EXCEPT ![r.txn] = Flush(@, r.row, matched)]
  BY DEF Apply
<1>8. ob' = [ob EXCEPT ![o] = Flush(@, r.obRow, AfterPayment(o, r.obRow, applied))]
  BY DEF Apply
<1>9. credit' = IF overflow = 0 THEN credit
                ELSE [credit EXCEPT ![PayerOf[o]] = r.credit + overflow]
  BY DEF Apply
<1>10. alloc' = alloc \cup {new}
  BY DEF Apply
<1>11. run' \in [Slots -> Session] /\ \A u \in Slots : Shaped(run'[u])
  BY <1>1, CommittedType DEF Apply
<1>12. UNCHANGED bus
  BY DEF Apply
<1>13. FreshId \in Nat
  BY FreshIdIsFree DEF TypeInv, AllocTyped
<1> HIDE DEF r, o, overflow, applied, matched
<1>14. Flush(txn[r.txn], r.row, matched) \in TxnRow
  BY <1>2, <1>6, FlushTxn
<1>15. txn' \in [Txns -> TxnRow]
  BY <1>2, <1>7, <1>14 DEF TypeInv, TypeOK
<1>16. Flush(ob[o], r.obRow, AfterPayment(o, r.obRow, applied)) \in ObRow
  BY <1>2, <1>4, AfterType, FlushOb
<1>17. ob' \in [Obs -> ObRow]
  BY <1>2, <1>8, <1>16 DEF TypeInv, TypeOK
<1>18. credit' \in [Payers -> Int]
  BY <1>2, <1>4, <1>5, <1>9 DEF TypeInv, TypeOK
<1>19. new \in Allocation /\ new.credited \in Nat
  BY <1>2, <1>4, <1>13 DEF Allocation
<1> HIDE DEF new
<1>20. IsFiniteSet(alloc') /\ \A a \in alloc' : a \in Allocation /\ a.credited \in Nat
  BY <1>10, <1>19, FS_AddElement DEF TypeInv, AllocTyped
<1> QED
  BY <1>11, <1>12, <1>15, <1>17, <1>18, <1>20 DEF TypeInv, TypeOK, AllocTyped, bus

LEMMA CategorizedType ==
  ASSUME TypeInv, NEW s \in Slots, Categorized(s)
  PROVE  TypeInv'
<1> DEFINE r == run[s]
<1>1. r \in Session /\ Shaped(r) /\ r.pc = "categorized"
  BY SessionType DEF Categorized
<1>2. run' \in [Slots -> Session] /\ \A u \in Slots : Shaped(run'[u])
  BY <1>1, CommittedType DEF Categorized
<1>3. r.txn \in Txns /\ txn[r.txn] \in TxnRow
  BY <1>1 DEF Shaped, TypeInv, TypeOK
<1>4. [txn[r.txn] EXCEPT !.status = "CATEGORIZED", !.cp = TRUE] \in TxnRow
  BY <1>3 DEF TxnRow, Closed
<1>5. txn' = [txn EXCEPT ![r.txn] = [txn[r.txn] EXCEPT !.status = "CATEGORIZED", !.cp = TRUE]]
  BY <1>3 DEF Categorized, TypeInv, TypeOK
<1>6. txn' \in [Txns -> TxnRow]
  BY <1>3, <1>4, <1>5 DEF TypeInv, TypeOK
<1> QED
  BY <1>2, <1>6 DEF TypeInv, TypeOK, AllocTyped, Categorized, bus

LEMMA UndoType ==
  ASSUME TypeInv, NEW s \in Slots, Undo(s)
  PROVE  TypeInv'
<1> DEFINE r == run[s]
<1>1. r \in Session /\ Shaped(r) /\ r.pc = "undo"
  BY SessionType DEF Undo
<1>2. r.txn \in Txns /\ r.row \in TxnRow /\ txn[r.txn] \in TxnRow
  BY <1>1 DEF Shaped, TypeInv, TypeOK
<1>3. UNCHANGED <<ob, credit, alloc, bus>>
  BY DEF Undo
<1>4. ASSUME UNCHANGED txn,
             NEW a \in {x \in alloc : x.txn = r.txn},
             run' = [run EXCEPT ![s].undo = a, ![s].obRow = ob[a.ob],
                                ![s].pc = IF a.credited > 0 THEN "undoPayer" ELSE "undone"]
      PROVE  TypeInv'
  <2> DEFINE pc == IF a.credited > 0 THEN "undoPayer" ELSE "undone"
             row == ob[a.ob]
             x  == [r EXCEPT !.undo = a, !.obRow = row, !.pc = pc]
  <2>1. a \in Allocation /\ a.credited \in Nat
    BY DEF TypeInv, AllocTyped
  <2>2. row \in ObRow
    BY <2>1 DEF TypeInv, TypeOK, Allocation
  <2>3. x \in Session /\ Shaped(x)
    <3>4. pc \in {"undoPayer", "undone"}
      OBVIOUS
    <3> HIDE DEF r, pc, row
    <3>1. x \in Session
      BY <1>1, <2>1, <2>2, <3>4 DEF Session
    <3> USE DEF pc, row
    <3>2. /\ x.pc \in {"undoPayer", "undone"} /\ x.job = r.job /\ x.txn = r.txn /\ x.row = r.row
          /\ x.ask = r.ask /\ x.undo = a /\ x.obRow = ob[a.ob]
          /\ x.pc = "undone" => a.credited = 0
      BY <1>1, <2>1 DEF Session
    <3> HIDE DEF x
    <3>3. Shaped(x)
      BY <1>1, <2>1, <2>2, <3>2 DEF Shaped
    <3> QED
      BY <3>1, <3>3
  <2>4. run' = [run EXCEPT ![s] = x]
    BY <1>4, <1>1 DEF TypeInv, TypeOK
  <2> HIDE DEF x
  <2>5. run' \in [Slots -> Session] /\ \A u \in Slots : Shaped(run'[u])
    BY <2>3, <2>4, SessionStep
  <2> QED
    BY <1>3, <1>4, <2>5 DEF TypeInv, TypeOK, AllocTyped, bus
<1>5. ASSUME NEW new \in TxnRow, txn' = [txn EXCEPT ![r.txn] = Flush(@, r.row, new)],
             Goto(s, "target")
      PROVE  TypeInv'
  <2> DEFINE x == [r EXCEPT !.pc = "target"]
  <2>1. x \in Session /\ Shaped(x)
    BY <1>1 DEF Session, Shaped
  <2>2. run' = [run EXCEPT ![s] = x]
    BY <1>5 DEF Goto, TypeInv, TypeOK
  <2> HIDE DEF x
  <2>3. run' \in [Slots -> Session] /\ \A u \in Slots : Shaped(run'[u])
    BY <2>1, <2>2, SessionStep
  <2>4. Flush(txn[r.txn], r.row, new) \in TxnRow
    BY <1>2, FlushTxn
  <2>5. txn' \in [Txns -> TxnRow]
    BY <1>2, <1>5, <2>4 DEF TypeInv, TypeOK
  <2> QED
    BY <1>3, <2>3, <2>5 DEF TypeInv, TypeOK, AllocTyped, bus
<1>6. /\ [r.row EXCEPT !.ob = Nothing, !.status = "UNMATCHED"] \in TxnRow
      /\ [r.row EXCEPT !.cp = FALSE, !.status = "UNMATCHED"] \in TxnRow
  BY <1>2 DEF TxnRow
<1> QED
  BY <1>4, <1>5, <1>6 DEF Undo

LEMMA UndoPayerType ==
  ASSUME TypeInv, NEW s \in Slots, UndoPayer(s)
  PROVE  TypeInv'
<1> DEFINE r == run[s]
           x == [r EXCEPT !.credit = credit[r.undo.payer], !.pc = "undone"]
<1>1. r \in Session /\ Shaped(r) /\ r.pc = "undoPayer"
  BY SessionType DEF UndoPayer
<1>2. credit[r.undo.payer] \in Int
  BY <1>1 DEF Shaped, Allocation, TypeInv, TypeOK
<1>3. x \in Session /\ Shaped(x)
  <2> HIDE DEF r
  <2> QED
    BY <1>1, <1>2 DEF Session, Shaped
<1>4. run' = [run EXCEPT ![s] = x]
  BY DEF UndoPayer, TypeInv, TypeOK
<1> HIDE DEF x
<1>5. run' \in [Slots -> Session] /\ \A u \in Slots : Shaped(run'[u])
  BY <1>3, <1>4, SessionStep
<1> QED
  BY <1>5 DEF TypeInv, TypeOK, AllocTyped, UndoPayer, db, bus

LEMMA UndoneType ==
  ASSUME TypeInv, NEW s \in Slots, Undone(s)
  PROVE  TypeInv'
<1> DEFINE r == run[s]
           a == r.undo
           x == [r EXCEPT !.pc = "target"]
           freed == [r.row EXCEPT !.ob = Nothing, !.status = "UNMATCHED"]
<1>1. r \in Session /\ Shaped(r) /\ r.pc = "undone"
  BY SessionType DEF Undone
<1>2. /\ r.txn \in Txns /\ r.row \in TxnRow /\ txn[r.txn] \in TxnRow
      /\ a \in Allocation /\ r.obRow \in ObRow
  BY <1>1 DEF Shaped, TypeInv, TypeOK
<1>3. a.ob \in Obs /\ ob[a.ob] \in ObRow /\ a.applied \in Int /\ a.credited \in Int
      /\ a.payer \in Payers
  BY <1>2 DEF Allocation, TypeInv, TypeOK
<1>4. a.credited # 0 => r.credit \in Int
  BY <1>1 DEF Shaped
<1>5. freed \in TxnRow
  BY <1>2 DEF TxnRow
<1>6. txn' = [txn EXCEPT ![r.txn] = Flush(@, r.row, freed)]
  BY DEF Undone
<1>7. ob' = [ob EXCEPT ![a.ob] = Flush(@, r.obRow, AfterUndo(a.ob, r.obRow, a.applied))]
  BY DEF Undone
<1>8. credit' = IF a.credited = 0 THEN credit
                ELSE [credit EXCEPT ![a.payer] = r.credit - a.credited]
  BY DEF Undone
<1>9. alloc' = alloc \ {a}
  BY DEF Undone
<1>10. UNCHANGED bus
  BY DEF Undone
<1>11. run' = [run EXCEPT ![s] = x]
  BY DEF Undone, Goto, TypeInv, TypeOK
<1>12. x \in Session /\ Shaped(x)
  BY <1>1 DEF Session, Shaped
<1> HIDE DEF x
<1>13. run' \in [Slots -> Session] /\ \A u \in Slots : Shaped(run'[u])
  BY <1>11, <1>12, SessionStep
<1> HIDE DEF r, a, freed
<1>14. Flush(txn[r.txn], r.row, freed) \in TxnRow
  BY <1>2, <1>5, FlushTxn
<1>15. txn' \in [Txns -> TxnRow]
  BY <1>2, <1>6, <1>14 DEF TypeInv, TypeOK
<1>16. Flush(ob[a.ob], r.obRow, AfterUndo(a.ob, r.obRow, a.applied)) \in ObRow
  BY <1>2, <1>3, AfterType, FlushOb
<1>17. ob' \in [Obs -> ObRow]
  BY <1>3, <1>7, <1>16 DEF TypeInv, TypeOK
<1>18. credit' \in [Payers -> Int]
  BY <1>3, <1>4, <1>8 DEF TypeInv, TypeOK
<1>19. IsFiniteSet(alloc') /\ \A b \in alloc' : b \in Allocation /\ b.credited \in Nat
  BY <1>9, FS_RemoveElement DEF TypeInv, AllocTyped
<1> QED
  BY <1>10, <1>13, <1>15, <1>17, <1>18, <1>19 DEF TypeInv, TypeOK, AllocTyped, bus

LEMMA TargetType ==
  ASSUME TypeInv, NEW s \in Slots, Target(s)
  PROVE  TypeInv'
<1> DEFINE r == run[s]
<1>1. r \in Session /\ Shaped(r) /\ r.pc = "target"
  BY SessionType DEF Target
<1>2. r.txn \in Txns /\ txn[r.txn] \in TxnRow
  BY <1>1 DEF Shaped, TypeInv, TypeOK
<1>3. \E x \in Session : Shaped(x) /\ run' = [run EXCEPT ![s] = x]
  <2>1. ASSUME NEW pc \in {"categorized", "again", "done"}, Goto(s, pc)
        PROVE  \E x \in Session : Shaped(x) /\ run' = [run EXCEPT ![s] = x]
    <3> DEFINE x == [r EXCEPT !.pc = pc]
    <3>1. x \in Session /\ Shaped(x)
      BY <1>1 DEF Session, Shaped
    <3>2. run' = [run EXCEPT ![s] = x]
      BY <2>1 DEF Goto, TypeInv, TypeOK
    <3> QED
      BY <3>1, <3>2
  <2>2. ASSUME r.ask \in Obs,
               run' = [run EXCEPT
                         ![s].row = IF r.row.status \in Closed THEN txn[r.txn] ELSE @,
                         ![s].to = r.ask, ![s].obRow = ob[r.ask],
                         ![s].pc = IF Amount[r.txn] > ob[r.ask].balance THEN "overflow"
                                   ELSE "apply"]
        PROVE  \E x \in Session : Shaped(x) /\ run' = [run EXCEPT ![s] = x]
    <3> DEFINE x == [r EXCEPT !.row = IF r.row.status \in Closed THEN txn[r.txn] ELSE @,
                              !.to = r.ask, !.obRow = ob[r.ask],
                              !.pc = IF Amount[r.txn] > ob[r.ask].balance THEN "overflow"
                                     ELSE "apply"]
    <3>1. run' = [run EXCEPT ![s] = x]
      BY <1>1, <2>2 DEF TypeInv, TypeOK
    <3>2. ob[r.ask] \in ObRow
      BY <2>2 DEF TypeInv, TypeOK
    <3>3. x \in Session /\ Shaped(x)
      <4> HIDE DEF r
      <4> QED
        BY <1>1, <1>2, <2>2, <3>2 DEF Session, Shaped
    <3> HIDE DEF x
    <3> QED
      BY <3>1, <3>3
  <2> QED
    BY <2>1, <2>2 DEF Target
<1>4. run' \in [Slots -> Session] /\ \A u \in Slots : Shaped(run'[u])
  BY <1>3, SessionStep
<1> QED
  BY <1>4 DEF TypeInv, TypeOK, AllocTyped, Target, db, bus

LEMMA OverflowType ==
  ASSUME TypeInv, NEW s \in Slots, Overflow(s)
  PROVE  TypeInv'
<1> DEFINE r == run[s]
           x == [r EXCEPT !.credit = credit[PayerOf[r.to]], !.pc = "apply"]
<1>1. r \in Session /\ Shaped(r) /\ r.pc = "overflow"
  BY SessionType DEF Overflow
<1>2. credit[PayerOf[r.to]] \in Int
  BY <1>1, ReconciliationAssumption DEF Shaped, TypeInv, TypeOK
<1>3. x \in Session /\ Shaped(x)
  <2> HIDE DEF r
  <2> QED
    BY <1>1, <1>2 DEF Session, Shaped
<1>4. run' = [run EXCEPT ![s] = x]
  BY DEF Overflow, TypeInv, TypeOK
<1> HIDE DEF x
<1>5. run' \in [Slots -> Session] /\ \A u \in Slots : Shaped(run'[u])
  BY <1>3, <1>4, SessionStep
<1> QED
  BY <1>5 DEF TypeInv, TypeOK, AllocTyped, Overflow, db, bus

LEMMA AgainType ==
  ASSUME TypeInv, NEW s \in Slots, Again(s)
  PROVE  TypeInv'
<1> DEFINE r == run[s]
           x == [r EXCEPT !.job = "forced", !.row = txn[r.txn],
                          !.pc = IF txn[r.txn].status \in Closed THEN "done" ELSE "route"]
<1>1. r \in Session /\ Shaped(r) /\ r.pc = "again"
  BY SessionType DEF Again
<1>2. txn[r.txn] \in TxnRow
  BY <1>1 DEF Shaped, TypeInv, TypeOK
<1>3. x \in Session /\ Shaped(x)
  <2> HIDE DEF r
  <2> QED
    BY <1>1, <1>2 DEF Session, Shaped
<1>4. run' = [run EXCEPT ![s] = x]
  BY DEF Again, TypeInv, TypeOK
<1> HIDE DEF x
<1>5. run' \in [Slots -> Session] /\ \A u \in Slots : Shaped(run'[u])
  BY <1>3, <1>4, SessionStep
<1> QED
  BY <1>5 DEF TypeInv, TypeOK, AllocTyped, Again, db, bus

LEMMA DoneType ==
  ASSUME TypeInv, NEW s \in Slots, Done(s)
  PROVE  TypeInv'
<1>1. run' \in [Slots -> Session] /\ \A u \in Slots : Shaped(run'[u])
  BY IdleType, SessionStep DEF Done
<1> QED
  BY <1>1 DEF TypeInv, TypeOK, AllocTyped, Done, db, bus

LEMMA CreatedType ==
  ASSUME TypeInv, NEW s \in Slots, Created(s)
  PROVE  TypeInv'
<1> USE ReconciliationAssumption
<1> DEFINE r == run[s]
           o == r.to
           usage == IF r.credit <= 0 THEN 0
                    ELSE IF r.credit < Due[o] THEN r.credit ELSE Due[o]
           row == [status  |-> IF usage = Due[o] THEN "SETTLED"
                               ELSE IF usage > 0 THEN "PARTIAL" ELSE "PENDING",
                   paid    |-> usage,
                   balance |-> Due[o] - usage]
<1>1. r \in Session /\ Shaped(r) /\ r.pc = "create"
  BY SessionType DEF Created
<1>2. o \in Obs /\ r.credit \in Int
  BY <1>1 DEF Shaped
<1>3. usage \in Int /\ Due[o] \in Int /\ PayerOf[o] \in Payers
  BY <1>2
<1>4. run' \in [Slots -> Session] /\ \A u \in Slots : Shaped(run'[u])
  BY IdleType, SessionStep DEF Created
<1>5. ob' = [ob EXCEPT ![o] = row]
  BY DEF Created
<1>6. credit' = [credit EXCEPT ![PayerOf[o]] = FlushValue(@, r.credit, r.credit - usage)]
  BY DEF Created
<1>7. row \in ObRow
  <2> HIDE DEF usage
  <2> QED
    BY <1>3 DEF ObRow, Open
<1> HIDE DEF r, o, usage, row
<1>8. ob' \in [Obs -> ObRow]
  BY <1>2, <1>5, <1>7 DEF TypeInv, TypeOK
<1>9. credit' \in [Payers -> Int]
  BY <1>2, <1>3, <1>6 DEF FlushValue, TypeInv, TypeOK
<1> QED
  BY <1>4, <1>8, <1>9 DEF TypeInv, TypeOK, AllocTyped, Created, bus

LEMMA CancelType ==
  ASSUME TypeInv, NEW o \in Obs, Cancel(o)
  PROVE  TypeInv'
<1>1. ob' = [ob EXCEPT ![o] = [ob[o] EXCEPT !.status = "VOIDED"]] /\ ob[o] \in ObRow
  BY DEF Cancel, TypeInv, TypeOK
<1>2. [ob[o] EXCEPT !.status = "VOIDED"] \in ObRow
  BY <1>1 DEF ObRow
<1>3. ob' \in [Obs -> ObRow]
  BY <1>1, <1>2 DEF TypeInv, TypeOK
<1> QED
  BY <1>3 DEF TypeInv, TypeOK, AllocTyped, Cancel, bus

LEMMA AskType ==
  ASSUME TypeInv, NEW t \in Txns, NEW to \in Targets, Ask(t, to)
  PROVE  TypeInv'
  BY DEF TypeInv, TypeOK, AllocTyped, Ask, db

LEMMA RepeatType ==
  ASSUME TypeInv, NEW t \in Txns, Repeat(t)
  PROVE  TypeInv'
<1>1. pending[t] + 1 \in Nat
  BY DEF TypeInv, TypeOK
<1> QED
  BY <1>1 DEF TypeInv, TypeOK, AllocTyped, Repeat, db

LEMMA WorkerCrashType ==
  ASSUME TypeInv, WorkerCrash
  PROVE  TypeInv'
<1> DEFINE On(t)  == {s \in Slots : run[s].job = "reconcile" /\ run[s].txn = t}
           Asking == {s \in Slots : run[s].job \in {"match", "forced"}}
<1>1. \A t \in Txns : Cardinality(On(t)) \in Nat
  <2> SUFFICES ASSUME NEW t \in Txns PROVE Cardinality(On(t)) \in Nat
    OBVIOUS
  <2>1. IsFiniteSet(On(t))
    BY FS_Subset, ReconciliationAssumption
  <2> QED
    BY <2>1, FS_CardinalityType
<1>2. pending' = [t \in Txns |-> pending[t] + Cardinality(On(t))]
  BY DEF WorkerCrash
<1> HIDE DEF On
<1>3. pending' \in [Txns -> Nat]
  BY <1>1, <1>2 DEF TypeInv, TypeOK
<1>4. asked' = asked \cup {<<run[s].txn, run[s].ask>> : s \in Asking}
  BY DEF WorkerCrash
<1>5. \A s \in Asking : run[s].txn \in Txns /\ run[s].ask \in Targets
  BY DEF TypeInv, Shaped
<1>6. asked' \subseteq Txns \X Targets
  BY <1>4, <1>5 DEF TypeInv, TypeOK
<1>7. run' = [s \in Slots |-> IF run[s].job = "create" THEN run[s] ELSE Idle]
  BY DEF WorkerCrash
<1>8. run' \in [Slots -> Session] /\ \A s \in Slots : Shaped(run'[s])
  BY <1>7, IdleType, SessionType
<1> QED
  BY <1>3, <1>6, <1>8 DEF TypeInv, TypeOK, AllocTyped, WorkerCrash, db

LEMMA TypeStep ==
  ASSUME TypeInv, [Next]_vars
  PROVE  TypeInv'
<1>1. CASE UNCHANGED vars
  BY <1>1 DEF TypeInv, TypeOK, AllocTyped, vars, db, bus
<1>2. CASE Next
  BY <1>2, ReconcileType, MatchType, CreateType, RouteType, PickType, UnmatchedType, ApplyType,
     CategorizedType, UndoType, UndoPayerType, UndoneType, TargetType, OverflowType, AgainType,
     DoneType, CreatedType, AskType, CancelType, RepeatType, WorkerCrashType
     DEF Next, Step
<1> QED
  BY <1>1, <1>2

\* Rows, sessions, allocations and queues are what they should be, whatever
\* sessions run together: reconcile, manual_match_transaction, create_obligation
\* and cancel_obligation, with worker restarts between any two steps.
THEOREM TypesHold == Spec => []TypeOK
<1>1. TypeInv => TypeOK
  BY DEF TypeInv
<1> QED
  BY TypeInit, TypeStep, <1>1, PTL DEF Spec

-----------------------------------------------------------------------------
(* The books, when one row or one allocation changes                       *)

\* BooksAgree for one obligation, of the tables O and A.
AllocatedIn(o, A) == SumOver([a \in A |-> a.applied], {a \in A : a.ob = o})

StatusOf(row) ==
  /\ row.status = "SETTLED" => row.balance = 0
  /\ row.status = "PARTIAL" => row.paid > 0
  /\ row.status = "PENDING" => row.paid = 0

BooksAt(o, O, A) ==
  O[o].status # "ABSENT" =>
    /\ O[o].balance = Due[o] - O[o].paid /\ O[o].balance >= 0
    /\ O[o].paid >= AllocatedIn(o, A)
    /\ StatusOf(O[o])

LEMMA MatchParts ==
  /\ MatchRecorded <=> \A t \in Txns : MatchAt(t, txn, alloc)
  /\ MatchRecorded' <=> \A t \in Txns : MatchAt(t, txn', alloc')
  BY DEF MatchRecorded

LEMMA BooksParts ==
  /\ BooksAgree <=> \A o \in Obs : BooksAt(o, ob, alloc)
  /\ BooksAgree' <=> \A o \in Obs : BooksAt(o, ob', alloc')
  BY DEF BooksAgree, BooksAt, StatusOf, Allocated, AllocatedIn

\* The match of a transaction whose row and allocations stay what they are.
LEMMA MatchKept ==
  ASSUME NEW t \in Txns, MatchAt(t, txn, alloc), txn'[t] = txn[t],
         {a \in alloc' : a.txn = t} = {a \in alloc : a.txn = t}
  PROVE  MatchAt(t, txn', alloc')
<1>1. \A a : {b \in alloc : b.txn = t} = {a} => a \in alloc'
  OBVIOUS
<1> QED
  BY <1>1 DEF MatchAt

LEMMA AllocatedSame ==
  ASSUME AllocTyped, NEW o,
         {a \in alloc' : a.ob = o} = {a \in alloc : a.ob = o}
  PROVE  AllocatedIn(o, alloc') = AllocatedIn(o, alloc)
<1> DEFINE S == {a \in alloc : a.ob = o}
           e == [a \in alloc' |-> a.applied]
           f == [a \in alloc |-> a.applied]
<1>1. IsFiniteSet(S)
  BY FS_Subset DEF AllocTyped
<1>2. \A a \in S : e[a] = f[a]
  <2>1. \A a \in S : a \in alloc /\ a \in alloc'
    OBVIOUS
  <2> HIDE DEF S
  <2> QED
    BY <2>1
<1>3. AllocatedIn(o, alloc') = SumOver(e, S) /\ AllocatedIn(o, alloc) = SumOver(f, S)
  BY DEF AllocatedIn
<1> HIDE DEF S, e, f
<1> QED
  BY <1>1, <1>2, <1>3, SumSame

LEMMA AllocatedMore ==
  ASSUME AllocTyped, NEW new \in Allocation, new \notin alloc, alloc' = alloc \cup {new},
         NEW o, o = new.ob
  PROVE  AllocatedIn(o, alloc') = AllocatedIn(o, alloc) + new.applied /\ AllocatedIn(o, alloc) \in Int
<1> DEFINE S == {a \in alloc : a.ob = o}
           e == [a \in alloc' |-> a.applied]
           f == [a \in alloc |-> a.applied]
<1>1. IsFiniteSet(S) /\ new \notin S
  BY FS_Subset DEF AllocTyped
<1>2. \A a \in S : e[a] = f[a] /\ f[a] \in Int
  BY DEF AllocTyped, Allocation
<1>3. e[new] = new.applied /\ new.applied \in Int
  BY DEF Allocation
<1>4. {a \in alloc' : a.ob = o} = S \cup {new}
  OBVIOUS
<1>5. AllocatedIn(o, alloc') = SumOver(e, S \cup {new}) /\ AllocatedIn(o, alloc) = SumOver(f, S)
  BY <1>4 DEF AllocatedIn
<1> HIDE DEF S, e, f
<1>6. \A a \in S \cup {new} : e[a] \in Int
  BY <1>2, <1>3
<1>7. SumOver(e, S \cup {new}) = e[new] + SumOver(e, S)
  BY <1>1, <1>6, SumAdd
<1>8. SumOver(e, S) = SumOver(f, S) /\ SumOver(f, S) \in Int
  <2>1. SumOver(e, S) = SumOver(f, S)
    BY <1>1, <1>2, SumSame
  <2>2. SumOver(f, S) \in Int
    BY <1>1, <1>2, SumInt
  <2> QED
    BY <2>1, <2>2
<1> QED
  BY <1>3, <1>5, <1>7, <1>8

LEMMA AllocatedLess ==
  ASSUME AllocTyped, NEW a \in alloc, alloc' = alloc \ {a}, NEW o, o = a.ob
  PROVE  AllocatedIn(o, alloc') = AllocatedIn(o, alloc) - a.applied /\ AllocatedIn(o, alloc') \in Int
<1> DEFINE S == {b \in alloc : b.ob = o}
           e == [b \in alloc' |-> b.applied]
           f == [b \in alloc |-> b.applied]
<1>1. IsFiniteSet(S) /\ a \in S /\ IsFiniteSet(S \ {a})
  BY FS_Subset, FS_RemoveElement DEF AllocTyped
<1>2. \A b \in S : f[b] \in Int
  BY DEF AllocTyped, Allocation
<1>3. \A b \in S \ {a} : e[b] = f[b]
  OBVIOUS
<1>4. {b \in alloc' : b.ob = o} = S \ {a}
  OBVIOUS
<1>5. f[a] = a.applied
  OBVIOUS
<1>6. AllocatedIn(o, alloc') = SumOver(e, S \ {a}) /\ AllocatedIn(o, alloc) = SumOver(f, S)
  BY <1>4 DEF AllocatedIn
<1> HIDE DEF S, e, f
<1>7. SumOver(f, S) = f[a] + SumOver(f, S \ {a})
  BY <1>1, <1>2, SumRemove
<1>8. SumOver(e, S \ {a}) = SumOver(f, S \ {a})
  BY <1>1, <1>3, SumSame
<1>9. SumOver(f, S \ {a}) \in Int
  <2>1. \A b \in S \ {a} : f[b] \in Int
    BY <1>2
  <2> QED
    BY <1>1, <2>1, SumInt
<1>10. f[a] \in Int
  BY <1>1, <1>2
<1> QED
  BY <1>5, <1>6, <1>7, <1>8, <1>9, <1>10

\* What is allocated is not negative, being part of a match.
LEMMA AppliedNat ==
  ASSUME AllocTyped, MatchRecorded
  PROVE  \A a \in alloc : a.applied \in Nat
<1> SUFFICES ASSUME NEW a \in alloc PROVE a.applied \in Nat
  OBVIOUS
<1>1. a.txn \in Txns /\ a.applied \in Int /\ a \in {b \in alloc : b.txn = a.txn}
  BY DEF AllocTyped, Allocation
<1>2. MatchAt(a.txn, txn, alloc)
  BY <1>1, MatchParts
<1>3. a.applied >= 0
  BY <1>1, <1>2 DEF MatchAt
<1> QED
  BY <1>1, <1>3

LEMMA AllocatedNat ==
  ASSUME AllocTyped, MatchRecorded, NEW o
  PROVE  AllocatedIn(o, alloc) \in Nat
<1> DEFINE S == {a \in alloc : a.ob = o}
           f == [a \in alloc |-> a.applied]
<1>1. IsFiniteSet(S)
  BY FS_Subset DEF AllocTyped
<1>2. \A a \in S : f[a] \in Nat
  BY AppliedNat
<1>3. AllocatedIn(o, alloc) = SumOver(f, S)
  BY DEF AllocatedIn
<1> HIDE DEF S, f
<1> QED
  BY <1>1, <1>2, <1>3, SumNat

\* An obligation whose row stays and whose allocations do.
LEMMA BooksKept ==
  ASSUME AllocTyped, NEW o \in Obs, BooksAt(o, ob, alloc), Same(ob[o], ob'[o]),
         ob'[o].status # "ABSENT" => ob[o].status # "ABSENT",
         {a \in alloc' : a.ob = o} = {a \in alloc : a.ob = o}
  PROVE  BooksAt(o, ob', alloc')
<1>1. AllocatedIn(o, alloc') = AllocatedIn(o, alloc)
  BY AllocatedSame
<1> QED
  BY <1>1 DEF BooksAt, StatusOf, Same

LEMMA MoneyType ==
  ASSUME TypeInv
  PROVE  Paid \in Int /\ Held \in Int /\ Brought \in Int
<1> USE ReconciliationAssumption
<1>1. Paid \in Int
  <2> DEFINE f == [o \in Obs |-> ob[o].paid]
  <2>1. \A o \in Obs : f[o] \in Int
    BY DEF TypeInv, TypeOK, ObRow
  <2> HIDE DEF f
  <2>2. SumOver(f, Obs) \in Int
    BY <2>1, SumInt
  <2> QED
    BY <2>2 DEF Paid, f
<1>2. Held \in Int
  BY SumInt DEF Held, TypeInv, TypeOK
<1>3. Brought \in Int
  <2> DEFINE S == {t \in Txns : txn[t].status = "MATCHED"}
  <2>1. IsFiniteSet(S) /\ \A t \in S : Amount[t] \in Int
    BY FS_Subset
  <2> HIDE DEF S
  <2>2. SumOver(Amount, S) \in Int
    BY <2>1, SumInt
  <2> QED
    BY <2>2 DEF Brought, S
<1> QED
  BY <1>1, <1>2, <1>3

LEMMA PaidSame ==
  ASSUME \A o \in Obs : ob'[o].paid = ob[o].paid
  PROVE  Paid' = Paid
<1> DEFINE e == [o \in Obs |-> ob'[o].paid]
           f == [o \in Obs |-> ob[o].paid]
<1>1. \A o \in Obs : e[o] = f[o]
  OBVIOUS
<1> HIDE DEF e, f
<1>2. SumOver(e, Obs) = SumOver(f, Obs)
  BY <1>1, SumSame, ReconciliationAssumption
<1> QED
  BY <1>2 DEF Paid, e, f

LEMMA PaidChange ==
  ASSUME TypeInv, TypeInv', NEW u \in Obs, \A o \in Obs \ {u} : ob'[o] = ob[o]
  PROVE  Paid' = Paid + ob'[u].paid - ob[u].paid
<1> DEFINE e == [o \in Obs |-> ob[o].paid]
           f == [o \in Obs |-> ob'[o].paid]
<1>1. \A o \in Obs : e[o] \in Int /\ f[o] \in Int
  BY DEF TypeInv, TypeOK, ObRow
<1>2. \A o \in Obs \ {u} : e[o] = f[o]
  OBVIOUS
<1>3. e[u] = ob[u].paid /\ f[u] = ob'[u].paid
  OBVIOUS
<1> HIDE DEF e, f
<1>4. SumOver(f, Obs) = SumOver(e, Obs) + f[u] - e[u]
  BY <1>1, <1>2, SumChange, ReconciliationAssumption
<1> QED
  BY <1>3, <1>4 DEF Paid, e, f

LEMMA HeldChange ==
  ASSUME TypeInv, TypeInv', NEW p \in Payers, NEW v \in Int, credit' = [credit EXCEPT ![p] = v]
  PROVE  Held' = Held + v - credit[p]
<1> DEFINE e == credit
           f == credit'
<1>1. \A q \in Payers : e[q] \in Int /\ f[q] \in Int
  BY DEF TypeInv, TypeOK
<1>2. \A q \in Payers \ {p} : e[q] = f[q]
  BY DEF TypeInv, TypeOK
<1>3. f[p] = v
  BY DEF TypeInv, TypeOK
<1> HIDE DEF e, f
<1>4. SumOver(f, Payers) = SumOver(e, Payers) + f[p] - e[p]
  BY <1>1, <1>2, SumChange, ReconciliationAssumption
<1> QED
  BY <1>3, <1>4 DEF Held, e, f

\* What the MATCHED transactions brought, when one becomes or ceases to be one.
LEMMA BroughtSame ==
  ASSUME \A t \in Txns : txn'[t].status = "MATCHED" <=> txn[t].status = "MATCHED"
  PROVE  Brought' = Brought
<1>1. {t \in Txns : txn'[t].status = "MATCHED"} = {t \in Txns : txn[t].status = "MATCHED"}
  OBVIOUS
<1> QED
  BY <1>1 DEF Brought

LEMMA BroughtMore ==
  ASSUME NEW u \in Txns, \A t \in Txns \ {u} : txn'[t] = txn[t],
         txn[u].status # "MATCHED", txn'[u].status = "MATCHED"
  PROVE  Brought' = Brought + Amount[u]
<1> USE ReconciliationAssumption
<1> DEFINE S == {t \in Txns : txn[t].status = "MATCHED"}
<1>1. {t \in Txns : txn'[t].status = "MATCHED"} = S \cup {u} /\ u \notin S
  OBVIOUS
<1>2. IsFiniteSet(S) /\ \A t \in S \cup {u} : Amount[t] \in Int
  BY FS_Subset
<1>3. Brought' = SumOver(Amount, S \cup {u}) /\ Brought = SumOver(Amount, S)
  BY <1>1 DEF Brought
<1> HIDE DEF S
<1>4. SumOver(Amount, S \cup {u}) = Amount[u] + SumOver(Amount, S)
  BY <1>1, <1>2, SumAdd
<1>5. SumOver(Amount, S) \in Int
  BY <1>2, SumInt
<1>6. Amount[u] \in Int
  BY <1>2
<1> QED
  BY <1>3, <1>4, <1>5, <1>6

LEMMA BroughtLess ==
  ASSUME NEW u \in Txns, \A t \in Txns \ {u} : txn'[t] = txn[t],
         txn[u].status = "MATCHED", txn'[u].status # "MATCHED"
  PROVE  Brought' = Brought - Amount[u]
<1> USE ReconciliationAssumption
<1> DEFINE S == {t \in Txns : txn'[t].status = "MATCHED"}
<1>1. {t \in Txns : txn[t].status = "MATCHED"} = S \cup {u} /\ u \notin S
  OBVIOUS
<1>2. IsFiniteSet(S) /\ \A t \in S \cup {u} : Amount[t] \in Int
  BY FS_Subset
<1>3. Brought = SumOver(Amount, S \cup {u}) /\ Brought' = SumOver(Amount, S)
  BY <1>1 DEF Brought
<1> HIDE DEF S
<1>4. SumOver(Amount, S \cup {u}) = Amount[u] + SumOver(Amount, S)
  BY <1>1, <1>2, SumAdd
<1>5. SumOver(Amount, S) \in Int
  BY <1>2, SumInt
<1>6. Amount[u] \in Int
  BY <1>2
<1> QED
  BY <1>3, <1>4, <1>5, <1>6

-----------------------------------------------------------------------------
(* One session at a time                                                   *)

Books == MatchRecorded /\ BooksAgree /\ AbsentIsEmpty /\ MoneyKept

\* A step of the only session: the books, and what that session has read.
LEMMA SerialBy ==
  ASSUME OneSession, NEW s \in Slots, TypeInv', Books',
         CurrentIn(run'[s], txn', ob', credit', alloc')
  PROVE  SerialInv'
<1>1. \A u \in Slots : u = s
  BY DEF OneSession
<1>2. \A u \in Slots : Current(run[u])'
  BY <1>1 DEF Current
<1> QED
  BY <1>2 DEF SerialInv, Books

LEMMA BooksRead ==
  ASSUME SerialInv, UNCHANGED db
  PROVE  Books'
<1>1. UNCHANGED <<txn, ob, credit, alloc>>
  BY DEF db
<1>2. MatchRecorded' /\ AbsentIsEmpty'
  BY <1>1 DEF SerialInv, MatchRecorded, MatchAt, AbsentIsEmpty
<1>3. BooksAgree'
  BY <1>1 DEF SerialInv, BooksAgree, Allocated
<1>4. MoneyKept'
  BY <1>1 DEF SerialInv, MoneyKept, Paid, Held, Brought
<1> QED
  BY <1>2, <1>3, <1>4 DEF Books

\* A step that only reads.
LEMMA ReadBy ==
  ASSUME SerialInv, OneSession, NEW s \in Slots, TypeInv', UNCHANGED db,
         CurrentIn(run'[s], txn, ob, credit, alloc)
  PROVE  SerialInv'
<1>1. CurrentIn(run'[s], txn', ob', credit', alloc')
  BY DEF db
<1> QED
  BY <1>1, BooksRead, SerialBy

LEMMA CurrentNow ==
  ASSUME SerialInv, NEW s \in Slots
  PROVE  /\ TypeInv /\ Books
         /\ run[s] \in Session /\ Shaped(run[s])
         /\ CurrentIn(run[s], txn, ob, credit, alloc)
  BY SessionType DEF SerialInv, Current, Books

LEMMA IdleCurrent ==
  ASSUME NEW T, NEW O, NEW C, NEW A
  PROVE  CurrentIn(Idle, T, O, C, A)
  BY DEF CurrentIn, Idle

LEMMA SerialInit ==
  ASSUME Init, NoLegacy
  PROVE  SerialInv
<1> USE ReconciliationAssumption
<1>1. TypeInv
  BY TypeInit
<1>2. \A t \in Txns : txn[t] = [status |-> "RAW", ob |-> Nothing, cp |-> FALSE]
  BY DEF Init, NoLegacy
<1>3. alloc = {}
  BY DEF Init
<1>4. MatchRecorded
  BY <1>2, <1>3 DEF MatchRecorded, MatchAt
<1>5. \A o \in Obs : ob[o] = IF o \notin Existing THEN [status |-> "ABSENT", paid |-> 0, balance |-> 0]
                             ELSE NewRow(o)
  <2> SUFFICES ASSUME NEW o \in Obs
               PROVE  ob[o] = IF o \notin Existing
                              THEN [status |-> "ABSENT", paid |-> 0, balance |-> 0]
                              ELSE NewRow(o)
    OBVIOUS
  <2>1. ~ \E t \in Txns : Legacy[t] = o
    BY DEF NoLegacy
  <2> QED
    BY <2>1 DEF Init
<1>6. \A o \in Obs : /\ ob[o].paid = 0 /\ ob[o].status \in {"ABSENT", "PENDING"}
                     /\ ob[o].status # "ABSENT" => ob[o].balance = Due[o]
  <2> SUFFICES ASSUME NEW o \in Obs
               PROVE  /\ ob[o].paid = 0 /\ ob[o].status \in {"ABSENT", "PENDING"}
                      /\ ob[o].status # "ABSENT" => ob[o].balance = Due[o]
    OBVIOUS
  <2>1. CASE o \notin Existing
    <3>1. ob[o] = [status |-> "ABSENT", paid |-> 0, balance |-> 0]
      BY <1>5, <2>1
    <3> QED
      BY <3>1
  <2>2. CASE o \in Existing
    <3>1. ob[o] = [status |-> "PENDING", paid |-> 0, balance |-> Due[o]]
      BY <1>5, <2>2 DEF NewRow
    <3> QED
      BY <3>1
  <2> QED
    BY <2>1, <2>2
<1>7. \A o \in Obs : Allocated(o) = 0
  <2> SUFFICES ASSUME NEW o \in Obs PROVE Allocated(o) = 0
    OBVIOUS
  <2> DEFINE f == [a \in alloc |-> a.applied]
  <2>1. {a \in alloc : a.ob = o} = {}
    BY <1>3
  <2>2. Allocated(o) = SumOver(f, {})
    BY <2>1 DEF Allocated
  <2> HIDE DEF f
  <2> QED
    BY <2>2, SumEmpty
<1>8. BooksAgree
  BY <1>6, <1>7 DEF BooksAgree
<1>9. AbsentIsEmpty
  BY <1>3, <1>6 DEF AbsentIsEmpty
<1>10. Paid = 0
  <2> DEFINE f == [o \in Obs |-> ob[o].paid]
  <2>1. \A o \in Obs : f[o] = 0
    BY <1>6
  <2> HIDE DEF f
  <2>2. SumOver(f, Obs) = 0
    BY <2>1, SumZero
  <2> QED
    BY <2>2 DEF Paid, f
<1>11. Held = 0
  <2>1. \A p \in Payers : credit[p] = 0
    BY DEF Init
  <2> QED
    BY <2>1, SumZero DEF Held
<1>12. Brought = 0
  <2>1. {t \in Txns : txn[t].status = "MATCHED"} = {}
    BY <1>2
  <2> QED
    BY <2>1, SumEmpty DEF Brought
<1>13. MoneyKept
  BY <1>10, <1>11, <1>12 DEF MoneyKept
<1>14. \A s \in Slots : Current(run[s])
  BY IdleCurrent DEF Init, Current
<1> QED
  BY <1>1, <1>4, <1>8, <1>9, <1>13, <1>14 DEF SerialInv

LEMMA ReconcileSerial ==
  ASSUME SerialInv, OneSession, NEW s \in Slots, NEW t \in Txns, Reconcile(s, t)
  PROVE  SerialInv'
<1> DEFINE x == [Idle EXCEPT !.job = "reconcile", !.txn = t, !.row = txn[t],
                   !.pc = IF txn[t].status \in Closed THEN "done" ELSE "route"]
<1>1. run'[s] = x /\ UNCHANGED db
  BY CurrentNow DEF Reconcile, TypeInv, TypeOK
<1>2. TypeInv'
  BY CurrentNow, ReconcileType
<1>3. CurrentIn(x, txn, ob, credit, alloc)
  BY DEF CurrentIn, Idle
<1> HIDE DEF x
<1> QED
  BY <1>1, <1>2, <1>3, ReadBy

LEMMA MatchSerial ==
  ASSUME SerialInv, OneSession, NEW s \in Slots, NEW t \in Txns, NEW to \in Targets,
         Match(s, t, to)
  PROVE  SerialInv'
<1> DEFINE x == [Idle EXCEPT !.job = "match", !.txn = t, !.row = txn[t], !.ask = to,
                   !.pc = IF txn[t].status \in Closed THEN "undo" ELSE "target"]
<1>1. run'[s] = x /\ UNCHANGED db
  BY CurrentNow DEF Match, TypeInv, TypeOK
<1>2. TypeInv'
  BY CurrentNow, MatchType
<1>3. CurrentIn(x, txn, ob, credit, alloc)
  BY DEF CurrentIn, Idle
<1> HIDE DEF x
<1> QED
  BY <1>1, <1>2, <1>3, ReadBy

LEMMA CreateSerial ==
  ASSUME SerialInv, OneSession, NEW s \in Slots, NEW o \in Obs, Create(s, o)
  PROVE  SerialInv'
<1> DEFINE x == [Idle EXCEPT !.job = "create", !.pc = "create", !.to = o,
                             !.credit = credit[PayerOf[o]]]
<1>1. run'[s] = x /\ UNCHANGED db
  BY CurrentNow DEF Create, TypeInv, TypeOK
<1>2. TypeInv'
  BY CurrentNow, CreateType
<1>3. CurrentIn(x, txn, ob, credit, alloc)
  BY DEF CurrentIn, Idle, Create
<1> HIDE DEF x
<1> QED
  BY <1>1, <1>2, <1>3, ReadBy

LEMMA RouteSerial ==
  ASSUME SerialInv, OneSession, NEW s \in Slots, Route(s)
  PROVE  SerialInv'
<1> DEFINE r == run[s]
<1>1. PICK dest \in RoutesTo[run[s].txn] :
        run' = [run EXCEPT ![s] =
                  IF dest = "cp" THEN [@ EXCEPT !.pc = "categorized"]
                  ELSE IF dest = "nobody" THEN [@ EXCEPT !.pc = "unmatched"]
                  ELSE [@ EXCEPT !.pc = "pick", !.to = dest, !.credit = credit[dest]]]
  BY DEF Route
<1> DEFINE x == IF dest = "cp" THEN [r EXCEPT !.pc = "categorized"]
                ELSE IF dest = "nobody" THEN [r EXCEPT !.pc = "unmatched"]
                ELSE [r EXCEPT !.pc = "pick", !.to = dest, !.credit = credit[dest]]
<1>2. r \in Session /\ r.pc = "route" /\ CurrentIn(r, txn, ob, credit, alloc)
  BY CurrentNow DEF Route
<1>3. run'[s] = x /\ UNCHANGED db
  BY <1>1, CurrentNow DEF Route, TypeInv, TypeOK
<1>4. TypeInv'
  BY CurrentNow, RouteType
<1> HIDE DEF r
<1>5. CurrentIn(x, txn, ob, credit, alloc)
  BY <1>2 DEF CurrentIn, Session
<1> HIDE DEF x
<1> QED
  BY <1>3, <1>4, <1>5, ReadBy

LEMMA PickSerial ==
  ASSUME SerialInv, OneSession, NEW s \in Slots, Pick(s)
  PROVE  SerialInv'
<1> DEFINE r == run[s]
           p == r.to
           o == Best(p, Amount[r.txn])
           x == IF OpenOf(p) = {} THEN [r EXCEPT !.pc = "unmatched"]
                ELSE [r EXCEPT !.pc = "apply", !.to = o, !.obRow = ob[o]]
<1>1. r \in Session /\ r.pc = "pick" /\ CurrentIn(r, txn, ob, credit, alloc)
  BY CurrentNow DEF Pick
<1>2. OpenOf(p) # {} => o \in Obs /\ PayerOf[o] = p /\ ob[o].status # "ABSENT"
  BY BestIsOpen DEF OpenOf, Open
<1>3. run'[s] = x /\ UNCHANGED db
  BY CurrentNow DEF Pick, TypeInv, TypeOK
<1>4. TypeInv'
  BY CurrentNow, PickType
<1>5. r.credit = credit[p]
  BY <1>1 DEF CurrentIn
<1>6. x \in Session /\ x.credit = r.credit /\ x.row = r.row /\ x.txn = r.txn
      /\ IF OpenOf(p) = {} THEN x.pc = "unmatched"
         ELSE x.pc = "apply" /\ x.to = o /\ x.obRow = ob[o]
  <2>1. OpenOf(p) # {} => ob[o] \in ObRow
    BY <1>2, CurrentNow DEF TypeInv, TypeOK
  <2> HIDE DEF r, p, o
  <2> QED
    BY <1>1, <1>2, <2>1 DEF Session
<1> HIDE DEF r, o, x
<1>7. CurrentIn(x, txn, ob, credit, alloc)
  BY <1>1, <1>2, <1>5, <1>6 DEF CurrentIn, Same
<1> QED
  BY <1>3, <1>4, <1>7, ReadBy

LEMMA UndoPayerSerial ==
  ASSUME SerialInv, OneSession, NEW s \in Slots, UndoPayer(s)
  PROVE  SerialInv'
<1> DEFINE r == run[s]
           x == [r EXCEPT !.credit = credit[r.undo.payer], !.pc = "undone"]
<1>1. r \in Session /\ r.pc = "undoPayer" /\ CurrentIn(r, txn, ob, credit, alloc)
  BY CurrentNow DEF UndoPayer
<1>2. run'[s] = x /\ UNCHANGED db
  BY CurrentNow DEF UndoPayer, TypeInv, TypeOK
<1>3. TypeInv'
  BY CurrentNow, UndoPayerType
<1> HIDE DEF r
<1>4. CurrentIn(x, txn, ob, credit, alloc)
  BY <1>1 DEF CurrentIn, Session
<1> HIDE DEF x
<1> QED
  BY <1>2, <1>3, <1>4, ReadBy

LEMMA TargetSerial ==
  ASSUME SerialInv, OneSession, NEW s \in Slots, Target(s)
  PROVE  SerialInv'
<1> DEFINE r == run[s]
<1>1. r \in Session /\ r.pc = "target" /\ CurrentIn(r, txn, ob, credit, alloc)
  BY CurrentNow DEF Target
<1>2. UNCHANGED db /\ run \in [Slots -> Session]
  BY CurrentNow DEF Target, TypeInv, TypeOK
<1>3. CurrentIn(run'[s], txn, ob, credit, alloc)
  <2>1. ASSUME NEW pc \in {"categorized", "again", "done"}, Goto(s, pc)
        PROVE  CurrentIn(run'[s], txn, ob, credit, alloc)
    <3> DEFINE x == [r EXCEPT !.pc = pc]
    <3>1. run'[s] = x
      BY <1>2, <2>1 DEF Goto
    <3> HIDE DEF r
    <3>2. CurrentIn(x, txn, ob, credit, alloc)
      BY <1>1 DEF CurrentIn, Session
    <3> QED
      BY <3>1, <3>2
  <2>2. ASSUME r.ask \in Obs, ob[r.ask].status # "ABSENT",
               run' = [run EXCEPT
                         ![s].row = IF r.row.status \in Closed THEN txn[r.txn] ELSE @,
                         ![s].to = r.ask, ![s].obRow = ob[r.ask],
                         ![s].pc = IF Amount[r.txn] > ob[r.ask].balance THEN "overflow"
                                   ELSE "apply"]
        PROVE  CurrentIn(run'[s], txn, ob, credit, alloc)
    <3> DEFINE x == [r EXCEPT !.row = IF r.row.status \in Closed THEN txn[r.txn] ELSE @,
                              !.to = r.ask, !.obRow = ob[r.ask],
                              !.pc = IF Amount[r.txn] > ob[r.ask].balance THEN "overflow"
                                     ELSE "apply"]
    <3>1. run'[s] = x
      BY <1>2, <2>2
    <3> HIDE DEF r
    <3>2. /\ x.pc = IF Amount[r.txn] > ob[r.ask].balance THEN "overflow" ELSE "apply"
          /\ x.row = IF r.row.status \in Closed THEN txn[r.txn] ELSE r.row
          /\ x.txn = r.txn /\ x.to = r.ask /\ x.obRow = ob[r.ask]
      BY <1>1 DEF Session
    <3> HIDE DEF x
    <3>3. x.row = txn[x.txn]
      BY <1>1, <3>2 DEF CurrentIn
    <3>4. CurrentIn(x, txn, ob, credit, alloc)
      BY <1>1, <2>2, <3>2, <3>3 DEF CurrentIn, Same
    <3> QED
      BY <3>1, <3>4
  <2> QED
    BY <2>1, <2>2 DEF Target
<1>4. TypeInv'
  BY CurrentNow, TargetType
<1> QED
  BY <1>2, <1>3, <1>4, ReadBy

LEMMA OverflowSerial ==
  ASSUME SerialInv, OneSession, NEW s \in Slots, Overflow(s)
  PROVE  SerialInv'
<1> DEFINE r == run[s]
           x == [r EXCEPT !.credit = credit[PayerOf[r.to]], !.pc = "apply"]
<1>1. r \in Session /\ r.pc = "overflow" /\ CurrentIn(r, txn, ob, credit, alloc)
  BY CurrentNow DEF Overflow
<1>2. run'[s] = x /\ UNCHANGED db
  BY CurrentNow DEF Overflow, TypeInv, TypeOK
<1>3. TypeInv'
  BY CurrentNow, OverflowType
<1> HIDE DEF r
<1>4. CurrentIn(x, txn, ob, credit, alloc)
  BY <1>1 DEF CurrentIn, Session
<1> HIDE DEF x
<1> QED
  BY <1>2, <1>3, <1>4, ReadBy

LEMMA AgainSerial ==
  ASSUME SerialInv, OneSession, NEW s \in Slots, Again(s)
  PROVE  SerialInv'
<1> DEFINE r == run[s]
           x == [r EXCEPT !.job = "forced", !.row = txn[r.txn],
                          !.pc = IF txn[r.txn].status \in Closed THEN "done" ELSE "route"]
<1>1. r \in Session /\ r.pc = "again" /\ CurrentIn(r, txn, ob, credit, alloc)
  BY CurrentNow DEF Again
<1>2. run'[s] = x /\ UNCHANGED db
  BY CurrentNow DEF Again, TypeInv, TypeOK
<1>3. TypeInv'
  BY CurrentNow, AgainType
<1> HIDE DEF r
<1>4. CurrentIn(x, txn, ob, credit, alloc)
  BY <1>1 DEF CurrentIn, Session
<1> HIDE DEF x
<1> QED
  BY <1>2, <1>3, <1>4, ReadBy

LEMMA DoneSerial ==
  ASSUME SerialInv, OneSession, NEW s \in Slots, Done(s)
  PROVE  SerialInv'
<1>1. run'[s] = Idle /\ UNCHANGED db
  BY CurrentNow DEF Done, TypeInv, TypeOK
<1>2. TypeInv'
  BY CurrentNow, DoneType
<1> QED
  BY <1>1, <1>2, IdleCurrent, ReadBy

\* Only the row of a transaction changes, which is not MATCHED before or after.
LEMMA BooksTxn ==
  ASSUME Books, NEW u \in Txns, \A t \in Txns \ {u} : txn'[t] = txn[t], MatchAt(u, txn', alloc'),
         txn[u].status # "MATCHED", txn'[u].status # "MATCHED",
         UNCHANGED <<ob, credit, alloc>>
  PROVE  Books'
<1>1. MatchRecorded'
  <2>1. ASSUME NEW t \in Txns \ {u} PROVE MatchAt(t, txn', alloc')
    BY MatchKept, MatchParts DEF Books
  <2> QED
    BY <2>1, MatchParts
<1>2. BooksAgree' /\ AbsentIsEmpty'
  BY DEF Books, BooksAgree, AbsentIsEmpty, Allocated
<1>3. Brought' = Brought
  BY BroughtSame
<1>4. Paid' = Paid /\ Held' = Held
  BY DEF Paid, Held
<1>5. MoneyKept'
  BY <1>3, <1>4 DEF Books, MoneyKept
<1> QED
  BY <1>1, <1>2, <1>5 DEF Books

LEMMA DoneCurrent ==
  ASSUME NEW r, r.pc \in {"done", "again"}, NEW T, NEW O, NEW C, NEW A
  PROVE  CurrentIn(r, T, O, C, A)
  BY DEF CurrentIn

LEMMA UnmatchedSerial ==
  ASSUME SerialInv, OneSession, NEW s \in Slots, Unmatched(s)
  PROVE  SerialInv'
<1> DEFINE r == run[s]
           t == r.txn
           new == [r.row EXCEPT !.status = "UNMATCHED"]
<1>1. /\ r \in Session /\ r.pc = "unmatched" /\ CurrentIn(r, txn, ob, credit, alloc)
      /\ t \in Txns /\ r.row \in TxnRow /\ TypeInv /\ Books
  BY CurrentNow DEF Unmatched, Shaped
<1>2. r.row = txn[t] /\ txn[t].status \notin Closed
  BY <1>1 DEF CurrentIn
<1>3. new \in TxnRow /\ Flush(txn[t], r.row, new) = new
  BY <1>1, <1>2, FlushTxn DEF TxnRow
<1>4. txn' = [txn EXCEPT ![t] = new]
  BY <1>3 DEF Unmatched
<1>5. UNCHANGED <<ob, credit, alloc>>
  BY DEF Unmatched
<1>6. run'[s].pc = "done"
  BY <1>1 DEF Unmatched, Goto, TypeInv, TypeOK, Session
<1>7. TypeInv'
  BY <1>1, UnmatchedType
<1>8. new.status = "UNMATCHED" /\ new.ob = txn[t].ob /\ new.cp = txn[t].cp
  BY <1>1, <1>2 DEF TxnRow
<1> HIDE DEF r, t, new
<1>9. txn'[t] = new /\ \A v \in Txns \ {t} : txn'[v] = txn[v]
  BY <1>1, <1>4 DEF TypeInv, TypeOK
<1>10. MatchAt(t, txn, alloc)
  BY <1>1, MatchParts DEF Books
<1>11. {a \in alloc : a.txn = t} = {} /\ txn[t].ob = Nothing /\ ~txn[t].cp
  <2>1. txn[t].cp \in BOOLEAN
    BY <1>1 DEF TypeInv, TypeOK, TxnRow
  <2> QED
    BY <1>2, <1>10, <2>1 DEF MatchAt, Closed
<1>12. /\ txn'[t].ob = Nothing /\ ~txn'[t].cp /\ txn'[t].status = "UNMATCHED"
       /\ txn[t].status # "MATCHED" /\ {a \in alloc' : a.txn = t} = {}
  BY <1>2, <1>5, <1>8, <1>9, <1>11 DEF Closed
<1>13. MatchAt(t, txn', alloc')
  BY <1>12 DEF MatchAt
<1>14. Books'
  BY <1>1, <1>5, <1>9, <1>12, <1>13, BooksTxn
<1> QED
  BY <1>6, <1>7, <1>14, DoneCurrent, SerialBy

LEMMA CategorizedSerial ==
  ASSUME SerialInv, OneSession, NEW s \in Slots, Categorized(s)
  PROVE  SerialInv'
<1> DEFINE r == run[s]
           t == r.txn
           new == [txn[t] EXCEPT !.status = "CATEGORIZED", !.cp = TRUE]
<1>1. /\ r \in Session /\ r.pc = "categorized" /\ CurrentIn(r, txn, ob, credit, alloc)
      /\ t \in Txns /\ TypeInv /\ Books
  BY CurrentNow DEF Categorized, Shaped
<1>2. txn[t].status \notin Closed
  BY <1>1 DEF CurrentIn
<1>3. txn[t] \in TxnRow
  BY <1>1 DEF TypeInv, TypeOK
<1>4. txn' = [txn EXCEPT ![t] = new]
  BY <1>1 DEF Categorized, TypeInv, TypeOK
<1>5. UNCHANGED <<ob, credit, alloc>>
  BY DEF Categorized
<1>6. run'[s].pc \in {"again", "done"}
  BY <1>1 DEF Categorized, Committed, Goto, TypeInv, TypeOK, Session
<1>7. TypeInv'
  BY <1>1, CategorizedType
<1>8. new.status = "CATEGORIZED" /\ new.ob = txn[t].ob /\ new.cp = TRUE
  BY <1>3 DEF TxnRow
<1> HIDE DEF r, t, new
<1>9. txn'[t] = new /\ \A v \in Txns \ {t} : txn'[v] = txn[v]
  BY <1>1, <1>4 DEF TypeInv, TypeOK
<1>10. MatchAt(t, txn, alloc)
  BY <1>1, MatchParts DEF Books
<1>11. {a \in alloc : a.txn = t} = {} /\ txn[t].ob = Nothing /\ txn[t].status # "MATCHED"
  BY <1>2, <1>10 DEF MatchAt, Closed
<1>12. MatchAt(t, txn', alloc') /\ txn'[t].status # "MATCHED"
  BY <1>5, <1>8, <1>9, <1>11 DEF MatchAt
<1>13. Books'
  BY <1>1, <1>5, <1>9, <1>11, <1>12, BooksTxn
<1> QED
  BY <1>6, <1>7, <1>13, DoneCurrent, SerialBy

\* A payment puts on the obligation what its balance takes, and leaves the rest.
Overflowing(r) == IF Amount[r.txn] > r.obRow.balance THEN Amount[r.txn] - r.obRow.balance ELSE 0
Applying(r)    == Amount[r.txn] - Overflowing(r)

\* What the commit of a row leaves, of the row a session has read.
LEMMA CommittedOb ==
  ASSUME NEW current \in ObRow, NEW read \in ObRow, NEW new \in ObRow, Same(read, current),
         StatusOf(new), new.status # "ABSENT", current.status # "ABSENT"
  PROVE  LET row == Flush(current, read, new) IN
         /\ row.paid = new.paid /\ row.balance = new.balance
         /\ row.status # "ABSENT" /\ StatusOf(row)
<1> DEFINE row == Flush(current, read, new)
<1>1. /\ row.status = IF new.status = read.status THEN current.status ELSE new.status
      /\ row.paid = IF new.paid = read.paid THEN current.paid ELSE new.paid
      /\ row.balance = IF new.balance = read.balance THEN current.balance ELSE new.balance
  BY FlushOb
<1> HIDE DEF row
<1>2. row.paid = new.paid /\ row.balance = new.balance /\ row.status \in {new.status, "VOIDED"}
  BY <1>1 DEF Same
<1> QED
  BY <1>2 DEF StatusOf, row

LEMMA ApplyOb ==
  ASSUME SerialInv, NEW s \in Slots, Apply(s)
  PROVE  LET r       == run[s]
             o       == r.to
             applied == Applying(r)
         IN  /\ o \in Obs
             /\ Overflowing(r) \in Nat /\ applied \in Nat
             /\ Overflowing(r) + applied = Amount[r.txn]
             /\ ob[o].status # "ABSENT"
             /\ ob'[o].paid = ob[o].paid + applied
             /\ ob'[o].balance = Due[o] - (ob[o].paid + applied)
             /\ ob'[o].balance >= 0
             /\ ob'[o].status # "ABSENT" /\ StatusOf(ob'[o])
             /\ \A u \in Obs \ {o} : ob'[u] = ob[u]
<1> USE ReconciliationAssumption
<1> DEFINE r == run[s]
           t == r.txn
           o == r.to
           overflow == Overflowing(r)
           applied == Applying(r)
           paid == AfterPayment(o, r.obRow, applied)
<1>1. /\ r \in Session /\ Shaped(r) /\ r.pc = "apply" /\ CurrentIn(r, txn, ob, credit, alloc)
      /\ TypeInv /\ Books
  BY CurrentNow DEF Apply
<1>2. /\ t \in Txns /\ o \in Obs /\ r.obRow \in ObRow /\ ob[o] \in ObRow
      /\ Amount[t] \in Nat /\ Due[o] \in Nat
  BY <1>1 DEF Shaped, TypeInv, TypeOK
<1>3. /\ r.obRow.paid = ob[o].paid /\ r.obRow.balance = ob[o].balance
      /\ Same(r.obRow, ob[o]) /\ ob[o].status # "ABSENT"
  BY <1>1 DEF CurrentIn, Same
<1>4. ob' = [ob EXCEPT ![o] = Flush(@, r.obRow, paid)]
  BY DEF Apply, Overflowing, Applying
<1>5. BooksAt(o, ob, alloc)
  BY <1>1, <1>2, BooksParts DEF Books
<1>6. ob[o].balance \in Int /\ ob[o].balance >= 0 /\ ob[o].balance = Due[o] - ob[o].paid
      /\ ob[o].paid \in Nat
  <2>1. AllocatedIn(o, alloc) \in Nat
    BY <1>1, AllocatedNat DEF TypeInv, Books
  <2> HIDE DEF r, o
  <2>2. ob[o].balance \in Int /\ ob[o].paid \in Int
    BY <1>2 DEF ObRow
  <2> QED
    BY <1>3, <1>5, <2>1, <2>2 DEF BooksAt
<1>7. overflow \in Nat /\ applied \in Nat /\ overflow + applied = Amount[t]
      /\ applied <= ob[o].balance /\ (applied = 0 => ob[o].balance = 0)
  BY <1>2, <1>3, <1>6 DEF Overflowing, Applying
<1>8. paid \in ObRow /\ paid.paid = ob[o].paid + applied
      /\ paid.balance = Due[o] - (ob[o].paid + applied) /\ paid.status # "ABSENT"
      /\ paid.balance >= 0 /\ StatusOf(paid)
  <2>1. paid \in ObRow
    BY <1>2, <1>7, AfterType
  <2> HIDE DEF applied, r, o, t
  <2>2. /\ paid.paid = ob[o].paid + applied
        /\ paid.balance = Due[o] - (ob[o].paid + applied)
        /\ paid.status = IF paid.balance <= 0 THEN "SETTLED" ELSE "PARTIAL"
        /\ paid.balance >= 0
    BY <1>2, <1>3, <1>6, <1>7 DEF AfterPayment
  <2> HIDE DEF paid
  <2>3. paid.balance > 0 => paid.paid > 0
    BY <1>2, <1>6, <1>7, <2>2
  <2> QED
    BY <1>2, <1>6, <1>7, <2>1, <2>2, <2>3 DEF StatusOf
<1> HIDE DEF r, t, o, overflow, applied, paid
<1>9. ob'[o] = Flush(ob[o], r.obRow, paid) /\ \A u \in Obs \ {o} : ob'[u] = ob[u]
  BY <1>1, <1>2, <1>4 DEF TypeInv, TypeOK
<1>11. /\ ob'[o].paid = paid.paid /\ ob'[o].balance = paid.balance
       /\ ob'[o].status # "ABSENT" /\ StatusOf(ob'[o])
  BY <1>2, <1>3, <1>8, <1>9, CommittedOb
<1> QED
  BY <1>2, <1>3, <1>7, <1>8, <1>9, <1>11 DEF r, t, o, overflow, applied

LEMMA ApplySerial ==
  ASSUME SerialInv, OneSession, NEW s \in Slots, Apply(s)
  PROVE  SerialInv'
<1> USE ReconciliationAssumption
<1> DEFINE r == run[s]
           t == r.txn
           o == r.to
           p == PayerOf[o]
           overflow == Overflowing(r)
           applied == Applying(r)
           new == [id |-> FreshId, txn |-> t, ob |-> o, payer |-> p,
                   applied |-> applied, credited |-> overflow]
           matched == [r.row EXCEPT !.status = "MATCHED", !.ob = o]
<1>1. /\ r \in Session /\ Shaped(r) /\ r.pc = "apply" /\ CurrentIn(r, txn, ob, credit, alloc)
      /\ TypeInv /\ Books
  BY CurrentNow DEF Apply
<1>2. TypeInv'
  BY <1>1, ApplyType
<1>3. /\ t \in Txns /\ r.row \in TxnRow /\ txn[t] \in TxnRow /\ p \in Payers
      /\ o \in Obs /\ ob[o] \in ObRow /\ Amount[t] \in Nat /\ Due[o] \in Nat
  BY <1>1 DEF Shaped, TypeInv, TypeOK
<1>4. /\ r.row = txn[t] /\ txn[t].status \notin Closed
      /\ overflow # 0 => r.credit = credit[p]
  BY <1>1, <1>3 DEF CurrentIn, Overflowing
<1>5. /\ txn' = [txn EXCEPT ![t] = Flush(@, r.row, matched)]
      /\ credit' = IF overflow = 0 THEN credit ELSE [credit EXCEPT ![p] = r.credit + overflow]
      /\ alloc' = alloc \cup {new}
  BY DEF Apply, Overflowing, Applying
<1>6. matched \in TxnRow /\ matched.status = "MATCHED" /\ matched.ob = o /\ matched.cp = txn[t].cp
  BY <1>3, <1>4 DEF TxnRow, Closed
<1>7. run'[s].pc \in {"again", "done"}
  BY <1>1 DEF Apply, Committed, Goto, TypeInv, TypeOK, Session
<1>8. BooksAt(o, ob, alloc) /\ MatchAt(t, txn, alloc)
  BY <1>1, <1>3, BooksParts, MatchParts DEF Books
<1>9. ob[o].paid \in Int
  BY <1>3 DEF ObRow
<1>10. /\ overflow \in Nat /\ applied \in Nat /\ overflow + applied = Amount[t]
       /\ ob[o].status # "ABSENT"
       /\ ob'[o].paid = ob[o].paid + applied
       /\ ob'[o].balance = Due[o] - (ob[o].paid + applied) /\ ob'[o].balance >= 0
       /\ ob'[o].status # "ABSENT" /\ StatusOf(ob'[o])
       /\ \A u \in Obs \ {o} : ob'[u] = ob[u]
  BY ApplyOb
<1>11. ob[o].paid >= AllocatedIn(o, alloc)
  BY <1>8, <1>10 DEF BooksAt
<1>12. new \in Allocation /\ new.txn = t /\ new.ob = o /\ new.applied = applied
       /\ new.credited = overflow
  BY <1>1, <1>3, <1>10, FreshIdIsFree DEF Allocation, TypeInv, AllocTyped
<1> HIDE DEF r, t, o, p, overflow, applied, new, matched
<1>13. txn'[t] = matched /\ \A v \in Txns \ {t} : txn'[v] = txn[v]
  <2>1. Flush(txn[t], r.row, matched) = matched
    BY <1>3, <1>4, <1>6, FlushTxn
  <2> QED
    BY <1>1, <1>3, <1>5, <2>1 DEF TypeInv, TypeOK
<1>15. {a \in alloc : a.txn = t} = {} /\ txn[t].status # "MATCHED" /\ ~txn[t].cp
  <2>1. txn[t].cp \in BOOLEAN
    BY <1>3 DEF TxnRow
  <2> QED
    BY <1>4, <1>8, <2>1 DEF MatchAt, Closed
<1>16. new \notin alloc
  BY <1>12, <1>15
<1>17. MatchRecorded'
  <2>1. ASSUME NEW v \in Txns \ {t} PROVE MatchAt(v, txn', alloc')
    <3>1. {a \in alloc' : a.txn = v} = {a \in alloc : a.txn = v}
      BY <1>5, <1>12
    <3>2. MatchAt(v, txn, alloc)
      BY <1>1, MatchParts DEF Books
    <3> QED
      BY <1>13, <3>1, <3>2, MatchKept
  <2>2. MatchAt(t, txn', alloc')
    <3>1. {a \in alloc' : a.txn = t} = {new} /\ new \in alloc'
      BY <1>5, <1>12, <1>15
    <3>2. txn'[t].status = "MATCHED" /\ txn'[t].ob = new.ob /\ ~txn'[t].cp
      BY <1>6, <1>12, <1>13, <1>15
    <3>3. new.applied >= 0 /\ new.credited >= 0 /\ new.applied + new.credited = Amount[t]
      BY <1>3, <1>10, <1>12
    <3> QED
      BY <3>1, <3>2, <3>3 DEF MatchAt
  <2> QED
    BY <1>3, <2>1, <2>2, MatchParts
<1>18. BooksAgree'
  <2>1. ASSUME NEW u \in Obs \ {o} PROVE BooksAt(u, ob', alloc')
    <3>1. {a \in alloc' : a.ob = u} = {a \in alloc : a.ob = u}
      BY <1>5, <1>12
    <3>2. BooksAt(u, ob, alloc) /\ ob'[u] = ob[u]
      BY <1>1, <1>10, BooksParts DEF Books
    <3> QED
      BY <1>1, <3>1, <3>2, BooksKept DEF Same, TypeInv
  <2>2. AllocatedIn(o, alloc') = AllocatedIn(o, alloc) + applied /\ AllocatedIn(o, alloc) \in Int
    BY <1>1, <1>5, <1>12, <1>16, AllocatedMore DEF TypeInv
  <2>3. BooksAt(o, ob', alloc')
    BY <1>3, <1>9, <1>10, <1>11, <2>2 DEF BooksAt
  <2> QED
    BY <1>3, <2>1, <2>3, BooksParts
<1>19. AbsentIsEmpty'
  BY <1>1, <1>5, <1>12, <1>10 DEF Books, AbsentIsEmpty, TypeInv, AllocTyped, Allocation
<1>20. MoneyKept'
  <2>1. Paid' = Paid + ob'[o].paid - ob[o].paid
    BY <1>1, <1>2, <1>3, <1>10, PaidChange
  <2>2. Held' = Held + overflow
    <3>1. CASE overflow = 0
      <4>1. credit' = credit
        BY <1>5, <3>1
      <4>2. Held' = Held
        BY <4>1 DEF Held
      <4> QED
        BY <1>1, <3>1, <4>2, MoneyType
    <3>2. CASE overflow # 0
      <4>1. credit[p] \in Int
        BY <1>1, <1>3 DEF TypeInv, TypeOK
      <4>2. credit[p] + overflow \in Int
        BY <1>10, <4>1
      <4>3. credit' = [credit EXCEPT ![p] = credit[p] + overflow]
        BY <1>4, <1>5, <3>2
      <4>4. Held' = Held + (credit[p] + overflow) - credit[p]
        BY <1>1, <1>2, <1>3, <4>2, <4>3, HeldChange
      <4> QED
        BY <1>1, <1>10, <4>1, <4>4, MoneyType
    <3> QED
      BY <3>1, <3>2
  <2>3. Brought' = Brought + Amount[t]
    BY <1>3, <1>6, <1>13, <1>15, BroughtMore
  <2>4. Paid + Held = Brought
    BY <1>1 DEF Books, MoneyKept
  <2>5. Paid' + Held' = Brought'
    BY <1>1, <1>3, <1>9, <1>10, <2>1, <2>2, <2>3, <2>4, MoneyType
  <2> QED
    BY <2>5 DEF MoneyKept
<1>21. Books'
  BY <1>17, <1>18, <1>19, <1>20 DEF Books
<1> QED
  BY <1>2, <1>7, <1>21, DoneCurrent, SerialBy

LEMMA UndoSerial ==
  ASSUME SerialInv, OneSession, NEW s \in Slots, Undo(s)
  PROVE  SerialInv'
<1> DEFINE r == run[s]
           t == r.txn
<1>1. /\ r \in Session /\ r.pc = "undo" /\ CurrentIn(r, txn, ob, credit, alloc)
      /\ t \in Txns /\ r.row \in TxnRow /\ TypeInv /\ Books
  BY CurrentNow DEF Undo, Shaped
<1>2. TypeInv'
  BY <1>1, UndoType
<1>3. r.row = txn[t] /\ txn[t] \in TxnRow /\ MatchAt(t, txn, alloc)
  BY <1>1, MatchParts DEF CurrentIn, Books, TypeInv, TypeOK
<1>4. UNCHANGED <<ob, credit, alloc>>
  BY DEF Undo
<1>5. ASSUME UNCHANGED txn, r.row.status = "MATCHED",
             NEW a \in {x \in alloc : x.txn = r.txn},
             run' = [run EXCEPT ![s].undo = a, ![s].obRow = ob[a.ob],
                                ![s].pc = IF a.credited > 0 THEN "undoPayer" ELSE "undone"]
      PROVE  SerialInv'
  <2> DEFINE pc == IF a.credited > 0 THEN "undoPayer" ELSE "undone"
             x == [r EXCEPT !.undo = a, !.obRow = ob[a.ob], !.pc = pc]
  <2>1. run'[s] = x
    BY <1>1, <1>5 DEF TypeInv, TypeOK
  <2>2. a.credited \in Nat
    BY <1>1 DEF TypeInv, AllocTyped
  <2>3. pc \in {"undoPayer", "undone"} /\ (pc = "undone" => a.credited = 0)
    BY <2>2
  <2>4. x.pc = pc /\ x.txn = t /\ x.row = r.row /\ x.undo = a /\ x.obRow = ob[a.ob]
    BY <1>1 DEF Session
  <2> HIDE DEF x, pc
  <2>5. a \in alloc /\ a.txn = t /\ txn[t].status = "MATCHED"
    BY <1>3, <1>5
  <2> HIDE DEF r, t
  <2>6. CurrentIn(x, txn, ob, credit, alloc)
    BY <1>3, <2>3, <2>4, <2>5 DEF CurrentIn, Same, Closed
  <2>7. UNCHANGED db
    BY <1>4, <1>5 DEF db
  <2> QED
    BY <1>2, <2>1, <2>6, <2>7, ReadBy
<1>6. ~(r.row.status = "MATCHED" /\ {x \in alloc : x.txn = r.txn} = {})
  BY <1>3 DEF MatchAt
<1>7. ASSUME r.row.status = "CATEGORIZED",
             txn' = [txn EXCEPT ![r.txn] =
                       Flush(@, r.row, [r.row EXCEPT !.cp = FALSE, !.status = "UNMATCHED"])],
             Goto(s, "target")
      PROVE  SerialInv'
  <2> DEFINE new == [r.row EXCEPT !.cp = FALSE, !.status = "UNMATCHED"]
             x   == [r EXCEPT !.pc = "target"]
  <2>1. new \in TxnRow /\ new.status = "UNMATCHED" /\ new.ob = txn[t].ob /\ ~new.cp
    BY <1>1, <1>3 DEF TxnRow
  <2>2. run'[s] = x
    BY <1>1, <1>7 DEF Goto, TypeInv, TypeOK
  <2>3. x.pc = "target" /\ x.txn = t /\ x.row = r.row
    BY <1>1 DEF Session
  <2>4. txn' = [txn EXCEPT ![t] = Flush(@, r.row, new)]
    BY <1>7
  <2>5. txn[t].status = "CATEGORIZED"
    BY <1>3, <1>7
  <2> HIDE DEF r, t, new, x
  <2>6. txn'[t] = new /\ \A v \in Txns \ {t} : txn'[v] = txn[v]
    <3>1. Flush(txn[t], r.row, new) = new
      BY <1>1, <1>3, <2>1, FlushTxn
    <3> QED
      BY <1>1, <2>4, <3>1 DEF TypeInv, TypeOK
  <2>7. MatchAt(t, txn', alloc')
    BY <1>3, <1>4, <2>1, <2>5, <2>6 DEF MatchAt
  <2>8. Books'
    BY <1>1, <1>4, <2>1, <2>5, <2>6, <2>7, BooksTxn
  <2>9. CurrentIn(x, txn', ob', credit', alloc')
    BY <1>3, <2>1, <2>3, <2>5, <2>6 DEF CurrentIn, Closed
  <2> QED
    BY <1>2, <2>2, <2>8, <2>9, SerialBy
<1> QED
  BY <1>5, <1>6, <1>7 DEF Undo

\* The rollback takes off the obligation exactly what its allocation put there.
LEMMA UndoneOb ==
  ASSUME SerialInv, NEW s \in Slots, Undone(s)
  PROVE  LET a == run[s].undo IN
         /\ a \in alloc /\ a.ob \in Obs /\ a.applied \in Nat
         /\ alloc' = alloc \ {a}
         /\ ob'[a.ob].paid = ob[a.ob].paid - a.applied
         /\ ob'[a.ob].balance = Due[a.ob] - (ob[a.ob].paid - a.applied)
         /\ ob'[a.ob].balance >= 0
         /\ ob'[a.ob].status # "ABSENT" /\ StatusOf(ob'[a.ob])
         /\ AllocatedIn(a.ob, alloc') = AllocatedIn(a.ob, alloc) - a.applied
         /\ ob'[a.ob].paid >= AllocatedIn(a.ob, alloc')
         /\ \A u \in Obs \ {a.ob} : ob'[u] = ob[u]
<1> USE ReconciliationAssumption
<1> DEFINE r == run[s]
           a == r.undo
           o == a.ob
           left == AfterUndo(o, r.obRow, a.applied)
<1>1. /\ r \in Session /\ Shaped(r) /\ r.pc = "undone" /\ CurrentIn(r, txn, ob, credit, alloc)
      /\ TypeInv /\ Books
  BY CurrentNow DEF Undone
<1>2. a \in alloc /\ a \in Allocation /\ r.obRow \in ObRow /\ a.applied \in Nat
  BY <1>1, AppliedNat DEF CurrentIn, Shaped, Books, TypeInv
<1>3. o \in Obs /\ ob[o] \in ObRow /\ Due[o] \in Nat
  BY <1>1, <1>2 DEF Allocation, TypeInv, TypeOK
<1>4. /\ r.obRow.paid = ob[o].paid /\ r.obRow.balance = ob[o].balance
      /\ Same(r.obRow, ob[o])
  BY <1>1 DEF CurrentIn, Same
<1>5. ob[o].status # "ABSENT"
  BY <1>1, <1>2 DEF Books, AbsentIsEmpty
<1>6. ob' = [ob EXCEPT ![o] = Flush(@, r.obRow, left)] /\ alloc' = alloc \ {a}
  BY DEF Undone
<1>7. ob[o].balance = Due[o] - ob[o].paid /\ ob[o].balance >= 0
      /\ ob[o].paid >= AllocatedIn(o, alloc) /\ ob[o].paid \in Int /\ ob[o].balance \in Int
  BY <1>1, <1>3, <1>5, BooksParts DEF Books, BooksAt, ObRow
<1>8. left \in ObRow
  <2>1. a.applied \in Int
    BY <1>2
  <2> QED
    BY <1>2, <1>3, <2>1, AfterType
<1>9. AllocatedIn(o, alloc') = AllocatedIn(o, alloc) - a.applied
      /\ AllocatedIn(o, alloc) \in Nat
  <2>1. AllocatedIn(o, alloc) \in Nat
    BY <1>1, AllocatedNat DEF TypeInv, Books
  <2> QED
    BY <1>1, <1>2, <1>6, <2>1, AllocatedLess DEF TypeInv
<1>10. AllocatedIn(o, alloc') >= 0
  <2> DEFINE S == {b \in alloc' : b.ob = o}
             f == [b \in alloc' |-> b.applied]
  <2>1. IsFiniteSet(S)
    <3>1. S \in SUBSET alloc
      BY <1>6
    <3> QED
      BY <1>1, <3>1, FS_Subset DEF TypeInv, AllocTyped
  <2>2. \A b \in S : f[b] \in Nat
    BY <1>1, <1>6, AppliedNat DEF TypeInv, Books
  <2>3. AllocatedIn(o, alloc') = SumOver(f, S)
    BY DEF AllocatedIn
  <2> HIDE DEF S, f
  <2>4. SumOver(f, S) \in Nat
    BY <2>1, <2>2, SumNat
  <2> QED
    BY <2>3, <2>4
<1> HIDE DEF r, a, o
<1>11. ob[o].paid >= a.applied
  BY <1>2, <1>7, <1>9, <1>10
<1>12. /\ left.paid = ob[o].paid - a.applied
       /\ left.balance = Due[o] - (ob[o].paid - a.applied)
       /\ left.status # "ABSENT" /\ StatusOf(left)
  BY <1>2, <1>4, <1>7, <1>11 DEF AfterUndo, StatusOf
<1> HIDE DEF left
<1>13. ob'[o] = Flush(ob[o], r.obRow, left) /\ \A u \in Obs \ {o} : ob'[u] = ob[u]
  BY <1>1, <1>3, <1>6 DEF TypeInv, TypeOK
<1>15. /\ ob'[o].paid = left.paid /\ ob'[o].balance = left.balance
       /\ ob'[o].status # "ABSENT" /\ StatusOf(ob'[o])
  BY <1>2, <1>3, <1>4, <1>5, <1>8, <1>12, <1>13, CommittedOb
<1>16. left.balance >= 0 /\ left.paid >= AllocatedIn(o, alloc')
  BY <1>2, <1>3, <1>7, <1>9, <1>12
<1> QED
  BY <1>2, <1>3, <1>6, <1>9, <1>12, <1>13, <1>15, <1>16 DEF a, o, r

LEMMA UndoneSerial ==
  ASSUME SerialInv, OneSession, NEW s \in Slots, Undone(s)
  PROVE  SerialInv'
<1> USE ReconciliationAssumption
<1> DEFINE r == run[s]
           t == r.txn
           a == r.undo
           o == a.ob
           p == a.payer
           freed == [r.row EXCEPT !.ob = Nothing, !.status = "UNMATCHED"]
           x == [r EXCEPT !.pc = "target"]
<1>1. /\ r \in Session /\ Shaped(r) /\ r.pc = "undone" /\ CurrentIn(r, txn, ob, credit, alloc)
      /\ TypeInv /\ Books
  BY CurrentNow DEF Undone
<1>2. TypeInv'
  BY <1>1, UndoneType
<1>3. /\ a \in alloc /\ a.txn = t /\ t \in Txns /\ txn[t].status = "MATCHED" /\ r.row = txn[t]
      /\ txn[t] \in TxnRow /\ a \in Allocation
      /\ a.credited # 0 => r.credit = credit[p]
  BY <1>1 DEF CurrentIn, Shaped, TypeInv, TypeOK
<1>4. /\ o \in Obs /\ a.applied \in Nat
      /\ alloc' = alloc \ {a}
      /\ ob'[o].paid = ob[o].paid - a.applied
      /\ ob'[o].balance = Due[o] - (ob[o].paid - a.applied)
      /\ ob'[o].balance >= 0
      /\ ob'[o].status # "ABSENT" /\ StatusOf(ob'[o])
      /\ ob'[o].paid >= AllocatedIn(o, alloc')
      /\ \A u \in Obs \ {o} : ob'[u] = ob[u]
  BY UndoneOb
<1>5. p \in Payers /\ a.credited \in Nat /\ Amount[t] \in Nat /\ ob[o].paid \in Int
  BY <1>1, <1>3, <1>4 DEF Allocation, TypeInv, AllocTyped, TypeOK, ObRow
<1>6. /\ txn' = [txn EXCEPT ![t] = Flush(@, r.row, freed)]
      /\ credit' = IF a.credited = 0 THEN credit
                   ELSE [credit EXCEPT ![p] = r.credit - a.credited]
  BY DEF Undone
<1>7. freed \in TxnRow /\ freed.status = "UNMATCHED" /\ freed.ob = Nothing /\ freed.cp = txn[t].cp
  BY <1>3 DEF TxnRow
<1>8. run'[s] = x
  BY <1>1 DEF Undone, Goto, TypeInv, TypeOK
<1>9. x.pc = "target" /\ x.txn = t /\ x.row = r.row
  BY <1>1 DEF Session
<1>10. MatchAt(t, txn, alloc)
  BY <1>1, <1>3, MatchParts DEF Books
<1> HIDE DEF r, t, a, o, p, freed, x
<1>11. txn'[t] = freed /\ \A v \in Txns \ {t} : txn'[v] = txn[v]
  <2>1. Flush(txn[t], r.row, freed) = freed
    BY <1>3, <1>7, FlushTxn
  <2> QED
    BY <1>1, <1>3, <1>6, <2>1 DEF TypeInv, TypeOK
<1>12. {b \in alloc : b.txn = t} = {a} /\ a.applied + a.credited = Amount[t] /\ ~txn[t].cp
  <2>1. a \in {b \in alloc : b.txn = t}
    BY <1>3
  <2>2. txn[t].cp \in BOOLEAN
    BY <1>3 DEF TxnRow
  <2> QED
    BY <1>3, <1>10, <2>1, <2>2 DEF MatchAt
<1>13. MatchRecorded'
  <2>1. ASSUME NEW v \in Txns \ {t} PROVE MatchAt(v, txn', alloc')
    <3>1. {b \in alloc' : b.txn = v} = {b \in alloc : b.txn = v}
      BY <1>3, <1>4
    <3>2. MatchAt(v, txn, alloc)
      BY <1>1, MatchParts DEF Books
    <3> QED
      BY <1>11, <3>1, <3>2, MatchKept
  <2>2. {b \in alloc' : b.txn = t} = {}
    BY <1>4, <1>12
  <2>3. MatchAt(t, txn', alloc')
    BY <1>7, <1>11, <1>12, <2>2 DEF MatchAt
  <2> QED
    BY <1>3, <2>1, <2>3, MatchParts
<1>14. BooksAgree'
  <2>1. ASSUME NEW u \in Obs \ {o} PROVE BooksAt(u, ob', alloc')
    <3>1. {b \in alloc' : b.ob = u} = {b \in alloc : b.ob = u}
      BY <1>4 DEF o
    <3>2. BooksAt(u, ob, alloc) /\ ob'[u] = ob[u]
      BY <1>1, <1>4, BooksParts DEF Books
    <3> QED
      BY <1>1, <3>1, <3>2, BooksKept DEF Same, TypeInv
  <2>2. BooksAt(o, ob', alloc')
    BY <1>4 DEF BooksAt
  <2> QED
    BY <1>4, <2>1, <2>2, BooksParts
<1>15. AbsentIsEmpty'
  BY <1>1, <1>4 DEF Books, AbsentIsEmpty, TypeInv, AllocTyped, Allocation
<1>16. MoneyKept'
  <2>1. Paid' = Paid + ob'[o].paid - ob[o].paid
    BY <1>1, <1>2, <1>4, PaidChange
  <2>2. Held' = Held - a.credited
    <3>1. CASE a.credited = 0
      <4>1. credit' = credit
        BY <1>6, <3>1
      <4>2. Held' = Held
        BY <4>1 DEF Held
      <4> QED
        BY <1>1, <3>1, <4>2, MoneyType
    <3>2. CASE a.credited # 0
      <4>1. credit[p] \in Int
        BY <1>1, <1>5 DEF TypeInv, TypeOK
      <4>2. credit[p] - a.credited \in Int
        BY <1>5, <4>1
      <4>3. credit' = [credit EXCEPT ![p] = credit[p] - a.credited]
        BY <1>3, <1>6, <3>2
      <4>4. Held' = Held + (credit[p] - a.credited) - credit[p]
        BY <1>1, <1>2, <1>5, <4>2, <4>3, HeldChange
      <4> QED
        BY <1>1, <1>5, <4>1, <4>4, MoneyType
    <3> QED
      BY <3>1, <3>2
  <2>3. Brought' = Brought - Amount[t]
    <3>1. txn'[t].status # "MATCHED"
      BY <1>7, <1>11
    <3> QED
      BY <1>3, <1>11, <3>1, BroughtLess
  <2>4. Paid + Held = Brought
    BY <1>1 DEF Books, MoneyKept
  <2>5. Paid' + Held' = Brought'
    BY <1>1, <1>4, <1>5, <1>12, <2>1, <2>2, <2>3, <2>4, MoneyType
  <2> QED
    BY <2>5 DEF MoneyKept
<1>17. Books'
  BY <1>13, <1>14, <1>15, <1>16 DEF Books
<1>18. CurrentIn(x, txn', ob', credit', alloc')
  BY <1>3, <1>7, <1>9, <1>11 DEF CurrentIn, Closed
<1> QED
  BY <1>2, <1>8, <1>17, <1>18, SerialBy

\* A new obligation starts with the credit it could use.
LEMMA CreatedOb ==
  ASSUME SerialInv, NEW s \in Slots, Created(s)
  PROVE  LET o == run[s].to IN
         /\ o \in Obs /\ ob[o].paid = 0 /\ ob'[o].paid \in Nat
         /\ \A u \in Obs \ {o} : ob'[u] = ob[u]
<1> USE ReconciliationAssumption
<1> DEFINE r == run[s]
           o == r.to
           usage == IF r.credit <= 0 THEN 0
                    ELSE IF r.credit < Due[o] THEN r.credit ELSE Due[o]
<1>1. /\ Shaped(r) /\ r.pc = "create" /\ CurrentIn(r, txn, ob, credit, alloc)
      /\ TypeInv /\ Books
  BY CurrentNow DEF Created
<1>2. o \in Obs /\ Due[o] \in Nat /\ r.credit \in Int /\ ob[o].paid = 0
  BY <1>1 DEF Shaped, CurrentIn, Books, AbsentIsEmpty
<1>3. ob'[o].paid = usage /\ \A u \in Obs \ {o} : ob'[u] = ob[u]
  BY <1>1, <1>2 DEF Created, TypeInv, TypeOK
<1>4. usage \in Nat
  BY <1>2
<1> QED
  BY <1>2, <1>3, <1>4

LEMMA CreatedSerial ==
  ASSUME SerialInv, OneSession, NEW s \in Slots, Created(s)
  PROVE  SerialInv'
<1> USE ReconciliationAssumption
<1> DEFINE r == run[s]
           o == r.to
           p == PayerOf[o]
           usage == IF r.credit <= 0 THEN 0
                    ELSE IF r.credit < Due[o] THEN r.credit ELSE Due[o]
           row == [status  |-> IF usage = Due[o] THEN "SETTLED"
                               ELSE IF usage > 0 THEN "PARTIAL" ELSE "PENDING",
                   paid    |-> usage,
                   balance |-> Due[o] - usage]
<1>1. /\ r \in Session /\ Shaped(r) /\ r.pc = "create" /\ CurrentIn(r, txn, ob, credit, alloc)
      /\ TypeInv /\ Books
  BY CurrentNow DEF Created
<1>2. TypeInv'
  BY <1>1, CreatedType
<1>3. /\ o \in Obs /\ p \in Payers /\ Due[o] \in Nat /\ r.credit \in Int
      /\ r.credit = credit[p] /\ ob[o].status = "ABSENT"
  BY <1>1 DEF Shaped, CurrentIn
<1>4. usage \in Nat /\ usage <= Due[o] /\ (usage = 0 => credit[p] = credit[p] - usage)
  BY <1>3
<1>5. /\ ob' = [ob EXCEPT ![o] = row]
      /\ credit' = [credit EXCEPT ![p] = FlushValue(@, r.credit, r.credit - usage)]
      /\ UNCHANGED <<txn, alloc>>
  BY DEF Created
<1>6. run'[s] = Idle
  BY <1>1 DEF Created, TypeInv, TypeOK
<1>7. row.paid = usage /\ row.balance = Due[o] - usage /\ row.status # "ABSENT" /\ StatusOf(row)
  <2> HIDE DEF usage, r, o
  <2>1. usage > 0 \/ usage = 0
    BY <1>4
  <2> QED
    BY <1>3, <1>4, <2>1 DEF StatusOf
<1> HIDE DEF r, o, p, usage, row
<1>8. ob'[o] = row /\ \A u \in Obs \ {o} : ob'[u] = ob[u]
  BY <1>1, <1>3, <1>5 DEF TypeInv, TypeOK
<1>9. credit' = [credit EXCEPT ![p] = credit[p] - usage]
  <2>1. FlushValue(credit[p], r.credit, r.credit - usage) = credit[p] - usage
    BY <1>3, <1>4 DEF FlushValue
  <2> QED
    BY <1>1, <1>3, <1>5, <2>1 DEF TypeInv, TypeOK
<1>10. ob[o].paid = 0 /\ \A a \in alloc : a.ob # o
  BY <1>1, <1>3 DEF Books, AbsentIsEmpty
<1>11. MatchRecorded'
  BY <1>1, <1>5 DEF Books, MatchRecorded, MatchAt
<1>12. BooksAgree'
  <2>1. ASSUME NEW u \in Obs \ {o} PROVE BooksAt(u, ob', alloc')
    <3>1. BooksAt(u, ob, alloc) /\ ob'[u] = ob[u]
      BY <1>1, <1>8, BooksParts DEF Books
    <3> QED
      BY <1>1, <1>5, <3>1, BooksKept DEF Same, TypeInv
  <2>2. AllocatedIn(o, alloc') = 0
    <3> DEFINE f == [a \in alloc |-> a.applied]
    <3>1. {a \in alloc : a.ob = o} = {}
      BY <1>10
    <3>2. AllocatedIn(o, alloc) = SumOver(f, {})
      BY <3>1 DEF AllocatedIn
    <3> HIDE DEF f
    <3> QED
      BY <1>5, <3>2, SumEmpty
  <2>3. BooksAt(o, ob', alloc')
    BY <1>3, <1>4, <1>7, <1>8, <2>2 DEF BooksAt
  <2> QED
    BY <1>3, <2>1, <2>3, BooksParts
<1>13. AbsentIsEmpty'
  BY <1>1, <1>5, <1>7, <1>8, <1>10 DEF Books, AbsentIsEmpty, TypeInv, AllocTyped, Allocation
<1>14. MoneyKept'
  <2>1. Paid' = Paid + ob'[o].paid - ob[o].paid
    BY <1>1, <1>2, <1>3, <1>8, PaidChange
  <2>2. credit[p] \in Int
    BY <1>1, <1>3 DEF TypeInv, TypeOK
  <2>3. credit[p] - usage \in Int
    BY <1>4, <2>2
  <2>4. Held' = Held + (credit[p] - usage) - credit[p]
    BY <1>1, <1>2, <1>3, <1>9, <2>3, HeldChange
  <2>5. Brought' = Brought
    BY <1>5 DEF Brought
  <2>6. Paid + Held = Brought
    BY <1>1 DEF Books, MoneyKept
  <2>7. Paid' + Held' = Brought'
    BY <1>1, <1>4, <1>7, <1>8, <1>10, <2>1, <2>2, <2>4, <2>5, <2>6, MoneyType
  <2> QED
    BY <2>7 DEF MoneyKept
<1>15. Books'
  BY <1>11, <1>12, <1>13, <1>14 DEF Books
<1> QED
  BY <1>2, <1>6, <1>15, IdleCurrent, SerialBy

\* cancel_obligation goes on beside the session, and changes only the status.
LEMMA CancelSerial ==
  ASSUME SerialInv, NEW o \in Obs, Cancel(o)
  PROVE  SerialInv'
<1>1. TypeInv /\ Books
  BY DEF SerialInv, Books
<1>2. TypeInv'
  BY <1>1, CancelType
<1>3. ob' = [ob EXCEPT ![o].status = "VOIDED"] /\ ob[o].status # "ABSENT"
      /\ UNCHANGED <<txn, credit, alloc, run>>
  BY DEF Cancel, Open
<1>4. \A u \in Obs : Same(ob[u], ob'[u])
                     /\ (ob'[u].status = "ABSENT" <=> ob[u].status = "ABSENT")
  <2> SUFFICES ASSUME NEW u \in Obs
               PROVE  Same(ob[u], ob'[u]) /\ (ob'[u].status = "ABSENT" <=> ob[u].status = "ABSENT")
    OBVIOUS
  <2>1. ob[u] \in ObRow
    BY <1>1 DEF TypeInv, TypeOK
  <2>2. ob'[u] = IF u = o THEN [ob[u] EXCEPT !.status = "VOIDED"] ELSE ob[u]
    BY <1>1, <1>3 DEF TypeInv, TypeOK
  <2> QED
    BY <1>3, <2>1, <2>2 DEF Same, ObRow
<1>5. MatchRecorded'
  BY <1>1, <1>3 DEF Books, MatchRecorded, MatchAt
<1>6. BooksAgree'
  BY <1>1, <1>3, <1>4, BooksKept, BooksParts DEF Books, TypeInv
<1>7. AbsentIsEmpty'
  BY <1>1, <1>3, <1>4 DEF Books, AbsentIsEmpty, Same, TypeInv, AllocTyped, Allocation
<1>8. MoneyKept'
  <2>1. \A u \in Obs : ob'[u].paid = ob[u].paid
    BY <1>4 DEF Same
  <2>2. Paid' = Paid
    BY <2>1, PaidSame
  <2>3. Held' = Held /\ Brought' = Brought
    BY <1>3 DEF Held, Brought
  <2>4. Paid' + Held' = Brought'
    BY <1>1, <2>2, <2>3 DEF Books, MoneyKept
  <2> QED
    BY <2>4 DEF MoneyKept
<1>9. ASSUME NEW s \in Slots PROVE Current(run[s])'
  <2> DEFINE r == run[s]
  <2>1. Shaped(r) /\ CurrentIn(r, txn, ob, credit, alloc)
    BY CurrentNow
  <2>2. r.pc \in {"undoPayer", "undone"} => r.undo.ob \in Obs
    BY <2>1 DEF Shaped, Allocation
  <2>3. r.pc \in {"apply", "overflow", "create"} => r.to \in Obs
    BY <2>1 DEF Shaped
  <2> HIDE DEF r
  <2>4. CurrentIn(r, txn, ob', credit, alloc)
    BY <1>4, <2>1, <2>2, <2>3 DEF CurrentIn, Same
  <2> QED
    BY <1>3, <2>4 DEF Current, r
<1> QED
  BY <1>2, <1>5, <1>6, <1>7, <1>8, <1>9 DEF SerialInv

\* Requests, repeated events and restarts leave the tables alone.
LEMMA BusSerial ==
  ASSUME SerialInv, TypeInv', UNCHANGED db,
         \A s \in Slots : run'[s] \in {run[s], Idle}
  PROVE  SerialInv'
<1>1. Books'
  BY BooksRead
<1>2. ASSUME NEW s \in Slots PROVE Current(run[s])'
  <2>1. CurrentIn(run[s], txn, ob, credit, alloc) /\ CurrentIn(Idle, txn, ob, credit, alloc)
    BY CurrentNow, IdleCurrent
  <2>2. CurrentIn(run'[s], txn, ob, credit, alloc)
    BY <2>1
  <2> QED
    BY <2>2 DEF Current, db
<1> QED
  BY <1>1, <1>2 DEF SerialInv, Books

LEMMA SerialStep ==
  ASSUME SerialInv, OneSession, [Next]_vars
  PROVE  SerialInv'
<1>1. TypeInv'
  BY TypeStep DEF SerialInv
<1>2. CASE UNCHANGED vars
  BY <1>1, <1>2, BusSerial DEF vars
<1>3. CASE \E t \in Txns, to \in Targets : Ask(t, to)
  BY <1>1, <1>3, BusSerial DEF Ask
<1>4. CASE \E t \in Txns : Repeat(t)
  BY <1>1, <1>4, BusSerial DEF Repeat
<1>5. CASE WorkerCrash
  <2>1. \A s \in Slots : run'[s] \in {run[s], Idle}
    BY <1>5 DEF WorkerCrash
  <2> QED
    BY <1>1, <1>5, <2>1, BusSerial DEF WorkerCrash
<1>6. CASE \E s \in Slots : Step(s)
  BY <1>6, RouteSerial, PickSerial, UnmatchedSerial, ApplySerial, CategorizedSerial, UndoSerial,
     UndoPayerSerial, UndoneSerial, TargetSerial, OverflowSerial, AgainSerial, DoneSerial,
     CreatedSerial DEF Step
<1> QED
  BY <1>2, <1>3, <1>4, <1>5, <1>6, ReconcileSerial, MatchSerial, CreateSerial, CancelSerial DEF Next

LEMMA SerialHolds ==
  ASSUME OneSession, NoLegacy
  PROVE  Spec => []SerialInv
<1>1. Init => SerialInv
  BY SerialInit
<1>2. SerialInv /\ [Next]_vars => SerialInv'
  BY SerialStep
<1> QED
  BY <1>1, <1>2, PTL DEF Spec

\* With one session at a time no money is made or lost by _apply_payment,
\* rollback_payment and apply_credit_to_obligation, whatever the amounts, the
\* order of payments, matches and cancellations, and the restarts between them.
THEOREM MoneyStays ==
  ASSUME OneSession, NoLegacy
  PROVE  Spec => []MoneyConserved
<1>1. SerialInv => MoneyConserved
  <2>1. {t \in Txns : Legacy[t] # Nothing /\ ~Unrecorded(t)} = {}
    BY DEF NoLegacy
  <2>2. SumOver(Amount, {t \in Txns : Legacy[t] # Nothing /\ ~Unrecorded(t)}) = 0
    BY <2>1, SumEmpty
  <2>3. SerialInv => Brought \in Int
    BY MoneyType DEF SerialInv
  <2> QED
    BY <2>2, <2>3 DEF SerialInv, MoneyKept, MoneyConserved, Paid, Held, Brought
<1> QED
  BY <1>1, SerialHolds, PTL

\* With one session at a time the transaction names the obligation its money went
\* to, and has the one allocation that says how much of it.
THEOREM MatchHasAllocation ==
  ASSUME OneSession, NoLegacy
  PROVE  Spec => []MatchIsAllocated
<1>1. SerialInv => MatchIsAllocated
  BY DEF SerialInv, MatchRecorded, MatchAt, MatchIsAllocated, AllocationsOf
<1> QED
  BY <1>1, SerialHolds, PTL

\* With one session at a time balance and amount_paid add up to amount_due, the
\* balance is never negative, what is allocated has been paid, and a row is SETTLED
\* only with nothing left, PARTIAL only with something paid, PENDING only with
\* nothing paid.
THEOREM BooksBalance ==
  ASSUME OneSession, NoLegacy
  PROVE  Spec => []BooksAgree
<1>1. SerialInv => BooksAgree
  BY DEF SerialInv
<1> QED
  BY <1>1, SerialHolds, PTL

\* With one session at a time only rollback_payment takes money off an
\* obligation, what its allocation put there and no more.
THEOREM PaidLeavesOnlyByUndo ==
  ASSUME OneSession, NoLegacy
  PROVE  Spec => PaidLeavesWithAllocation
<1> DEFINE Leaves == \A o \in Obs :
             ob'[o].paid < ob[o].paid =>
               \E a \in alloc \ alloc' : a.ob = o /\ ob[o].paid - ob'[o].paid = a.applied
<1>1. ASSUME SerialInv, [Next]_vars PROVE [Leaves]_vars
  <2> SUFFICES ASSUME NEW o \in Obs, ob'[o].paid < ob[o].paid
               PROVE  \E a \in alloc \ alloc' : a.ob = o /\ ob[o].paid - ob'[o].paid = a.applied
    OBVIOUS
  <2>1. ob[o].paid \in Int
    BY <1>1 DEF SerialInv, TypeInv, TypeOK, ObRow
  <2>2. CASE ob'[o].paid = ob[o].paid
    BY <2>1, <2>2
  <2>3. ASSUME NEW s \in Slots, Apply(s) PROVE FALSE
    <3> DEFINE u == run[s].to
    <3>1. /\ u \in Obs /\ Applying(run[s]) \in Nat
          /\ ob'[u].paid = ob[u].paid + Applying(run[s])
          /\ \A v \in Obs \ {u} : ob'[v] = ob[v]
      BY <1>1, <2>3, ApplyOb
    <3> HIDE DEF u
    <3>2. o = u
      BY <2>1, <3>1
    <3> QED
      BY <2>1, <3>1, <3>2
  <2>4. ASSUME NEW s \in Slots, Created(s) PROVE FALSE
    <3> DEFINE u == run[s].to
    <3>1. /\ u \in Obs /\ ob[u].paid = 0 /\ ob'[u].paid \in Nat
          /\ \A v \in Obs \ {u} : ob'[v] = ob[v]
      BY <1>1, <2>4, CreatedOb
    <3> HIDE DEF u
    <3>2. o = u
      BY <2>1, <3>1
    <3> QED
      BY <2>1, <3>1, <3>2
  <2>5. ASSUME NEW u \in Obs, Cancel(u) PROVE ob'[o].paid = ob[o].paid
    <3>1. ob[o] \in ObRow /\ ob'[o] = IF u = o THEN [ob[o] EXCEPT !.status = "VOIDED"] ELSE ob[o]
      BY <1>1, <2>5 DEF Cancel, SerialInv, TypeInv, TypeOK
    <3> QED
      BY <3>1 DEF ObRow
  <2>6. ASSUME NEW s \in Slots, Undone(s)
        PROVE  \E a \in alloc \ alloc' : a.ob = o /\ ob[o].paid - ob'[o].paid = a.applied
    <3> DEFINE a == run[s].undo
    <3>1. /\ a \in alloc /\ a.ob \in Obs /\ a.applied \in Nat
          /\ alloc' = alloc \ {a} /\ ob'[a.ob].paid = ob[a.ob].paid - a.applied
          /\ \A u \in Obs \ {a.ob} : ob'[u] = ob[u]
      BY <1>1, <2>6, UndoneOb
    <3> HIDE DEF a
    <3>2. o = a.ob
      BY <2>1, <3>1
    <3>3. ob[o].paid - ob'[o].paid = a.applied
      BY <2>1, <3>1, <3>2
    <3> QED
      BY <3>1, <3>2, <3>3
  <2>7. ASSUME UNCHANGED ob PROVE ob'[o].paid = ob[o].paid
    BY <2>7
  <2>8. \/ UNCHANGED ob
        \/ \E s \in Slots : Apply(s) \/ Created(s) \/ Undone(s)
        \/ \E u \in Obs : Cancel(u)
    BY <1>1 DEF Next, Step, vars, db, Reconcile, Match, Create, Route, Pick, Unmatched,
       Categorized, Undo, UndoPayer, Target, Overflow, Again, Done, Ask, Repeat, WorkerCrash
  <2> QED
    BY <2>2, <2>3, <2>4, <2>5, <2>6, <2>7, <2>8
<1> QED
  BY <1>1, SerialHolds, PTL DEF Spec, PaidLeavesWithAllocation
=============================================================================
