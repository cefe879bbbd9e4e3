--------------------------- MODULE PaymentLedger ---------------------------
(***************************************************************************)
(* What the ingestion pipeline promises about a payment, without saying    *)
(* how: every payment a PSP reports, or a business types in, is credited   *)
(* at most once, to one place, and a credit given by the pipeline is       *)
(* never taken back.                                                       *)
(*                                                                         *)
(* An entry <<r, n>> is a credit recorded against transaction row r:       *)
(* n = 0 is the link to a collection point, n > 0 the n-th                 *)
(* TransactionAllocation of the row.                                       *)
(***************************************************************************)
EXTENDS Naturals

CONSTANTS Rows,       \* transaction rows the pipeline may create
          PaymentOf   \* the payment a row records

VARIABLE ledger       \* the credits given so far

Init == ledger = {}

\* Credit the payment behind row r, unless it has been credited already.
Post(r) ==
  /\ \A e \in ledger : PaymentOf[e[1]] # PaymentOf[r]
  /\ \E n \in {0, 1} : ledger' = ledger \cup {<<r, n>>}

Next == \E r \in Rows : Post(r)

Spec == Init /\ [][Next]_ledger
=============================================================================
