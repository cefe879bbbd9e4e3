-------------------------- MODULE MCReconciliation --------------------------
(* Small instances of Reconciliation for TLC: one payer with an obligation  *)
(* of 3, of which t1 paid 2 before the table of allocations existed, and a  *)
(* later one of 4; t2 is a new transaction of 3, which exceeds what is open *)
(* of the first and fits the second.                                        *)
EXTENDS Reconciliation, TLC

MCAmount   == ("t1" :> 2) @@ ("t2" :> 3)
MCDue      == ("o1" :> 3) @@ ("o2" :> 4)
MCPayerOf  == [o \in {"o1", "o2"} |-> "p1"]
MCRank     == ("o1" :> 1) @@ ("o2" :> 2)
MCLegacy   == ("t1" :> "o1") @@ ("t2" :> Nothing)
MCRoutesTo == ("t1" :> {"p1", "cp"}) @@ ("t2" :> {"p1", "nobody"})

\* Two new payments of one obligation.
MCOneDue     == "o1" :> 4
MCOnePayerOf == "o1" :> "p1"
MCOneRank    == "o1" :> 1
MCNoLegacy   == [t \in {"t1", "t2"} |-> Nothing]
MCOnlyPayer  == [t \in {"t1", "t2"} |-> {"p1"}]
=============================================================================
