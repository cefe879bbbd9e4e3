----------------------------- MODULE MCBilling -----------------------------
(* Small instances of Billing for TLC: a fee of 1, a starter plan that needs *)
(* 2 in the wallet and a second plan that needs 3, top-ups of 3.             *)
EXTENDS Billing, TLC

MCMinimum    == ("starter" :> 2) @@ ("pro" :> 3)
MCMonthlyFee == ("starter" :> 1) @@ ("pro" :> 2)
MCOneMinimum    == "starter" :> 2
MCOneMonthlyFee == "starter" :> 2
MCTopups     == "r1" :> 3
=============================================================================
