------------------------- MODULE MCPaymentPipeline -------------------------
(* Small instances of PaymentPipeline for TLC.  c1 and c2 are two          *)
(* deliveries of the callback of payment p1, m2 is a manual entry of p3     *)
(* without any reference.                                                   *)
EXTENDS PaymentPipeline, TLC

MCTwicePaymentOf == [s \in {"c1", "c2"} |-> "p1"]
MCTwiceRefOf     == [s \in {"c1", "c2"} |-> "ref1"]

MCApartPaymentOf == [s \in {"c1", "c2"} |-> "p1"] @@ ("m2" :> "p3")
MCApartRefOf     == [s \in {"c1", "c2"} |-> "ref1"] @@ ("m2" :> NullRef)
=============================================================================
