---------------------------- MODULE MCReadModels -----------------------------
(* A small instance of ReadModels for TLC: the lives are in the right order only. *)
EXTENDS ReadModels, TLC

\* 30 seconds, 60 and 300, in this order.
MCLife == [p \in Pages |-> IF p = "board" THEN 1
                           ELSE IF p \in {"metrics", "accounts", "trends", "peaks"} THEN 3 ELSE 2]
Symmetry == Permutations(Slots)
=============================================================================
