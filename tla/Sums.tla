--------------------------------- MODULE Sums ---------------------------------
(* Sums over a finite set of what a function gives for its elements. *)
EXTENDS Integers, FiniteSets, FiniteSetsExt

SumOver(f, S) == MapThenSumSet(LAMBDA x : f[x], S)
===============================================================================
