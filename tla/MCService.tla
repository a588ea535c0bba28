----------------------------- MODULE MCService -----------------------------
(* The instance of Service for TLC: the bounds are in the cfg file. *)
EXTENDS Service, TLC

CONSTANTS r1, r2

Symmetry == Permutations(Requests)
===========================================================================
