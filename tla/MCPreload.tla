----------------------------- MODULE MCPreload -----------------------------
(* The instance of Preload for TLC. *)
EXTENDS Preload

CONSTANTS w1, w2, s1, s2, four, six
===========================================================================
