----------------------------- MODULE MCReload -----------------------------
(* The instance of Reload for TLC: the bounds are in the cfg files. *)
EXTENDS Reload
===========================================================================
