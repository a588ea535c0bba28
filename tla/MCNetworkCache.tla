-------------------------- MODULE MCNetworkCache --------------------------
(* The instance of NetworkCache for TLC. *)
EXTENDS NetworkCache, TLC

MCEntries == <<"url">>
\* The last publication holds nothing that matches.
MCSize == <<2, 1, 0>>

Symmetry == Permutations(States)
===========================================================================
