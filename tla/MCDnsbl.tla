------------------------------ MODULE MCDnsbl ------------------------------
(* The instance of Dnsbl for TLC. *)
EXTENDS Dnsbl

CONSTANTS p1, p2, k1
===========================================================================
