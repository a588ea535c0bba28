------------------------------ MODULE TTLMap ------------------------------
(***************************************************************************)
(* What a map with expiring entries promises its users: a value stays      *)
(* under its key until it is replaced or its time is over.                 *)
(***************************************************************************)
EXTENDS Naturals

CONSTANTS Keys, Values, TTLs, NoEntry

VARIABLES now,  \* the clock
          map   \* map[k]: the entry of k, or NoEntry

Entry == [value : Values, expiry : Nat]

Init == now = 0 /\ map = [k \in Keys |-> NoEntry]

Expired(k) == map[k] # NoEntry /\ map[k].expiry < now

Put == /\ \E k \in Keys, v \in Values, ttl \in TTLs :
            map' = [map EXCEPT ![k] = [value |-> v, expiry |-> now + ttl]]
       /\ now' = now

\* Any number of expired entries may go at any time.
Expire == /\ \E gone \in SUBSET {k \in Keys : Expired(k)} :
               map' = [k \in Keys |-> IF k \in gone THEN NoEntry ELSE map[k]]
          /\ now' = now

Advance == now' = now + 1 /\ map' = map

Next == Put \/ Expire \/ Advance

Spec == Init /\ [][Next]_<<now, map>>
===========================================================================
