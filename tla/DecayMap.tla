----------------------------- MODULE DecayMap -----------------------------
(***************************************************************************)
(* utils.DecayMap: the cache behind the dnsbl runtime and the tag cache.   *)
(* Goroutines call Get and Set at any time while a ticker calls Decay.     *)
(* The lock makes each critical section one step; Get has two of them,     *)
(* and reads the clock in between.                                         *)
(***************************************************************************)
EXTENDS Naturals

CONSTANTS Keys, Values, NoEntry,
          TTLs,     \* the ttl arguments in use
          Procs,    \* the goroutines that use the map
          MaxTime   \* bound on the clock

VARIABLES now,      \* the clock
          map,      \* m.data
          get,      \* get[p]: where p is inside Get, and the entry it read
          found     \* found[p]: what p's last Get returned, or NoEntry

vars == <<now, map, get, found>>

Entry == [value : Values, expiry : Nat]

ASSUME DecayMapAssumption ==
    TTLs \subseteq Nat /\ NoEntry \notin Entry /\ MaxTime \in Nat

\* "out": not in Get; "read": holds a copy of the entry; "stale": found the
\* copy expired and is about to take the write lock.
Out == [at |-> "out"]
Reading == [at : {"read", "stale"}, key : Keys, entry : Entry]

After(t, expiry) == t > expiry

Init == /\ now = 0
        /\ map = [k \in Keys |-> NoEntry]
        /\ get = [p \in Procs |-> Out]
        /\ found = [p \in Procs |-> NoEntry]

Tick == now < MaxTime /\ now' = now + 1 /\ UNCHANGED <<map, get, found>>

\* Get, the read-locked lookup: a missing key is reported at once.
GetRead(p, k) ==
    /\ get[p] = Out
    /\ IF map[k] = NoEntry
       THEN found' = [found EXCEPT ![p] = NoEntry] /\ get' = get
       ELSE /\ get' = [get EXCEPT ![p] = [at |-> "read", key |-> k, entry |-> map[k]]]
            /\ found' = found
    /\ UNCHANGED <<now, map>>

\* Get, the comparison with the clock, outside of any lock.
GetCheck(p) ==
    /\ get[p] # Out /\ get[p].at = "read"
    /\ IF After(now, get[p].entry.expiry)
       THEN /\ get' = [get EXCEPT ![p] = [at |-> "stale", key |-> get[p].key,
                                          entry |-> get[p].entry]]
            /\ found' = found
       ELSE get' = [get EXCEPT ![p] = Out] /\ found' = [found EXCEPT ![p] = get[p].entry]
    /\ UNCHANGED <<now, map>>

\* Mutation: the entry is deleted without looking at it again.
DeleteUnchecked(p) ==
    /\ get[p] # Out /\ get[p].at = "stale"
    /\ map' = [map EXCEPT ![get[p].key] = NoEntry]
    /\ get' = [get EXCEPT ![p] = Out]
    /\ found' = [found EXCEPT ![p] = NoEntry]
    /\ UNCHANGED now

\* Get, the write-locked deletion of an expired entry.
GetDelete(p) ==
    /\ get[p] # Out /\ get[p].at = "stale"
    /\ map' = IF map[get[p].key] # NoEntry /\ map[get[p].key].expiry = get[p].entry.expiry
              THEN [map EXCEPT ![get[p].key] = NoEntry]
              ELSE map
    /\ get' = [get EXCEPT ![p] = Out]
    /\ found' = [found EXCEPT ![p] = NoEntry]
    /\ UNCHANGED now

\* Mutation: the ttl is subtracted.
SetInPast(p, k, v, ttl) ==
    /\ get[p] = Out
    /\ map' = [map EXCEPT ![k] = [value |-> v, expiry |-> now - ttl]]
    /\ UNCHANGED <<now, get, found>>

Set(p, k, v, ttl) ==
    /\ get[p] = Out
    /\ map' = [map EXCEPT ![k] = [value |-> v, expiry |-> now + ttl]]
    /\ UNCHANGED <<now, get, found>>

\* Mutation: entries are dropped in the second they expire.
DecayEarly ==
    /\ map' = [k \in Keys |-> IF map[k] # NoEntry /\ now >= map[k].expiry
                              THEN NoEntry ELSE map[k]]
    /\ UNCHANGED <<now, get, found>>

\* Mutation: the sweep removes nothing.
DecayNothing == UNCHANGED vars

\* The ticker's sweep, one critical section.
Decay ==
    /\ map' = [k \in Keys |-> IF map[k] # NoEntry /\ After(now, map[k].expiry)
                              THEN NoEntry ELSE map[k]]
    /\ UNCHANGED <<now, get, found>>

Next ==
    \/ Tick
    \/ Decay
    \/ \E p \in Procs : \/ \E k \in Keys : GetRead(p, k)
                        \/ GetCheck(p)
                        \/ GetDelete(p)
                        \/ \E k \in Keys, v \in Values, ttl \in TTLs : Set(p, k, v, ttl)

Spec == Init /\ [][Next]_vars

\* The ticker of the map's owner keeps firing until the owner is closed.
FairSpec == Spec /\ WF_vars(Decay)

---------------------------------------------------------------------------
\* Every variable has its type.
TypeOK ==
    /\ now \in Nat
    /\ map \in [Keys -> Entry \cup {NoEntry}]
    /\ get \in [Procs -> {Out} \cup Reading]
    /\ found \in [Procs -> Entry \cup {NoEntry}]

\* A Get about to delete has seen its entry expired, and time does not go
\* back.  With TypeOK this is the inductive invariant behind NoFreshLoss.
StaleIsExpired ==
    \A p \in Procs : get[p] # Out /\ get[p].at = "stale" => After(now, get[p].entry.expiry)

\* No interleaving of Get, Set and Decay loses an entry that has not
\* expired: a Get that found the old entry expired never deletes the one
\* another goroutine has just set.
NoFreshLoss ==
    [][\A k \in Keys : map[k] # NoEntry /\ map'[k] = NoEntry => After(now, map[k].expiry)]_vars

\* The map keeps the promise of TTLMap.
TTL == INSTANCE TTLMap
ImplementsTTLMap == TTL!Spec

\* An expired entry does not stay: the sweep or a Get removes it, or a Set
\* replaces it.
ExpiredEntryLeaves ==
    \A k \in Keys : (map[k] # NoEntry /\ After(now, map[k].expiry)) ~>
                    (map[k] = NoEntry \/ ~After(now, map[k].expiry))
===========================================================================
