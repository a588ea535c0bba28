-------------------------- MODULE DecayMapProofs --------------------------
(***************************************************************************)
(* Proofs about DecayMap and about the dnsbl runtime on top of it, for any *)
(* sets of goroutines, keys, values and ttls and any bound on the clock.   *)
(***************************************************************************)
EXTENDS Dnsbl, TLAPS

Inv == TypeOK /\ StaleIsExpired

LEMMA StepTypeOK == TypeOK /\ [Next]_vars => TypeOK'
<1> SUFFICES ASSUME TypeOK, [Next]_vars PROVE TypeOK'
  OBVIOUS
<1> USE DecayMapAssumption DEF TypeOK
<1>1. CASE Tick
  BY <1>1 DEF Tick
<1>2. CASE Decay
  BY <1>2 DEF Decay
<1>3. ASSUME NEW p \in Procs, NEW k \in Keys, GetRead(p, k) PROVE TypeOK'
  <2>1. CASE map[k] = NoEntry
    BY <1>3, <2>1 DEF GetRead
  <2>2. CASE map[k] # NoEntry
    <3>1. map[k] \in Entry
      BY <2>2
    <3>2. [at |-> "read", key |-> k, entry |-> map[k]] \in Reading
      BY <3>1 DEF Reading
    <3>3. QED
      BY <1>3, <2>2, <3>2 DEF GetRead
  <2>3. QED
    BY <2>1, <2>2
<1>4. ASSUME NEW p \in Procs, GetCheck(p) PROVE TypeOK'
  <2>1. get[p] \in Reading
    BY <1>4 DEF GetCheck
  <2>2. /\ [at |-> "stale", key |-> get[p].key, entry |-> get[p].entry] \in Reading
        /\ get[p].entry \in Entry
    BY <2>1 DEF Reading
  <2>3. QED
    BY <1>4, <2>2 DEF GetCheck
<1>5. ASSUME NEW p \in Procs, GetDelete(p) PROVE TypeOK'
  <2>1. get[p] \in Reading
    BY <1>5 DEF GetDelete
  <2>2. get[p].key \in Keys
    BY <2>1 DEF Reading
  <2>3. QED
    BY <1>5, <2>2 DEF GetDelete
<1>6. ASSUME NEW p \in Procs, NEW k \in Keys, NEW v \in Values, NEW ttl \in TTLs,
             Set(p, k, v, ttl)
      PROVE  TypeOK'
  <2>1. [value |-> v, expiry |-> now + ttl] \in Entry
    BY DEF Entry
  <2>2. QED
    BY <1>6, <2>1 DEF Set
<1>7. CASE UNCHANGED vars
  BY <1>7 DEF vars
<1>8. QED
  BY <1>1, <1>2, <1>3, <1>4, <1>5, <1>6, <1>7 DEF Next

\* Every variable of the map keeps its type through every call.
THEOREM TypeCorrect == Spec => []TypeOK
<1>1. Init => TypeOK
  BY DecayMapAssumption DEF Init, TypeOK, Out
<1>2. QED
  BY <1>1, StepTypeOK, PTL DEF Spec

\* The invariant: types, and a Get that is about to delete holds an expired
\* copy, because the clock only moves forward.
THEOREM Invariance == Spec => []Inv
<1>1. Init => StaleIsExpired
  BY DEF Init, StaleIsExpired
<1>2. TypeOK /\ StaleIsExpired /\ [Next]_vars => StaleIsExpired'
  <2> SUFFICES ASSUME TypeOK, StaleIsExpired, [Next]_vars,
                      NEW p \in Procs, get'[p] # Out, get'[p].at = "stale"
               PROVE  now' > get'[p].entry.expiry
    BY DEF StaleIsExpired, After
  <2> USE DecayMapAssumption DEF TypeOK, After
  <2>1. now' >= now
    BY DEF Next, Tick, Decay, GetRead, GetCheck, GetDelete, Set, vars
  <2>2. CASE get'[p] = get[p]
    <3>1. get[p] \in Reading
      BY <2>2
    <3>2. get[p].entry.expiry \in Nat
      BY <3>1 DEF Reading, Entry
    <3>3. now > get[p].entry.expiry
      BY <2>2 DEF StaleIsExpired
    <3>4. now' \in Nat
      BY DEF Next, Tick, Decay, GetRead, GetCheck, GetDelete, Set, vars
    <3>5. QED
      BY <2>1, <2>2, <3>2, <3>3, <3>4
  <2>3. CASE get'[p] # get[p]
    <3>1. GetCheck(p) /\ After(now, get[p].entry.expiry)
      <4>1. ASSUME NEW q \in Procs, NEW k \in Keys, GetRead(q, k) PROVE FALSE
        BY <4>1, <2>3 DEF GetRead
      <4>2. ASSUME NEW q \in Procs, GetDelete(q) PROVE FALSE
        BY <4>2, <2>3 DEF GetDelete
      <4>3. \E q \in Procs : GetCheck(q)
        BY <2>3, <4>1, <4>2 DEF Next, Tick, Decay, Set, vars
      <4>4. QED
        BY <2>3, <4>3 DEF GetCheck
    <3>2. get[p] \in Reading
      BY <3>1 DEF GetCheck
    <3>3. get'[p].entry = get[p].entry /\ now' = now
      BY <3>1 DEF GetCheck
    <3>4. QED
      BY <3>1, <3>3
  <2>4. QED
    BY <2>2, <2>3
<1>3. QED
  BY TypeCorrect, <1>1, <1>2, PTL DEF Spec, Inv

\* No step of any interleaving removes an entry before it expires.
LEMMA StepKeepsFresh ==
  ASSUME Inv, [Next]_vars, NEW k \in Keys, map[k] # NoEntry, map'[k] = NoEntry
  PROVE  After(now, map[k].expiry) /\ now' = now
<1> USE DecayMapAssumption DEF Inv, TypeOK
<1>1. CASE Decay
  BY <1>1 DEF Decay
<1>2. ASSUME NEW p \in Procs, GetDelete(p) PROVE After(now, map[k].expiry) /\ now' = now
  <2>1. get[p] \in Reading /\ get[p].at = "stale"
    BY <1>2 DEF GetDelete
  <2>2. k = get[p].key /\ map[k].expiry = get[p].entry.expiry
    BY <1>2, <2>1 DEF GetDelete, Reading
  <2>3. QED
    BY <1>2, <2>1, <2>2 DEF StaleIsExpired, GetDelete
<1>3. ASSUME NEW p \in Procs, NEW j \in Keys, NEW v \in Values, NEW ttl \in TTLs,
             Set(p, j, v, ttl)
      PROVE  FALSE
  <2>1. now + ttl \in Nat
    OBVIOUS
  <2>2. [value |-> v, expiry |-> now + ttl] \in Entry
    BY <2>1 DEF Entry
  <2>3. QED
    BY <1>3, <2>2 DEF Set
<1>4. QED
  BY <1>1, <1>2, <1>3 DEF Next, Tick, GetRead, GetCheck, vars

\* An entry leaves the map only after its expiry, whatever Get, Set and
\* Decay of all goroutines do in between.
THEOREM FreshEntriesStay == Spec => NoFreshLoss
<1>1. Inv /\ [Next]_vars =>
        [\A k \in Keys : map[k] # NoEntry /\ map'[k] = NoEntry => After(now, map[k].expiry)]_vars
  BY StepKeepsFresh
<1>2. QED
  BY <1>1, Invariance, PTL DEF Spec, NoFreshLoss

\* DecayMap implements TTLMap: every step of the concurrent map is a put, an
\* expiry, a tick of the clock, or invisible.
THEOREM Refinement == Spec => ImplementsTTLMap
<1>1. Init => TTL!Init
  BY DEF Init, TTL!Init
<1>2. Inv /\ [Next]_vars => [TTL!Next]_<<now, map>>
  <2> SUFFICES ASSUME Inv, [Next]_vars PROVE [TTL!Next]_<<now, map>>
    OBVIOUS
  <2> USE DecayMapAssumption DEF Inv, TypeOK
  <2>1. CASE Tick
    BY <2>1 DEF Tick, TTL!Next, TTL!Advance
  <2>2. CASE Decay
    <3> DEFINE gone == {k \in Keys : TTL!Expired(k)}
    <3>1. map' = [k \in Keys |-> IF k \in gone THEN NoEntry ELSE map[k]]
      <4>1. \A k \in Keys : map[k] # NoEntry => map[k].expiry \in Nat
        BY DEF Entry
      <4>2. QED
        BY <2>2, <4>1 DEF Decay, After, TTL!Expired
    <3>2. gone \in SUBSET {k \in Keys : TTL!Expired(k)} /\ now' = now
      BY <2>2 DEF Decay
    <3> HIDE DEF gone
    <3>3. QED
      BY <3>1, <3>2 DEF TTL!Next, TTL!Expire
  <2>3. ASSUME NEW p \in Procs, NEW k \in Keys, GetRead(p, k) PROVE UNCHANGED <<now, map>>
    BY <2>3 DEF GetRead
  <2>4. ASSUME NEW p \in Procs, GetCheck(p) PROVE UNCHANGED <<now, map>>
    BY <2>4 DEF GetCheck
  <2>5. ASSUME NEW p \in Procs, GetDelete(p) PROVE [TTL!Next]_<<now, map>>
    <3>1. CASE map' = map
      BY <2>5, <3>1 DEF GetDelete
    <3>2. CASE map' # map
      <4> DEFINE d == get[p].key
      <4>1. d \in Keys
        BY <2>5 DEF GetDelete, Reading
      <4>2. map[d] # NoEntry /\ map' = [map EXCEPT ![d] = NoEntry] /\ now' = now
        BY <2>5, <3>2 DEF GetDelete
      <4>3. After(now, map[d].expiry)
        BY <4>1, <4>2, StepKeepsFresh
      <4>4. map[d].expiry \in Nat
        BY <4>1, <4>2 DEF Entry
      <4>5. TTL!Expired(d)
        BY <4>2, <4>3, <4>4 DEF TTL!Expired, After
      <4>6. {d} \in SUBSET {k \in Keys : TTL!Expired(k)}
        BY <4>1, <4>5
      <4>7. map' = [k \in Keys |-> IF k \in {d} THEN NoEntry ELSE map[k]]
        BY <4>1, <4>2
      <4> HIDE DEF d
      <4>8. QED
        BY <4>2, <4>6, <4>7 DEF TTL!Next, TTL!Expire
    <3>3. QED
      BY <3>1, <3>2
  <2>6. ASSUME NEW p \in Procs, NEW k \in Keys, NEW v \in Values, NEW ttl \in TTLs,
               Set(p, k, v, ttl)
        PROVE  TTL!Next
    BY <2>6 DEF Set, TTL!Next, TTL!Put
  <2>7. CASE UNCHANGED vars
    BY <2>7 DEF vars
  <2>8. QED
    BY <2>1, <2>2, <2>3, <2>4, <2>5, <2>6, <2>7 DEF Next
<1>3. QED
  BY <1>1, <1>2, Invariance, PTL DEF Spec, ImplementsTTLMap, TTL!Spec

---------------------------------------------------------------------------
(* The dnsbl runtime *)

LookupTypeOK ==
    /\ lookup \in [Procs -> Lookup] /\ verdict \in [Procs -> Verdict]
    /\ listed \subseteq Keys
    /\ changed \in [Keys -> Nat] /\ failed \in [Keys -> Nat]

\* A step of the runtime is a step of its map or leaves the map alone.
LEMMA DnsblStep == TypeOK /\ LookupTypeOK /\ [DnsblNext]_allVars => [Next]_vars
<1> SUFFICES ASSUME TypeOK, LookupTypeOK, [DnsblNext]_allVars PROVE [Next]_vars
  OBVIOUS
<1> USE DEF Next
<1>1. CASE DnsblTick
  BY <1>1 DEF DnsblTick
<1>2. CASE Sweep
  BY <1>2 DEF Sweep
<1>3. ASSUME NEW k \in Keys, Relist(k) PROVE UNCHANGED vars
  BY <1>3 DEF Relist
<1>4. ASSUME NEW p \in Procs, NEW k \in Keys, Enter(p, k) PROVE Next
  BY <1>4 DEF Enter
<1>5. ASSUME NEW p \in Procs, Hit(p) \/ Expired(p) PROVE Next
  BY <1>5 DEF Hit, Expired
<1>6. ASSUME NEW p \in Procs, Ask(p) PROVE UNCHANGED vars
  BY <1>6 DEF Ask
<1>7. ASSUME NEW p \in Procs, Store(p) PROVE Next
  <2>1. lookup[p] \in [at : {"set"}, key : Keys, since : Nat, result : Values]
    BY <1>7 DEF Store, LookupTypeOK, Lookup, NoLookup
  <2>2. lookup[p].key \in Keys /\ lookup[p].result \in Values /\ DecayTime \in TTLs
    BY <2>1, DnsblAssumption
  <2>3. Set(p, lookup[p].key, lookup[p].result, DecayTime)
    BY <1>7 DEF Store
  <2>4. QED
    BY <2>2, <2>3
<1>8. CASE UNCHANGED allVars
  BY <1>8 DEF allVars
<1>9. QED
  BY <1>1, <1>2, <1>3, <1>4, <1>5, <1>6, <1>7, <1>8 DEF DnsblNext

\* Where p is in lookup and where it is in Get agree.
InGet(p) == IF lookup[p].at = "get" THEN get[p] \in Reading /\ get[p].key = lookup[p].key
                                    ELSE get[p] = Out

\* No lookup is older than its timeout.
Timely ==
    /\ \A p \in Procs : lookup[p].at \in {"ask", "set"} =>
          lookup[p].since <= now /\ now <= lookup[p].since + Timeout
    /\ \A k \in Keys : failed[k] <= now

\* An answer about k that is used up to time t at most is what the list says
\* of k, or the list has changed, or a lookup has failed, late enough.
Told(k, value, t) ==
    /\ value = Bad /\ k \notin listed => t <= changed[k] + DecayTime + Timeout
    /\ value # Bad /\ k \in listed => \/ t <= changed[k] + DecayTime + Timeout
                                      \/ t <= failed[k] + DecayTime + Timeout

EntryTold(k, entry) == entry.expiry <= now + DecayTime /\ Told(k, entry.value, entry.expiry)

ToldInv ==
    /\ \A p \in Procs : lookup[p].at = "set" =>
          Told(lookup[p].key, lookup[p].result, lookup[p].since + DecayTime + Timeout)
    /\ \A k \in Keys : map[k] # NoEntry => EntryTold(k, map[k])
    /\ \A p \in Procs : get[p] # Out => EntryTold(get[p].key, get[p].entry)

LookupInv == LookupTypeOK /\ (\A p \in Procs : InGet(p)) /\ Timely

LEMMA DnsblInitInv == DnsblInit => LookupInv /\ ToldInv
<1> SUFFICES ASSUME DnsblInit PROVE LookupInv /\ ToldInv
  OBVIOUS
<1> USE DEF DnsblInit, Init
<1>1. LookupTypeOK
  BY DEF LookupTypeOK, Lookup, Verdict, Never
<1>2. \A p \in Procs : lookup[p].at = "out" /\ get[p] = Out
  BY DEF NoLookup
<1>3. QED
  BY <1>1, <1>2 DEF LookupInv, InGet, Timely, ToldInv, Never

\* The steps of one lookup.
LEMMA LookupStep ==
  ASSUME TypeOK, LookupInv, [DnsblNext]_allVars
  PROVE  LookupInv'
<1> USE DecayMapAssumption, DnsblAssumption DEF LookupInv, LookupTypeOK, TypeOK
<1>0. \A p \in Procs :
        /\ lookup[p].at \in {"out", "get", "ask", "set"}
        /\ lookup[p].at # "out" => lookup[p].key \in Keys
        /\ lookup[p].at \in {"ask", "set"} => lookup[p].since \in Nat
        /\ lookup[p].at = "set" => lookup[p].result \in Values
  BY DEF Lookup, NoLookup
<1>1. CASE DnsblTick
  <2>1. now' = now + 1 /\ UNCHANGED <<map, get, found, lookup, verdict, listed, changed, failed>>
    BY <1>1 DEF DnsblTick, Tick, dnsblVars
  <2>2. Timely'
    BY <1>0, <1>1, <2>1 DEF DnsblTick, Timely
  <2>3. QED
    BY <2>1, <2>2 DEF InGet
<1>2. CASE Sweep
  BY <1>2 DEF Sweep, Decay, dnsblVars, InGet, Timely
<1>3. ASSUME NEW k \in Keys, Relist(k) PROVE LookupInv'
  <2>1. listed' \subseteq Keys /\ changed' \in [Keys -> Nat]
    BY <1>3 DEF Relist
  <2>2. QED
    BY <1>3, <2>1 DEF Relist, vars, InGet, Timely
<1>4. ASSUME NEW p \in Procs, NEW k \in Keys, Enter(p, k) PROVE LookupInv'
  <2>1. verdict' \in [Procs -> Verdict] /\ UNCHANGED <<now, listed, changed, failed>>
    BY <1>4 DEF Enter, GetRead, Verdict
  <2>2. CASE map[k] = NoEntry
    <3>1. get' = get
      BY <1>4, <2>2 DEF Enter, GetRead
    <3>2. lookup' = [lookup EXCEPT ![p] = [at |-> "ask", key |-> k, since |-> now]]
      BY <1>4, <2>2 DEF Enter
    <3>3. [at |-> "ask", key |-> k, since |-> now] \in Lookup
      BY DEF Lookup
    <3>4. get[p] = Out
      BY <1>4 DEF Enter, GetRead
    <3>5. QED
      BY <1>0, <2>1, <3>1, <3>2, <3>3, <3>4 DEF InGet, Timely
  <2>3. CASE map[k] # NoEntry
    <3>1. get' = [get EXCEPT ![p] = [at |-> "read", key |-> k, entry |-> map[k]]]
      BY <1>4, <2>3 DEF Enter, GetRead
    <3>2. lookup' = [lookup EXCEPT ![p] = [at |-> "get", key |-> k]]
      BY <1>4, <2>3 DEF Enter
    <3>3. [at |-> "get", key |-> k] \in Lookup
      BY DEF Lookup
    <3>4. [at |-> "read", key |-> k, entry |-> map[k]] \in Reading
      BY <2>3 DEF Reading
    <3>5. QED
      BY <1>0, <2>1, <3>1, <3>2, <3>3, <3>4 DEF InGet, Timely
  <2>4. QED
    BY <2>2, <2>3
<1>5. ASSUME NEW p \in Procs, Hit(p) PROVE LookupInv'
  <2>1. UNCHANGED <<now, listed, changed, failed>>
    BY <1>5 DEF Hit, GetCheck
  <2>2. get[p] \in Reading /\ get[p].key = lookup[p].key /\ lookup[p].key \in Keys
    BY <1>0, <1>5 DEF Hit, InGet
  <2> DEFINE r == [at |-> "stale", key |-> get[p].key, entry |-> get[p].entry]
  <2>3. r \in Reading /\ r.key = lookup[p].key /\ r # Out
    BY <2>2 DEF Reading, Out
  <2>4. CASE After(now, get[p].entry.expiry)
    <3>1. get' = [get EXCEPT ![p] = r]
      BY <1>5, <2>4 DEF Hit, GetCheck
    <3>2. get'[p] # Out
      BY <2>3, <3>1
    <3>3. UNCHANGED <<lookup, verdict>>
      BY <1>5, <3>2 DEF Hit
    <3> HIDE DEF r
    <3>4. QED
      BY <1>5, <2>1, <2>3, <3>1, <3>3 DEF Hit, InGet, Timely
  <2>5. CASE ~After(now, get[p].entry.expiry)
    <3>1. get' = [get EXCEPT ![p] = Out]
      BY <1>5, <2>5 DEF Hit, GetCheck
    <3>2. /\ lookup' = [lookup EXCEPT ![p] = NoLookup]
          /\ verdict' = [verdict EXCEPT ![p] = VerdictOf(lookup[p].key, found'[p].value)]
      BY <1>5, <3>1 DEF Hit
    <3>3. VerdictOf(lookup[p].key, found'[p].value) \in Verdict /\ NoLookup \in Lookup
      BY <2>2 DEF VerdictOf, Verdict, Lookup
    <3>4. NoLookup.at = "out"
      BY DEF NoLookup
    <3>5. QED
      BY <2>1, <3>1, <3>2, <3>3, <3>4 DEF InGet, Timely
  <2>6. QED
    BY <2>4, <2>5
<1>6. ASSUME NEW p \in Procs, Expired(p) PROVE LookupInv'
  <2> DEFINE l == [at |-> "ask", key |-> lookup[p].key, since |-> now]
  <2>1. l \in Lookup /\ l.at = "ask" /\ l.since = now
    BY <1>0, <1>6 DEF Expired, Lookup
  <2>2. /\ lookup' = [lookup EXCEPT ![p] = l] /\ get' = [get EXCEPT ![p] = Out]
        /\ UNCHANGED <<now, verdict, listed, changed, failed>>
    BY <1>6 DEF Expired, GetDelete
  <2> HIDE DEF l
  <2>3. QED
    BY <2>1, <2>2 DEF InGet, Timely
<1>7. ASSUME NEW p \in Procs, Ask(p) PROVE LookupInv'
  <2>1. PICK fails \in BOOLEAN :
          /\ lookup' = [lookup EXCEPT ![p] =
                [at |-> "set", key |-> lookup[p].key, since |-> lookup[p].since,
                 result |-> IF ~fails /\ lookup[p].key \in listed THEN Bad ELSE Unknown]]
          /\ failed' = IF fails THEN [failed EXCEPT ![lookup[p].key] = now] ELSE failed
    BY <1>7 DEF Ask
  <2> DEFINE l == [at |-> "set", key |-> lookup[p].key, since |-> lookup[p].since,
                   result |-> IF ~fails /\ lookup[p].key \in listed THEN Bad ELSE Unknown]
  <2>2. l \in Lookup /\ l.at = "set" /\ l.since = lookup[p].since
    BY <1>0, <1>7 DEF Ask, Lookup
  <2>3. /\ lookup' = [lookup EXCEPT ![p] = l] /\ lookup[p].at = "ask"
        /\ UNCHANGED <<now, get, verdict, listed, changed>>
    BY <1>7, <2>1 DEF Ask, vars
  <2>4. failed' \in [Keys -> Nat] /\ \A k \in Keys : failed'[k] <= now
    BY <1>0, <1>7, <2>1 DEF Ask, Timely
  <2> HIDE DEF l
  <2>5. QED
    BY <2>2, <2>3, <2>4 DEF InGet, Timely
<1>8. ASSUME NEW p \in Procs, Store(p) PROVE LookupInv'
  <2>1. /\ lookup' = [lookup EXCEPT ![p] = NoLookup] /\ lookup[p].at = "set"
        /\ verdict' = [verdict EXCEPT ![p] = VerdictOf(lookup[p].key, lookup[p].result)]
        /\ UNCHANGED <<now, get, listed, changed, failed>>
    BY <1>8 DEF Store, Set
  <2>2. VerdictOf(lookup[p].key, lookup[p].result) \in Verdict /\ NoLookup \in Lookup
    BY <1>0, <2>1 DEF VerdictOf, Verdict, Lookup
  <2>3. NoLookup.at = "out"
    BY DEF NoLookup
  <2>4. QED
    BY <2>1, <2>2, <2>3 DEF InGet, Timely
<1>9. CASE UNCHANGED allVars
  BY <1>9 DEF allVars, vars, dnsblVars, InGet, Timely
<1>10. QED
  BY <1>1, <1>2, <1>3, <1>4, <1>5, <1>6, <1>7, <1>8, <1>9 DEF DnsblNext

\* What was told about an address stays true while the list changes under it.
LEMMA ToldStays ==
  ASSUME TypeOK, LookupInv, [DnsblNext]_allVars,
         NEW k \in Keys, NEW v, NEW t \in Nat, t <= now + DecayTime + Timeout, Told(k, v, t)
  PROVE  Told(k, v, t)'
<1> USE DecayMapAssumption, DnsblAssumption DEF LookupInv, LookupTypeOK, TypeOK
<1>1. ASSUME NEW j \in Keys, Relist(j) PROVE Told(k, v, t)'
  <2>1. failed' = failed /\ changed' = [changed EXCEPT ![j] = now]
    BY <1>1 DEF Relist
  <2>2. CASE j = k
    BY <2>1, <2>2 DEF Told
  <2>3. CASE j # k
    BY <1>1, <2>1, <2>3 DEF Relist, Told
  <2>4. QED
    BY <2>2, <2>3
<1>2. ASSUME NEW p \in Procs, Ask(p) PROVE Told(k, v, t)'
  <2>1. lookup[p].key \in Keys
    BY <1>2 DEF Ask, Lookup, NoLookup
  <2>2. failed'[k] >= failed[k] /\ failed'[k] \in Nat /\ UNCHANGED <<listed, changed>>
    BY <1>2, <2>1 DEF Ask, Timely
  <2>3. QED
    BY <2>2 DEF Told
<1>3. CASE UNCHANGED <<listed, changed, failed>>
  BY <1>3 DEF Told
<1>4. QED
  BY <1>1, <1>2, <1>3 DEF DnsblNext, DnsblTick, Sweep, Enter, Hit, Expired, Store, dnsblVars, allVars

LEMMA ToldStep ==
  ASSUME TypeOK, LookupInv, ToldInv, [DnsblNext]_allVars, [Next]_vars, LookupInv'
  PROVE  ToldInv'
<1> USE DecayMapAssumption, DnsblAssumption DEF LookupInv, LookupTypeOK, TypeOK
<1>0. now' \in Nat /\ now' >= now
  BY DEF Next, Tick, Decay, GetRead, GetCheck, GetDelete, Set, vars
<1>e. ASSUME NEW k \in Keys, NEW e \in Entry, EntryTold(k, e) PROVE EntryTold(k, e)'
  <2>1. e.expiry \in Nat /\ e.expiry <= now + DecayTime + Timeout
    BY <1>e DEF Entry, EntryTold
  <2>2. Told(k, e.value, e.expiry)'
    BY <1>e, <2>1, ToldStays DEF EntryTold
  <2>3. QED
    BY <1>0, <1>e, <2>1, <2>2 DEF EntryTold
<1>1. ASSUME NEW p \in Procs, lookup'[p].at = "set"
      PROVE  Told(lookup[p].key, lookup[p].result, lookup[p].since + DecayTime + Timeout)'
  <2>1. CASE lookup'[p] = lookup[p]
    <3>1. /\ lookup[p].key \in Keys /\ lookup[p].since \in Nat
          /\ lookup[p].since <= now
      BY <1>1, <2>1 DEF Lookup, NoLookup, Timely
    <3>2. Told(lookup[p].key, lookup[p].result, lookup[p].since + DecayTime + Timeout)
      BY <1>1, <2>1 DEF ToldInv
    <3>3. /\ lookup[p].since + DecayTime + Timeout \in Nat
          /\ lookup[p].since + DecayTime + Timeout <= now + DecayTime + Timeout
      BY <3>1
    <3>4. \A k \in Keys, t \in Nat : \A v :
            t <= now + DecayTime + Timeout /\ Told(k, v, t) => Told(k, v, t)'
      BY ToldStays
    <3>5. QED
      BY <2>1, <3>1, <3>2, <3>3, <3>4 DEF Told
  <2>2. CASE lookup'[p] # lookup[p]
    <3>1. Ask(p)
      <4>1. ASSUME NEW q \in Procs, NEW k \in Keys, Enter(q, k) PROVE FALSE
        BY <1>1, <2>2, <4>1 DEF Enter
      <4>2. ASSUME NEW q \in Procs, Hit(q) \/ Expired(q) \/ Store(q) PROVE FALSE
        BY <1>1, <2>2, <4>2 DEF Hit, Expired, Store, NoLookup
      <4>3. \E q \in Procs : Ask(q)
        BY <2>2, <4>1, <4>2 DEF DnsblNext, DnsblTick, Sweep, Relist, dnsblVars, allVars
      <4>4. QED
        BY <2>2, <4>3 DEF Ask
    <3>2. /\ lookup[p].key \in Keys /\ lookup[p].since \in Nat /\ lookup[p].since <= now
      BY <3>1 DEF Ask, Lookup, NoLookup, Timely
    <3>3. PICK fails \in BOOLEAN :
            /\ lookup' = [lookup EXCEPT ![p] =
                  [at |-> "set", key |-> lookup[p].key, since |-> lookup[p].since,
                   result |-> IF ~fails /\ lookup[p].key \in listed THEN Bad ELSE Unknown]]
            /\ failed' = IF fails THEN [failed EXCEPT ![lookup[p].key] = now] ELSE failed
      BY <3>1 DEF Ask
    <3>4. /\ lookup'[p].key = lookup[p].key /\ lookup'[p].since = lookup[p].since
          /\ lookup'[p].result = IF ~fails /\ lookup[p].key \in listed THEN Bad ELSE Unknown
      BY <3>3
    <3>5. UNCHANGED <<listed, changed>>
      BY <3>1 DEF Ask
    <3>6. CASE fails
      BY <3>2, <3>3, <3>4, <3>5, <3>6 DEF Told, Bad, Unknown
    <3>7. CASE ~fails
      BY <3>2, <3>3, <3>4, <3>5, <3>7 DEF Told, Bad, Unknown
    <3>8. QED
      BY <3>6, <3>7
  <2>3. QED
    BY <2>1, <2>2
<1>2. ASSUME NEW k \in Keys, map'[k] # NoEntry PROVE EntryTold(k, map[k])'
  <2>1. CASE map'[k] = map[k]
    <3>1. map[k] \in Entry /\ EntryTold(k, map[k])
      BY <1>2, <2>1 DEF ToldInv
    <3>2. \A e \in Entry : EntryTold(k, e) => EntryTold(k, e)'
      BY <1>e
    <3>3. QED
      BY <2>1, <3>1, <3>2 DEF EntryTold, Told
  <2>2. CASE map'[k] # map[k]
    <3>1. PICK p \in Procs : Store(p) /\ lookup[p].key = k
      <4>1. ASSUME NEW q \in Procs, GetDelete(q) PROVE FALSE
        BY <1>2, <2>2, <4>1 DEF GetDelete
      <4>2. CASE Decay
        BY <1>2, <2>2, <4>2 DEF Decay
      <4>3. PICK p \in Procs : Store(p)
        BY <2>2, <4>1, <4>2 DEF DnsblNext, DnsblTick, Tick, Sweep, Relist, Enter, GetRead, Hit,
                             GetCheck, Expired, Ask, vars, allVars
      <4>4. QED
        BY <2>2, <4>3 DEF Store, Set
    <3>2. /\ lookup[p].at = "set" /\ lookup[p].since \in Nat
          /\ lookup[p].since <= now /\ now <= lookup[p].since + Timeout
          /\ Told(k, lookup[p].result, lookup[p].since + DecayTime + Timeout)
      BY <3>1 DEF Store, Lookup, NoLookup, Timely, ToldInv
    <3>3. /\ map'[k] = [value |-> lookup[p].result, expiry |-> now + DecayTime]
          /\ UNCHANGED <<now, listed, changed, failed>>
      BY <3>1 DEF Store, Set
    <3>4. map'[k].value = lookup[p].result /\ map'[k].expiry = now + DecayTime
      BY <3>3
    <3>5. QED
      BY <3>2, <3>3, <3>4 DEF EntryTold, Told
  <2>3. QED
    BY <2>1, <2>2
<1>3. ASSUME NEW p \in Procs, get'[p] # Out PROVE EntryTold(get[p].key, get[p].entry)'
  <2>1. CASE get[p] # Out /\ get'[p].key = get[p].key /\ get'[p].entry = get[p].entry
    <3>1. get[p].key \in Keys /\ get[p].entry \in Entry
      BY <2>1 DEF Reading
    <3>2. EntryTold(get[p].key, get[p].entry)
      BY <2>1 DEF ToldInv
    <3>3. \A k \in Keys, e \in Entry : EntryTold(k, e) => EntryTold(k, e)'
      BY <1>e
    <3>4. QED
      BY <2>1, <3>1, <3>2, <3>3 DEF EntryTold, Told
  <2>2. CASE ~(get[p] # Out /\ get'[p].key = get[p].key /\ get'[p].entry = get[p].entry)
    <3>1. PICK k \in Keys : GetRead(p, k) /\ map[k] # NoEntry
      <4>1. ASSUME NEW q \in Procs, GetCheck(q) PROVE FALSE
        BY <1>3, <2>2, <4>1 DEF GetCheck
      <4>2. ASSUME NEW q \in Procs, GetDelete(q) PROVE FALSE
        BY <1>3, <2>2, <4>2 DEF GetDelete
      <4>3. get' # get
        BY <1>3, <2>2
      <4>4. PICK q \in Procs, k \in Keys : GetRead(q, k)
        BY <4>1, <4>2, <4>3 DEF Next, Tick, Decay, Set, vars
      <4>5. QED
        BY <1>3, <2>2, <4>4 DEF GetRead
    <3>2. /\ get'[p] = [at |-> "read", key |-> k, entry |-> map[k]]
          /\ UNCHANGED <<now, map>>
      BY <3>1 DEF GetRead
    <3>3. get'[p].key = k /\ get'[p].entry = map[k]
      BY <3>2
    <3>4. map[k] \in Entry /\ EntryTold(k, map[k])
      BY <3>1 DEF ToldInv
    <3>5. \A e \in Entry : EntryTold(k, e) => EntryTold(k, e)'
      BY <1>e
    <3>6. QED
      BY <3>2, <3>3, <3>4, <3>5 DEF EntryTold, Told
  <2>3. QED
    BY <2>1, <2>2
<1>4. QED
  BY <1>1, <1>2, <1>3 DEF ToldInv

DnsblInv == TypeOK /\ LookupInv /\ ToldInv

\* The invariant of the runtime: a lookup is as old as its timeout allows, and
\* what it holds, and every entry of the map, was told late enough.
THEOREM DnsblInvariance == DnsblSpec => []DnsblInv
<1>1. DnsblInit => DnsblInv
  BY DnsblInitInv, DecayMapAssumption DEF DnsblInit, DnsblInv, Init, TypeOK, Out
<1>2. DnsblInv /\ [DnsblNext]_allVars => DnsblInv'
  <2> SUFFICES ASSUME DnsblInv, [DnsblNext]_allVars PROVE DnsblInv'
    OBVIOUS
  <2>1. [Next]_vars
    BY DnsblStep DEF DnsblInv, LookupInv
  <2>2. LookupInv'
    BY LookupStep DEF DnsblInv
  <2>3. QED
    BY <2>1, <2>2, StepTypeOK, ToldStep DEF DnsblInv
<1>3. QED
  BY <1>1, <1>2, PTL DEF DnsblSpec

\* Every variable of the runtime and of its map keeps its type.
THEOREM DnsblTypeCorrect == DnsblSpec => []DnsblTypeOK
<1>1. DnsblInv => DnsblTypeOK
  BY DEF DnsblInv, LookupInv, LookupTypeOK, DnsblTypeOK
<1>2. QED
  BY <1>1, DnsblInvariance, PTL

\* The runtime uses its map as DecayMap lets it be used, so what is proved of
\* the map holds for it.
THEOREM DnsblUsesDecayMap == DnsblSpec => Spec
<1>1. DnsblInv /\ [DnsblNext]_allVars => [Next]_vars
  BY DnsblStep DEF DnsblInv, LookupInv
<1>2. QED
  BY <1>1, DnsblInvariance, PTL DEF DnsblSpec, DnsblInit, Spec

\* The cached answers of the runtime are a map with expiring entries.
THEOREM DnsblRefines == DnsblSpec => ImplementsTTLMap
BY DnsblUsesDecayMap, Refinement, PTL

\* However requests share the cache, a verdict agrees with a list that has
\* said the same for a decay and a timeout, unless a lookup of the address
\* has failed since then.
THEOREM VerdictsProved == DnsblSpec => VerdictsFollowList
<1>1. DnsblInv /\ [DnsblNext]_allVars => [\A p \in Procs : Decides(p)]_allVars
  <2> SUFFICES ASSUME DnsblInv, DnsblNext, NEW p \in Procs,
                      verdict'[p] # verdict[p], verdict'[p] # NoVerdict
               PROVE  Decides(p)
    BY DEF Decides
  <2> USE DecayMapAssumption, DnsblAssumption DEF DnsblInv, LookupInv, LookupTypeOK, TypeOK
  <2>1. CASE Hit(p)
    <3>1. /\ get[p] \in Reading /\ get[p].key = lookup[p].key /\ get[p] # Out
          /\ lookup[p].key \in Keys
      BY <2>1 DEF Hit, InGet, GetCheck, Lookup, NoLookup
    <3>2. get'[p] = Out
      BY <2>1 DEF Hit
    <3>3. ~After(now, get[p].entry.expiry) /\ found'[p] = get[p].entry
      BY <2>1, <3>2 DEF Hit, GetCheck, Out
    <3>4. verdict'[p] = VerdictOf(lookup[p].key, get[p].entry.value)
      BY <2>1, <3>2, <3>3 DEF Hit
    <3>5. /\ verdict'[p].key = lookup[p].key
          /\ verdict'[p].result = IF get[p].entry.value = Bad THEN "NotOK" ELSE "OK"
      BY <3>4 DEF VerdictOf
    <3>6. EntryTold(lookup[p].key, get[p].entry)
      BY <3>1 DEF ToldInv
    <3>7. get[p].entry.expiry \in Nat /\ now <= get[p].entry.expiry
      BY <3>1, <3>3 DEF Reading, Entry, After
    <3>8. QED
      BY <3>1, <3>5, <3>6, <3>7 DEF Decides, Settled, Sound, EntryTold, Told
  <2>2. CASE Store(p)
    <3>1. /\ lookup[p].at = "set" /\ lookup[p].since \in Nat /\ lookup[p].key \in Keys
          /\ now <= lookup[p].since + Timeout
          /\ Told(lookup[p].key, lookup[p].result, lookup[p].since + DecayTime + Timeout)
      BY <2>2 DEF Store, Lookup, NoLookup, Timely, ToldInv
    <3>2. verdict'[p] = VerdictOf(lookup[p].key, lookup[p].result)
      BY <2>2 DEF Store
    <3>3. /\ verdict'[p].key = lookup[p].key
          /\ verdict'[p].result = IF lookup[p].result = Bad THEN "NotOK" ELSE "OK"
      BY <3>2 DEF VerdictOf
    <3>4. QED
      BY <3>1, <3>3 DEF Decides, Settled, Sound, Told
  <2>3. Hit(p) \/ Store(p)
    <3>1. ASSUME NEW q \in Procs, NEW k \in Keys, Enter(q, k) PROVE FALSE
      BY <3>1 DEF Enter
    <3>2. PICK q \in Procs : Hit(q) \/ Store(q)
      BY <3>1 DEF DnsblNext, DnsblTick, Sweep, Relist, Expired, Ask, dnsblVars
    <3>3. QED
      BY <3>2 DEF Hit, Store
  <2>4. QED
    BY <2>1, <2>2, <2>3
<1>2. QED
  BY <1>1, DnsblInvariance, PTL DEF DnsblSpec, VerdictsFollowList
===========================================================================
