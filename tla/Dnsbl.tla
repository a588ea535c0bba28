------------------------------- MODULE Dnsbl -------------------------------
(***************************************************************************)
(* The dnsbl runtime: lookup, its cache in a DecayMap and the verdict of   *)
(* IssueChallenge, by any number of requests at once, against a blocklist  *)
(* that changes and a resolver that may fail.                              *)
(***************************************************************************)
EXTENDS DecayMap

CONSTANTS DecayTime,  \* dnsbl-decay
          Timeout     \* dnsbl-timeout

VARIABLES
    lookup,    \* lookup[p]: where p is in lookup
    verdict,   \* verdict[p]: what IssueChallenge last returned to p, and for which address
    listed,    \* the addresses on the blocklist now
    changed,   \* changed[k]: when k was last put on the list or taken off it (history)
    failed     \* failed[k]: when a lookup of k last failed (history)

dnsblVars == <<lookup, verdict, listed, changed, failed>>
allVars == <<vars, dnsblVars>>

\* A response is Bad or ResponseUnknown; the resolver reports an address that
\* is not on the list and a lookup that failed alike, as an error.
Bad == "bad"
Unknown == "unknown"

ASSUME DnsblAssumption ==
    /\ Values = {Bad, Unknown} /\ TTLs = {DecayTime}
    /\ DecayTime \in Nat /\ Timeout \in Nat

\* "get": inside decayMap.Get; "ask": waiting for the resolver; "set": about
\* to store the result.
NoLookup == [at |-> "out"]
Lookup == {NoLookup} \cup [at : {"get"}, key : Keys]
          \cup [at : {"ask"}, key : Keys, since : Nat]
          \cup [at : {"set"}, key : Keys, since : Nat, result : Values]

NoVerdict == [result |-> "none"]
VerdictOf(k, value) == [result |-> IF value = Bad THEN "NotOK" ELSE "OK", key |-> k]
Verdict == {NoVerdict} \cup [result : {"OK", "NotOK"}, key : Keys]

Never == 0

DnsblInit ==
    /\ Init
    /\ lookup = [p \in Procs |-> NoLookup]
    /\ verdict = [p \in Procs |-> NoVerdict]
    /\ listed \in SUBSET Keys
    /\ changed = [k \in Keys |-> Never]
    /\ failed = [k \in Keys |-> Never]

---------------------------------------------------------------------------
(* The world *)

\* The context of a lookup ends after Timeout.
DnsblTick ==
    /\ Tick
    /\ \A p \in Procs : lookup[p].at \in {"ask", "set"} => now < lookup[p].since + Timeout
    /\ UNCHANGED dnsblVars

Relist(k) ==
    /\ listed' = IF k \in listed THEN listed \ {k} ELSE listed \cup {k}
    /\ changed' = [changed EXCEPT ![k] = now]
    /\ UNCHANGED <<vars, lookup, verdict, failed>>

Sweep == Decay /\ UNCHANGED dnsblVars

---------------------------------------------------------------------------
(* lookup *)

Enter(p, k) ==
    /\ lookup[p] = NoLookup
    /\ GetRead(p, k)
    /\ lookup' = [lookup EXCEPT ![p] = IF map[k] = NoEntry
                                       THEN [at |-> "ask", key |-> k, since |-> now]
                                       ELSE [at |-> "get", key |-> k]]
    /\ verdict' = [verdict EXCEPT ![p] = NoVerdict]
    /\ UNCHANGED <<listed, changed, failed>>

\* Mutation: what the map holds is used, expired or not.
HitAny(p) ==
    /\ lookup[p].at = "get" /\ get[p].at = "read"
    /\ get' = [get EXCEPT ![p] = Out] /\ found' = [found EXCEPT ![p] = get[p].entry]
    /\ lookup' = [lookup EXCEPT ![p] = NoLookup]
    /\ verdict' = [verdict EXCEPT ![p] = VerdictOf(lookup[p].key, get[p].entry.value)]
    /\ UNCHANGED <<now, map, listed, changed, failed>>

\* A cached response decides.
Hit(p) ==
    /\ lookup[p].at = "get"
    /\ GetCheck(p)
    /\ IF get'[p] = Out
       THEN /\ lookup' = [lookup EXCEPT ![p] = NoLookup]
            /\ verdict' = [verdict EXCEPT ![p] = VerdictOf(lookup[p].key, found'[p].value)]
       ELSE UNCHANGED <<lookup, verdict>>
    /\ UNCHANGED <<listed, changed, failed>>

\* It had expired and is gone, or another is there by now: ask.
Expired(p) ==
    /\ lookup[p].at = "get"
    /\ GetDelete(p)
    /\ lookup' = [lookup EXCEPT ![p] = [at |-> "ask", key |-> lookup[p].key, since |-> now]]
    /\ UNCHANGED <<verdict, listed, changed, failed>>

\* DNSBL.Lookup: the blocklist answers, or the query fails or times out.
Ask(p) ==
    /\ lookup[p].at = "ask"
    /\ \E fails \in BOOLEAN :
          LET k == lookup[p].key IN
          /\ lookup' = [lookup EXCEPT ![p] =
                [at |-> "set", key |-> k, since |-> lookup[p].since,
                 result |-> IF ~fails /\ k \in listed THEN Bad ELSE Unknown]]
          /\ failed' = IF fails THEN [failed EXCEPT ![k] = now] ELSE failed
    /\ UNCHANGED <<vars, verdict, listed, changed>>

\* Whatever came back is stored, and decides.
Store(p) ==
    /\ lookup[p].at = "set"
    /\ Set(p, lookup[p].key, lookup[p].result, DecayTime)
    /\ lookup' = [lookup EXCEPT ![p] = NoLookup]
    /\ verdict' = [verdict EXCEPT ![p] = VerdictOf(lookup[p].key, lookup[p].result)]
    /\ UNCHANGED <<listed, changed, failed>>

DnsblNext ==
    \/ DnsblTick \/ Sweep
    \/ \E k \in Keys : Relist(k)
    \/ \E p \in Procs : \/ \E k \in Keys : Enter(p, k)
                        \/ Hit(p) \/ Expired(p) \/ Ask(p) \/ Store(p)

DnsblSpec == DnsblInit /\ [][DnsblNext]_allVars

\* The ticker keeps firing until the State is closed.
DnsblFairSpec == DnsblSpec /\ WF_allVars(Sweep)

---------------------------------------------------------------------------
\* Every variable has its type.
DnsblTypeOK ==
    /\ TypeOK
    /\ lookup \in [Procs -> Lookup] /\ verdict \in [Procs -> Verdict]
    /\ listed \subseteq Keys
    /\ changed \in [Keys -> Nat] /\ failed \in [Keys -> Nat]

\* The list has said the same about k for longer than an answer can be old.
Settled(k) == changed[k] + DecayTime + Timeout < now

\* No lookup of k has failed for as long.
Sound(k) == failed[k] + DecayTime + Timeout < now

\* However requests share the cache, an address that was put on the list is
\* let through for at most one decay and one timeout after that, or after the
\* last lookup of it that failed; one that was taken off is refused for no
\* longer than that.
Decides(p) ==
    verdict'[p] # verdict[p] /\ verdict'[p] # NoVerdict =>
        LET k == verdict'[p].key IN
        /\ Settled(k) /\ k \notin listed => verdict'[p].result = "OK"
        /\ Settled(k) /\ Sound(k) /\ k \in listed => verdict'[p].result = "NotOK"
VerdictsFollowList == [][\A p \in Procs : Decides(p)]_allVars
===========================================================================
