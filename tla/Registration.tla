--------------------------- MODULE Registration ---------------------------
(***************************************************************************)
(* The configured challenges of lib/challenge and the pure functions every *)
(* request evaluates over them: when a proof expires, which key a request  *)
(* has for a challenge, and what a stored token is worth.                  *)
(*                                                                         *)
(* A SHA-256 key is modelled by the tuple of values that are hashed: two   *)
(* keys are equal exactly when those values are.  One unit of time is one  *)
(* second, the resolution of the dates in a token.                         *)
(***************************************************************************)
EXTENDS Integers

CONSTANTS
    Challenges,         \* names of the registered challenges
    Runtime,            \* Runtime[c]: the runtime that fills the registration
    Duration,           \* Duration[c]: the registration's Duration
    DefaultDuration,    \* challenge.DefaultDuration, the life of the state cookie
    Conditioned,        \* the challenges with a Condition
    Origins,            \* what a request can come from: an address and its headers
    NetworkPrefix,      \* NetworkPrefix[o]: the /24 or /64 of the address
    IsIPv4,             \* IsIPv4[o]: the address is an IPv4 address
    HeaderSets,         \* the lists of header names a key can be made from
    HeaderValue,        \* HeaderValue[h][o]: the values o sends for the list h
    KeyHeaders,         \* KeyHeaders[c]
    LegacyKeyHeaders,   \* LegacyKeyHeaders[c], or NoHeaders
    NoHeaders, NoToken, NoCookie, NoKey, NoChallenge

Networks == {NetworkPrefix[o] : o \in Origins}

HeaderValues == {HeaderValue[h][o] : h \in HeaderSets, o \in Origins}

\* The runtimes modelled here.  "refresh" stands for the three modes of
\* refresh.go; "http" is the http runtime without an http-cookie parameter.
RuntimeNames == {"cookie", "refresh", "resource-load", "js", "http", "dnsbl"}

VerifyResult == {"None", "Fail", "Skip", "NotOK", "OK"}

VerifyState == {"None", "Pass", "Brief", "Full"}

Class(c) == IF Runtime[c] \in {"http", "dnsbl"} THEN "transparent" ELSE "blocking"

\* Only the js runtime has both a Verify function and a positive
\* VerifyProbability: its stored proofs are re-verified at random.
SpotChecked(c) == Runtime[c] = "js"

Key == [name : Challenges, net : Networks, hdr : HeaderValues,
        until : Nat, v4 : BOOLEAN]

Token == [key : Key, exp : Nat, ok : BOOLEAN]

TokenMap == [Challenges -> Token \cup {NoToken}]

Cookie == [net : Networks, state : TokenMap, exp : Nat]

ASSUME RegistrationAssumption ==
    /\ Runtime \in [Challenges -> RuntimeNames]
    /\ Duration \in [Challenges -> Nat \ {0}]
    /\ DefaultDuration \in Nat \ {0}
    /\ Conditioned \subseteq Challenges
    /\ IsIPv4 \in [Origins -> BOOLEAN]
    /\ KeyHeaders \in [Challenges -> HeaderSets]
    /\ LegacyKeyHeaders \in [Challenges -> HeaderSets \cup {NoHeaders}]

ASSUME NoneAssumption ==
    /\ NoToken \notin Token
    /\ NoCookie \notin Cookie
    /\ NoKey \notin Key
    /\ NoChallenge \notin Challenges
    /\ NoHeaders \notin HeaderSets

---------------------------------------------------------------------------

\* Mutation: the duration is subtracted.
ExpirationInPast(t, d) == t - d

\* d.Time.Add(duration).Round(duration): time.Round rounds to the nearest
\* multiple and rounds half a period up.
Expiration(t, d) ==
    LET s == t + d
        r == s % d
    IN  IF 2 * r < d THEN s - r ELSE s + (d - r)

\* Mutation: the expiry is left out of the key.
KeyWithoutExpiry(c, headers, until, o) ==
    [name |-> c, net |-> NetworkPrefix[o], hdr |-> HeaderValue[headers][o],
     until |-> 0, v4 |-> IsIPv4[o]]

getChallengeKeyForRequest(c, headers, until, o) ==
    [name |-> c, net |-> NetworkPrefix[o], hdr |-> HeaderValue[headers][o],
     until |-> until, v4 |-> IsIPv4[o]]

GetChallengeKeyForRequest(c, until, o) ==
    getChallengeKeyForRequest(c, KeyHeaders[c], until, o)

\* The key of c for a request of origin o that arrived at time t.
RequestKey(c, t, o) == GetChallengeKeyForRequest(c, Expiration(t, Duration[c]), o)

\* Mutation: the key of a stored token is not compared.
VerifyTokenIgnoringKey(c, token, expectedKey, now, spot) ==
    IF token.exp < now
        THEN [result |-> "Fail", state |-> "None", err |-> "expired"]
    ELSE [result |-> IF token.ok THEN "OK" ELSE "NotOK",
          state  |-> "Brief", err |-> "none"]

\* What a stored token is worth.  spot is the outcome of the random spot
\* check: "brief" (not drawn), "ok", or "error" (the runtime failed to run).
VerifyChallengeToken(c, token, expectedKey, now, spot) ==
    IF token.exp < now
        THEN [result |-> "Fail", state |-> "None", err |-> "expired"]
    ELSE IF token.key # expectedKey
        THEN [result |-> "Fail", state |-> "None", err |-> "key"]
    ELSE IF SpotChecked(c) /\ spot = "error"
        THEN [result |-> "Fail", state |-> "Full", err |-> "verify"]
    ELSE IF SpotChecked(c) /\ spot = "ok"
        THEN [result |-> "OK", state |-> "Full", err |-> "none"]
    ELSE [result |-> IF token.ok THEN "OK" ELSE "NotOK",
          state  |-> "Brief", err |-> "none"]

\* The verdict on challenge c for a request: with the current key, then with
\* the legacy key, then skipped because of its condition or because the
\* request follows this very challenge.  issued is the request's
\* __goaway_challenge argument, holds the challenges whose condition is true.
verifyChallenge(c, token, o, time, now, issued, holds, spot) ==
    LET until   == Expiration(time, Duration[c])
        current == VerifyChallengeToken(c, token,
                       GetChallengeKeyForRequest(c, until, o), now, spot)
        checked == IF current.err = "key" /\ LegacyKeyHeaders[c] # NoHeaders
                   THEN VerifyChallengeToken(c, token,
                            getChallengeKeyForRequest(c, LegacyKeyHeaders[c], until, o),
                            now, spot)
                   ELSE current
        verdict == IF token = NoToken
                   THEN [result |-> "Fail", state |-> "None", err |-> "none"]
                   ELSE checked
        gated   == token # NoToken /\ c \in Conditioned /\ c \notin holds
    IN  IF verdict.result # "OK" /\ (gated \/ issued = c)
        THEN [result |-> "Skip", state |-> verdict.state, err |-> verdict.err]
        ELSE verdict

\* The tokens a request starts from: those of its state cookie when the
\* cookie decrypts for this network and has not expired, otherwise none.
verifyChallengeState(cookie, o, now) ==
    IF cookie = NoCookie \/ cookie.net # NetworkPrefix[o] \/ cookie.exp < now
    THEN [c \in Challenges |-> NoToken]
    ELSE cookie.state

\* NewKeyVerifier's verify function, and the js runtime's: the proof the
\* client hands in was made for a key, and is checked against the key of the
\* request that carries it.
VerifyProof(c, key, proof) ==
    IF proof = key THEN "ok"
    ELSE IF Runtime[c] # "js" /\ ~key.v4 /\ proof.v4 THEN "happy-eyeballs"
    ELSE "mismatch"
===========================================================================
