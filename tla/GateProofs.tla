---------------------------- MODULE GateProofs ----------------------------
(***************************************************************************)
(* Proofs about Gate: for any set of challenges, durations, rule, origins  *)
(* and connections, no request reaches the backend of a host whose rule    *)
(* denies without a proof its own client earned within the Duration.       *)
(***************************************************************************)
EXTENDS Gate, TLAPS

---------------------------------------------------------------------------
(* Expiry windows *)

\* time.Round puts the expiry more than half a Duration and at most one and a
\* half Durations after the request.
LEMMA ExpirationBounds ==
  ASSUME NEW t \in Nat, NEW d \in Nat \ {0}
  PROVE  /\ Expiration(t, d) \in Nat
         /\ 2 * Expiration(t, d) > 2 * t + d
         /\ 2 * Expiration(t, d) <= 2 * t + 3 * d
<1> DEFINE r == (t + d) % d
<1>1. r \in Nat /\ r < d
  OBVIOUS
<1>2. Expiration(t, d) = IF 2 * r < d THEN (t + d) - r ELSE (t + d) + (d - r)
  BY DEF Expiration
<1> HIDE DEF r
<1>3. QED
  BY <1>1, <1>2

\* Two requests whose proofs expire together are less than a Duration apart.
LEMMA SameWindow ==
  ASSUME NEW t \in Nat, NEW u \in Nat, NEW d \in Nat \ {0},
         Expiration(t, d) = Expiration(u, d)
  PROVE  t < u + d
<1>1. /\ Expiration(t, d) \in Nat /\ 2 * Expiration(t, d) > 2 * t + d
      /\ 2 * Expiration(u, d) <= 2 * u + 3 * d
  BY ExpirationBounds
<1>2. QED
  BY <1>1

---------------------------------------------------------------------------
(* Keys and verdicts *)

LEMMA KeyType ==
  ASSUME NEW c \in Challenges, NEW h \in HeaderSets, NEW u \in Nat, NEW o \in Origins
  PROVE  /\ getChallengeKeyForRequest(c, h, u, o) \in Key
         /\ getChallengeKeyForRequest(c, h, u, o).until = u
         /\ getChallengeKeyForRequest(c, h, u, o).name = c
<1>1. NetworkPrefix[o] \in Networks /\ HeaderValue[h][o] \in HeaderValues
  BY DEF Networks, HeaderValues
<1>2. IsIPv4[o] \in BOOLEAN
  BY RegistrationAssumption
<1>3. QED
  BY <1>1, <1>2 DEF getChallengeKeyForRequest, Key

LEMMA RequestKeyType ==
  ASSUME NEW c \in Challenges, NEW t \in Nat, NEW o \in Origins
  PROVE  /\ RequestKey(c, t, o) \in Key
         /\ RequestKey(c, t, o).until = Expiration(t, Duration[c])
         /\ RequestKey(c, t, o).name = c
<1>1. Duration[c] \in Nat \ {0} /\ KeyHeaders[c] \in HeaderSets
  BY RegistrationAssumption
<1>2. Expiration(t, Duration[c]) \in Nat
  BY <1>1, ExpirationBounds
<1>3. QED
  BY <1>1, <1>2, KeyType DEF RequestKey, GetChallengeKeyForRequest

LEMMA AcceptedKeysType ==
  ASSUME NEW c \in Challenges, NEW t \in Nat, NEW o \in Origins,
         NEW k \in AcceptedKeys(c, t, o)
  PROVE  k \in Key /\ k.until = Expiration(t, Duration[c]) /\ k.name = c
<1>1. Duration[c] \in Nat \ {0} /\ LegacyKeyHeaders[c] \in HeaderSets \cup {NoHeaders}
  BY RegistrationAssumption
<1>2. Expiration(t, Duration[c]) \in Nat
  BY <1>1, ExpirationBounds
<1>3. CASE k = RequestKey(c, t, o)
  BY <1>3, RequestKeyType
<1>4. CASE k # RequestKey(c, t, o)
  <2>1. /\ LegacyKeyHeaders[c] \in HeaderSets
        /\ k = getChallengeKeyForRequest(c, LegacyKeyHeaders[c], Expiration(t, Duration[c]), o)
    BY <1>1, <1>4 DEF AcceptedKeys
  <2>2. QED
    BY <1>2, <2>1, KeyType
<1>5. QED
  BY <1>3, <1>4

\* A verdict has its type; an OK takes a token whose key the request accepts.
LEMMA VerdictType ==
  ASSUME NEW c \in Challenges, NEW token \in Token \cup {NoToken}, NEW o \in Origins,
         NEW time \in Nat, NEW issued, NEW holds, NEW spot
  PROVE  LET v == verifyChallenge(c, token, o, time, time, issued, holds, spot)
         IN  /\ v.result \in VerifyResult /\ v.state \in VerifyState
             /\ v.result = "OK" => /\ token # NoToken
                                   /\ token.key \in AcceptedKeys(c, time, o)
<1> DEFINE check(key) == VerifyChallengeToken(c, token, key, time, spot)
           until == Expiration(time, Duration[c])
           now1 == GetChallengeKeyForRequest(c, until, o)
           old == getChallengeKeyForRequest(c, LegacyKeyHeaders[c], until, o)
           checked == IF check(now1).err = "key" /\ LegacyKeyHeaders[c] # NoHeaders
                      THEN check(old) ELSE check(now1)
           verdict == IF token = NoToken
                      THEN [result |-> "Fail", state |-> "None", err |-> "none"] ELSE checked
           v == verifyChallenge(c, token, o, time, time, issued, holds, spot)
<1>1. ASSUME NEW key
      PROVE  /\ check(key).result \in VerifyResult \ {"Skip"}
             /\ check(key).state \in VerifyState
             /\ check(key).result = "OK" => token.key = key
  BY DEF VerifyChallengeToken, VerifyResult, VerifyState
<1>2. now1 \in AcceptedKeys(c, time, o)
  BY DEF AcceptedKeys, RequestKey
<1>3. LegacyKeyHeaders[c] # NoHeaders => old \in AcceptedKeys(c, time, o)
  BY DEF AcceptedKeys
<1>4. v = verdict \/ v = [result |-> "Skip", state |-> verdict.state, err |-> verdict.err]
  BY DEF verifyChallenge
<1> HIDE DEF check, now1, old, v
<1>5. /\ checked.result \in VerifyResult /\ checked.state \in VerifyState
      /\ checked.result = "OK" => token.key \in AcceptedKeys(c, time, o)
  BY <1>1, <1>2, <1>3
<1> HIDE DEF checked
<1>6. /\ verdict.result \in VerifyResult /\ verdict.state \in VerifyState
      /\ verdict.result = "OK" => token # NoToken /\ token.key \in AcceptedKeys(c, time, o)
  BY <1>5 DEF VerifyResult, VerifyState
<1> HIDE DEF verdict
<1>7. QED
  BY <1>4, <1>6 DEF VerifyResult, v

---------------------------------------------------------------------------
(* What the handlers do to their RequestData *)

LEMMA NewTokenType ==
  ASSUME NEW c \in Challenges, NEW t \in Nat, NEW o \in Origins, NEW ok \in BOOLEAN
  PROVE  /\ NewToken(c, t, o, ok) \in Token
         /\ NewToken(c, t, o, ok).key = RequestKey(c, t, o)
<1>1. Duration[c] \in Nat \ {0}
  BY RegistrationAssumption
<1>2. Expiration(t, Duration[c]) \in Nat
  BY <1>1, ExpirationBounds
<1>3. RequestKey(c, t, o) \in Key
  BY RequestKeyType
<1>4. QED
  BY <1>2, <1>3 DEF NewToken, Token

\* IssueChallengeToken adds tokens for this request's own key, for challenges
\* that were passed, and leaves everything else alone.
LEMMA IssueType ==
  ASSUME NEW d \in RequestData, NEW o \in Origins, NEW ok,
         DOMAIN ok \subseteq Challenges, \A c \in DOMAIN ok : ok[c] \in BOOLEAN
  PROVE  LET n == IssueChallengeToken(d, o, ok)
         IN  /\ n \in RequestData /\ n.time = d.time
             /\ n.verify = d.verify /\ n.vstate = d.vstate
             /\ \A c \in Challenges : \/ n.state[c] = d.state[c]
                                      \/ /\ c \in DOMAIN ok /\ ok[c]
                                         /\ n.state[c].key = RequestKey(c, d.time, o)
<1> DEFINE issue == {c \in DOMAIN ok : ok[c]}
           st == [c \in Challenges |-> IF c \in issue THEN NewToken(c, d.time, o, ok[c])
                                                      ELSE d.state[c]]
           n == WithTokens(d, st, d.modified \/ issue # {})
<1>1. n = IssueChallengeToken(d, o, ok)
  BY DEF IssueChallengeToken
<1>2. /\ d.time \in Nat /\ d.state \in TokenMap /\ d.modified \in BOOLEAN
      /\ d.verify \in [Challenges -> VerifyResult] /\ d.vstate \in [Challenges -> VerifyState]
  BY DEF RequestData
<1>3. \A c \in Challenges : \/ st[c] = d.state[c] /\ st[c] \in Token \cup {NoToken}
                           \/ /\ c \in DOMAIN ok /\ ok[c] /\ st[c] \in Token
                              /\ st[c].key = RequestKey(c, d.time, o)
  <2> SUFFICES ASSUME NEW c \in Challenges
               PROVE  \/ st[c] = d.state[c] /\ st[c] \in Token \cup {NoToken}
                      \/ /\ c \in DOMAIN ok /\ ok[c] /\ st[c] \in Token
                         /\ st[c].key = RequestKey(c, d.time, o)
    OBVIOUS
  <2>1. CASE c \in issue
    <3>1. c \in DOMAIN ok /\ ok[c] /\ ok[c] \in BOOLEAN
      BY <2>1
    <3>2. st[c] = NewToken(c, d.time, o, ok[c])
      BY <2>1
    <3>3. QED
      BY <1>2, <3>1, <3>2, NewTokenType
  <2>2. CASE c \notin issue
    BY <1>2, <2>2 DEF TokenMap
  <2>3. QED
    BY <2>1, <2>2
<1>4. st \in TokenMap
  BY <1>3 DEF TokenMap
<1>5. (d.modified \/ issue # {}) \in BOOLEAN
  OBVIOUS
<1> HIDE DEF st, issue
<1>6. n \in RequestData /\ n.time = d.time /\ n.verify = d.verify /\ n.vstate = d.vstate
      /\ n.state = st
  BY <1>2, <1>4, <1>5 DEF WithTokens, RequestData
<1> HIDE DEF n
<1>7. QED
  BY <1>1, <1>3, <1>6

LEMMA VerdictsType ==
  ASSUME NEW d \in RequestData, NEW verify \in [Challenges -> VerifyResult],
         NEW vstate \in [Challenges -> VerifyState]
  PROVE  /\ WithVerdicts(d, verify, vstate) \in RequestData
         /\ WithVerdicts(d, verify, vstate).time = d.time
         /\ WithVerdicts(d, verify, vstate).state = d.state
BY DEF WithVerdicts, RequestData

LEMMA RecordType ==
  ASSUME NEW d \in RequestData, NEW out \in [DOMAIN Rule -> VerifyResult]
  PROVE  /\ RecordIssued(d, out) \in RequestData
         /\ RecordIssued(d, out).time = d.time
         /\ RecordIssued(d, out).state = d.state
<1>1. d.verify \in [Challenges -> VerifyResult] /\ d.vstate \in [Challenges -> VerifyState]
  BY DEF RequestData
<1>2. ASSUME NEW c \in Challenges, Recorded(d, out, c) # {}
      PROVE  out[CHOOSE i \in Recorded(d, out, c) : TRUE] \in VerifyResult
  <2>1. (CHOOSE i \in Recorded(d, out, c) : TRUE) \in Recorded(d, out, c)
    BY <1>2
  <2>2. Recorded(d, out, c) \subseteq DOMAIN Rule
    BY DEF Recorded, Visited
  <2>3. QED
    BY <2>1, <2>2
<1>3. IssuedVerify(d, out) \in [Challenges -> VerifyResult]
  BY <1>1, <1>2 DEF IssuedVerify
<1>4. [c \in Challenges |-> IF Recorded(d, out, c) = {} THEN d.vstate[c] ELSE "Pass"]
        \in [Challenges -> VerifyState]
  BY <1>1 DEF VerifyState
<1>5. QED
  BY <1>3, <1>4, VerdictsType DEF RecordIssued

LEMMA HeadersType ==
  ASSUME NEW d \in RequestData, NEW o \in Origins
  PROVE  /\ ResponseHeaders(d, o) \in Cookie \cup {NoCookie}
         /\ ResponseHeaders(d, o) # NoCookie => ResponseHeaders(d, o).state = d.state
<1>1. d.time \in Nat /\ d.state \in TokenMap
  BY DEF RequestData
<1>2. Expiration(d.time, DefaultDuration) \in Nat
  BY <1>1, ExpirationBounds, RegistrationAssumption
<1>3. NetworkPrefix[o] \in Networks
  BY DEF Networks
<1>4. QED
  BY <1>1, <1>2, <1>3 DEF ResponseHeaders, Cookie

---------------------------------------------------------------------------
(* The invariant *)

Inv == TypeOK /\ AllLinksOK /\ ProofsBacked /\ BackendNeedsFreshProof

\* Proofs are never forgotten, so what they back stays backed.
LEMMA BackedStays ==
  ASSUME earned \subseteq earned'
  PROVE  /\ \A st : StateBacked(st) =>
               \A c \in Challenges : st[c] # NoToken => \E e \in earned' : e.key = st[c].key
         /\ \A q \in Req, c \in Challenges :
               data'[q].time = data[q].time /\ sent'[q] = sent[q] /\ Proofs(q, c) # {}
                  => Proofs(q, c)' # {}
<1>1. ASSUME NEW st, StateBacked(st), NEW c \in Challenges, st[c] # NoToken
      PROVE  \E e \in earned' : e.key = st[c].key
  BY <1>1 DEF StateBacked
<1>2. ASSUME NEW q \in Req, NEW c \in Challenges, data'[q].time = data[q].time,
             sent'[q] = sent[q], Proofs(q, c) # {}
      PROVE  Proofs(q, c)' # {}
  <2>1. PICK e \in earned : /\ e.key \in AcceptedKeys(c, data[q].time, sent[q].origin)
                            /\ data[q].time < e.at + Duration[c]
    BY <1>2 DEF Proofs
  <2>2. e \in Proofs(q, c)'
    BY <1>2, <2>1 DEF Proofs, AcceptedKeys
  <2>3. QED
    BY <2>2
<1>3. QED
  BY <1>1, <1>2

\* A handler that answers keeps the invariant when its tokens are backed, the
\* new proofs are made for the window of the request, and the backend is only
\* chosen with a proof.
LEMMA RespondInv ==
  ASSUME Inv, NEW q \in Req, NEW d \in RequestData, NEW kind \in ResponseKind,
         NEW ls \in SUBSET Link, LinksOK(ls), Respond(q, d, kind, ls),
         d.time = data[q].time,
         earned \subseteq earned', earned' \subseteq [key : Key, at : Nat],
         \A e \in earned' : e.key.until = Expiration(e.at, Duration[e.key.name]),
         \A c \in Challenges : d.state[c] # NoToken => \E e \in earned' : e.key = d.state[c].key,
         kind = "backend" /\ FailAction = "DENY" =>
            \E i \in DOMAIN Rule : Proofs(q, Rule[i])' # {}
  PROVE  Inv'
<1> DEFINE set == ResponseHeaders(d, sent[q].origin)
           r == [kind |-> kind, set |-> set, expire |-> FALSE, links |-> ls]
<1>1. sent[q].origin \in Origins
  BY DEF Inv, TypeOK, Request
<1>2. set \in Cookie \cup {NoCookie} /\ (set # NoCookie => set.state = d.state)
  BY <1>1, HeadersType
<1>3. /\ data' = [data EXCEPT ![q] = d] /\ reply' = [reply EXCEPT ![q] = r]
      /\ pc' = [pc EXCEPT ![q] = "replied"] /\ UNCHANGED <<now, sent, jar, links, lost>>
  BY DEF Respond
<1> HIDE DEF set
<1>4. r \in Response /\ r.set = set /\ r.links = ls /\ r.kind = kind
  BY <1>2 DEF Response
<1> HIDE DEF r
<1>5. TypeOK'
  BY <1>3, <1>4 DEF Inv, TypeOK
<1>6. \A p \in Req : /\ data'[p] = IF p = q THEN d ELSE data[p]
                     /\ reply'[p] = IF p = q THEN r ELSE reply[p]
                     /\ pc'[p] = IF p = q THEN "replied" ELSE pc[p]
  BY <1>3 DEF Inv, TypeOK
<1>7. AllLinksOK'
  BY <1>3, <1>4, <1>6 DEF Inv, AllLinksOK, LinksOK
<1>8. \A st : StateBacked(st) =>
         \A c \in Challenges : st[c] # NoToken => \E e \in earned' : e.key = st[c].key
  BY BackedStays
<1>9. \A p \in Req, c \in Challenges : Proofs(p, c) # {} => Proofs(p, c)' # {}
  BY <1>3, <1>6, BackedStays
<1>10. ProofsBacked'
  <2>1. \A n \in Networks : CookieBacked(jar[n])'
    BY <1>3, <1>8 DEF Inv, ProofsBacked, CookieBacked, StateBacked
  <2>2. ASSUME NEW p \in Req
        PROVE  (CookieBacked(sent[p].cookie) /\ StateBacked(data[p].state)
                  /\ CookieBacked(reply[p].set))'
    <3>1. CookieBacked(sent[p].cookie)'
      BY <1>3, <1>8 DEF Inv, ProofsBacked, CookieBacked, StateBacked
    <3>2. StateBacked(data[p].state)'
      <4>1. CASE p = q
        BY <1>6, <4>1 DEF StateBacked
      <4>2. CASE p # q
        BY <1>6, <1>8, <4>2 DEF Inv, ProofsBacked, StateBacked
      <4>3. QED
        BY <4>1, <4>2
    <3>3. CookieBacked(reply[p].set)'
      <4>1. CASE p = q
        BY <1>2, <1>4, <1>6, <4>1 DEF CookieBacked, StateBacked
      <4>2. CASE p # q
        BY <1>6, <1>8, <4>2 DEF Inv, ProofsBacked, CookieBacked, StateBacked
      <4>3. QED
        BY <4>1, <4>2
    <3>4. QED
      BY <3>1, <3>2, <3>3
  <2>3. ASSUME NEW p \in Req, pc'[p] = "evaluated", NEW c \in Challenges,
               data'[p].verify[c] = "OK"
        PROVE  Proofs(p, c)' # {}
    <3>1. p # q /\ pc[p] = "evaluated" /\ data[p].verify[c] = "OK"
      BY <1>6, <2>3
    <3>2. QED
      BY <1>9, <3>1 DEF Inv, ProofsBacked
  <2>4. QED
    BY <2>1, <2>2, <2>3 DEF ProofsBacked
<1>11. BackendNeedsFreshProof'
  <2> SUFFICES ASSUME FailAction = "DENY", NEW p \in Req,
                      pc'[p] = "replied", reply'[p].kind = "backend"
               PROVE  \E i \in DOMAIN Rule : Proofs(p, Rule[i])' # {}
    BY DEF BackendNeedsFreshProof
  <2>1. CASE p = q
    BY <1>4, <1>6, <2>1
  <2>2. CASE p # q
    <3>1. pc[p] = "replied" /\ reply[p].kind = "backend"
      BY <1>6, <2>2
    <3>2. PICK i \in DOMAIN Rule : Proofs(p, Rule[i]) # {}
      BY <3>1 DEF Inv, BackendNeedsFreshProof
    <3>3. Rule[i] \in Challenges
      BY GateAssumption
    <3>4. QED
      BY <1>9, <3>2, <3>3
  <2>3. QED
    BY <2>1, <2>2
<1>12. QED
  BY <1>5, <1>7, <1>10, <1>11 DEF Inv

\* An idle connection carries nothing.
LEMMA NothingType ==
  /\ NoRequest \in Request /\ NoRequest.cookie = NoCookie /\ LinksOK({NoRequest.link})
  /\ NoData \in RequestData /\ \A c \in Challenges : NoData.state[c] = NoToken
  /\ NoReply \in Response /\ NoReply.set = NoCookie /\ NoReply.links = {}
<1>1. \A ch \in Challenges \cup {NoChallenge} :
        Page(ch) \in Link /\ Page(ch).route = "page"
  BY DEF Page, Link
<1>2. (CHOOSE o \in Origins : TRUE) \in Origins
  BY GateAssumption
<1>3. NoRequest \in Request /\ NoRequest.cookie = NoCookie
      /\ NoRequest.link = Page(NoChallenge)
  BY <1>1, <1>2 DEF NoRequest, Request
<1>4. LinksOK({NoRequest.link})
  BY <1>1, <1>3 DEF LinksOK
<1>5. NoData \in RequestData /\ \A c \in Challenges : NoData.state[c] = NoToken
  BY DEF NoData, RequestData, TokenMap, VerifyResult, VerifyState
<1>6. NoReply \in Response /\ NoReply.set = NoCookie /\ NoReply.links = {}
  BY DEF NoReply, Response, ResponseKind
<1>7. QED
  BY <1>3, <1>4, <1>5, <1>6

\* Steps of the browser earn nothing: for a connection q that was changed the
\* parts of the invariant are shown anew, the others keep them.
LEMMA OthersInv ==
  ASSUME Inv, NEW q \in Req, earned' = earned, TypeOK', AllLinksOK',
         \A p \in Req : p # q => /\ data'[p] = data[p] /\ reply'[p] = reply[p]
                                 /\ sent'[p] = sent[p] /\ pc'[p] = pc[p],
         \A n \in Networks : CookieBacked(jar'[n]),
         CookieBacked(sent'[q].cookie), StateBacked(data'[q].state),
         CookieBacked(reply'[q].set),
         pc'[q] # "evaluated",
         pc'[q] # "replied" \/ reply'[q].kind # "backend"
  PROVE  Inv'
<1>1. \A x : (CookieBacked(x) => CookieBacked(x)') /\ (StateBacked(x) => StateBacked(x)')
  BY DEF CookieBacked, StateBacked
<1>2. \A p \in Req, c \in Challenges : p # q /\ Proofs(p, c) # {} => Proofs(p, c)' # {}
  BY DEF Proofs, AcceptedKeys
<1>3. ProofsBacked'
  <2>1. \A n \in Networks : CookieBacked(jar[n])'
    BY DEF CookieBacked, StateBacked
  <2>2. ASSUME NEW p \in Req
        PROVE  (CookieBacked(sent[p].cookie) /\ StateBacked(data[p].state)
                  /\ CookieBacked(reply[p].set))'
    <3>1. CASE p = q
      BY <3>1 DEF CookieBacked, StateBacked
    <3>2. CASE p # q
      BY <3>2 DEF Inv, ProofsBacked, CookieBacked, StateBacked
    <3>3. QED
      BY <3>1, <3>2
  <2>3. ASSUME NEW p \in Req, pc'[p] = "evaluated", NEW c \in Challenges,
               data'[p].verify[c] = "OK"
        PROVE  Proofs(p, c)' # {}
    BY <1>2, <2>3 DEF Inv, ProofsBacked
  <2>4. QED
    BY <2>1, <2>2, <2>3 DEF Inv, ProofsBacked
<1>4. BackendNeedsFreshProof'
  <2> SUFFICES ASSUME FailAction = "DENY", NEW p \in Req,
                      pc'[p] = "replied", reply'[p].kind = "backend"
               PROVE  \E i \in DOMAIN Rule : Proofs(p, Rule[i])' # {}
    BY DEF BackendNeedsFreshProof
  <2>1. p # q /\ pc[p] = "replied" /\ reply[p].kind = "backend"
    OBVIOUS
  <2>2. PICK i \in DOMAIN Rule : Proofs(p, Rule[i]) # {}
    BY <2>1 DEF Inv, BackendNeedsFreshProof
  <2>3. Rule[i] \in Challenges
    BY GateAssumption
  <2>4. QED
    BY <1>2, <2>1, <2>2, <2>3
<1>5. QED
  BY <1>3, <1>4 DEF Inv

LEMMA SendInv ==
  ASSUME Inv, NEW q \in Req, NEW l \in Link, LinksOK({l}), Send(q, l)
  PROVE  Inv'
<1>1. PICK o \in Origins, h \in SUBSET Conditioned :
         sent' = [sent EXCEPT ![q] = [link |-> l, origin |-> o, holds |-> h,
                                      cookie |-> jar[NetworkPrefix[o]]]]
  BY DEF Send
<1> DEFINE new == [link |-> l, origin |-> o, holds |-> h, cookie |-> jar[NetworkPrefix[o]]]
<1>2. NetworkPrefix[o] \in Networks
  BY DEF Networks
<1>3. jar[NetworkPrefix[o]] \in Cookie \cup {NoCookie} /\ CookieBacked(jar[NetworkPrefix[o]])
  BY <1>2 DEF Inv, TypeOK, ProofsBacked
<1>4. new \in Request /\ new.cookie = jar[NetworkPrefix[o]] /\ new.link = l
  BY <1>3, RegistrationAssumption DEF Request
<1>5. sent' = [sent EXCEPT ![q] = new] /\ UNCHANGED <<now, data, reply, jar, links, earned, lost>>
  BY <1>1 DEF Send
<1>6. pc' = [pc EXCEPT ![q] = "sent"]
  BY DEF Send
<1> HIDE DEF new
<1>7. TypeOK'
  BY <1>4, <1>5, <1>6 DEF Inv, TypeOK
<1>8. AllLinksOK'
  BY <1>4, <1>5 DEF Inv, TypeOK, AllLinksOK, LinksOK
<1>9. /\ CookieBacked(sent'[q].cookie) /\ StateBacked(data'[q].state)
      /\ CookieBacked(reply'[q].set) /\ \A n \in Networks : CookieBacked(jar'[n])
  BY <1>3, <1>4, <1>5 DEF Inv, TypeOK, ProofsBacked
<1>10. QED
  BY <1>5, <1>6, <1>7, <1>8, <1>9, OthersInv DEF Inv, TypeOK

LEMMA IdleInv ==
  ASSUME Inv, NEW q \in Req, Idle(q), earned' = earned, now' = now, lost' \in Nat,
         jar' \in [Networks -> Cookie \cup {NoCookie}],
         \A n \in Networks : CookieBacked(jar'[n]),
         links' = links \/ links' = [links EXCEPT ![q] = reply[q].links]
  PROVE  Inv'
<1> USE NothingType
<1>1. /\ pc' = [pc EXCEPT ![q] = "idle"] /\ sent' = [sent EXCEPT ![q] = NoRequest]
      /\ data' = [data EXCEPT ![q] = NoData] /\ reply' = [reply EXCEPT ![q] = NoReply]
  BY DEF Idle
<1>2. reply[q].links \in SUBSET Link /\ LinksOK(reply[q].links)
  BY DEF Inv, TypeOK, AllLinksOK, Response
<1>3. TypeOK'
  BY <1>1, <1>2 DEF Inv, TypeOK
<1>4. AllLinksOK'
  <2> SUFFICES ASSUME NEW p \in Req
               PROVE  (LinksOK(links[p]) /\ LinksOK(reply[p].links) /\ LinksOK({sent[p].link}))'
    BY DEF AllLinksOK
  <2>1. /\ links'[p] = links[p] \/ links'[p] = reply[q].links
        /\ reply'[p] = reply[p] \/ reply'[p].links = {}
        /\ sent'[p] = sent[p] \/ sent'[p] = NoRequest
    BY <1>1 DEF Inv, TypeOK
  <2>2. QED
    BY <1>2, <2>1 DEF Inv, AllLinksOK, LinksOK
<1>5. /\ CookieBacked(sent'[q].cookie) /\ StateBacked(data'[q].state)
      /\ CookieBacked(reply'[q].set)
  BY <1>1 DEF Inv, TypeOK, CookieBacked, StateBacked
<1>6. QED
  BY <1>1, <1>3, <1>4, <1>5, OthersInv DEF Inv, TypeOK

\* The browser stores a cookie that is backed, or drops one.
LEMMA ReceiveInv ==
  ASSUME Inv, NEW q \in Req, Receive(q)
  PROVE  Inv'
<1>1. reply[q].set \in Cookie \cup {NoCookie} /\ CookieBacked(reply[q].set)
  BY DEF Inv, TypeOK, ProofsBacked, Response
<1>2. reply[q].set # NoCookie => reply[q].set.net \in Networks
  BY <1>1 DEF Cookie
<1>3. jar' \in [Networks -> Cookie \cup {NoCookie}]
  BY <1>1 DEF Receive, Inv, TypeOK
<1>4. \A n \in Networks : CookieBacked(jar'[n])
  <2> SUFFICES ASSUME NEW n \in Networks PROVE CookieBacked(jar'[n])
    OBVIOUS
  <2>1. jar'[n] \in {jar[n], NoCookie, reply[q].set}
    BY DEF Receive, Inv, TypeOK
  <2>2. QED
    BY <1>1, <2>1 DEF Inv, ProofsBacked, CookieBacked
<1>5. QED
  BY <1>3, <1>4, IdleInv DEF Receive, Inv, TypeOK

\* A verdict of OK is given to an earned token of the request's own window.
LEMMA EvaluateInv ==
  ASSUME Inv, NEW q \in Req, EvaluateChallenges(q)
  PROVE  Inv'
<1> DEFINE rq == sent[q]
           st == verifyChallengeState(rq.cookie, rq.origin, now)
<1>1. PICK spot \in [Challenges -> {"brief", "ok", "error"}] :
        data' = [data EXCEPT ![q] =
          [time |-> now, modified |-> FALSE,
           state  |-> [c \in Challenges |->
                         IF verifyChallenge(c, st[c], rq.origin, now, now, rq.link.ch,
                                            rq.holds, spot[c]).err # "none"
                         THEN NoToken ELSE st[c]],
           verify |-> [c \in Challenges |->
                         verifyChallenge(c, st[c], rq.origin, now, now, rq.link.ch,
                                         rq.holds, spot[c]).result],
           vstate |-> [c \in Challenges |->
                         verifyChallenge(c, st[c], rq.origin, now, now, rq.link.ch,
                                         rq.holds, spot[c]).state]]]
  BY ZenonT(60) DEF EvaluateChallenges
<1> DEFINE v(c) == verifyChallenge(c, st[c], rq.origin, now, now, rq.link.ch, rq.holds, spot[c])
           new == [time |-> now, modified |-> FALSE,
                   state  |-> [c \in Challenges |-> IF v(c).err # "none" THEN NoToken
                                                                        ELSE st[c]],
                   verify |-> [c \in Challenges |-> v(c).result],
                   vstate |-> [c \in Challenges |-> v(c).state]]
<1>2. data' = [data EXCEPT ![q] = new]
  BY <1>1
<1>3. /\ pc' = [pc EXCEPT ![q] = "evaluated"]
      /\ UNCHANGED <<now, sent, reply, jar, links, earned, lost>>
  BY DEF EvaluateChallenges
<1>4. /\ now \in Nat /\ rq.origin \in Origins /\ rq.cookie \in Cookie \cup {NoCookie}
      /\ CookieBacked(rq.cookie)
  BY DEF Inv, TypeOK, Request, ProofsBacked
<1>5. st \in TokenMap /\ StateBacked(st)
  BY <1>4 DEF verifyChallengeState, Cookie, TokenMap, CookieBacked, StateBacked
<1> HIDE DEF st, rq
<1>6. \A c \in Challenges : st[c] \in Token \cup {NoToken}
  BY <1>5 DEF TokenMap
<1>7. \A c \in Challenges :
        /\ v(c).result \in VerifyResult /\ v(c).state \in VerifyState
        /\ v(c).result = "OK" => /\ st[c] # NoToken
                                 /\ st[c].key \in AcceptedKeys(c, now, rq.origin)
  BY <1>4, <1>6, VerdictType
<1> HIDE DEF v
<1>8. new \in RequestData /\ new.time = now
      /\ (\A c \in Challenges : new.verify[c] = v(c).result)
      /\ (\A c \in Challenges : new.state[c] \in {NoToken, st[c]})
  BY <1>4, <1>6, <1>7 DEF RequestData, TokenMap
<1> HIDE DEF new
<1>9. TypeOK'
  BY <1>2, <1>3, <1>8 DEF Inv, TypeOK
<1>10. AllLinksOK'
  BY <1>3 DEF Inv, AllLinksOK, LinksOK
<1>11. \A p \in Req : /\ data'[p] = IF p = q THEN new ELSE data[p]
                      /\ pc'[p] = IF p = q THEN "evaluated" ELSE pc[p]
  BY <1>2, <1>3 DEF Inv, TypeOK
<1>12. \A p \in Req, c \in Challenges : p # q /\ Proofs(p, c) # {} => Proofs(p, c)' # {}
  BY <1>3, <1>11 DEF Proofs, AcceptedKeys
<1>13. ASSUME NEW c \in Challenges, v(c).result = "OK" PROVE Proofs(q, c)' # {}
  <2>1. st[c] # NoToken /\ st[c].key \in AcceptedKeys(c, now, rq.origin)
    BY <1>7, <1>13
  <2>2. PICK e \in earned : e.key = st[c].key
    BY <1>5, <2>1 DEF StateBacked
  <2>3. e.key.until = Expiration(now, Duration[c]) /\ e.key.name = c
    BY <1>4, <2>1, <2>2, AcceptedKeysType
  <2>4. e.key.until = Expiration(e.at, Duration[c]) /\ e.at \in Nat
    BY <2>3 DEF Inv, ProofsBacked, TypeOK
  <2>5. Duration[c] \in Nat \ {0}
    BY RegistrationAssumption
  <2>6. now < e.at + Duration[c]
    BY <1>4, <2>3, <2>4, <2>5, SameWindow
  <2>7. data'[q].time = now /\ sent'[q].origin = rq.origin
    BY <1>3, <1>8, <1>11 DEF rq
  <2>8. e \in Proofs(q, c)'
    BY <1>3, <2>1, <2>2, <2>6, <2>7 DEF Proofs, AcceptedKeys
  <2>9. QED
    BY <2>8
<1>14. ProofsBacked'
  <2>1. \A e \in earned' : e.key.until = Expiration(e.at, Duration[e.key.name])
    BY <1>3 DEF Inv, ProofsBacked
  <2>2. \A n \in Networks : CookieBacked(jar[n])'
    BY <1>3 DEF Inv, ProofsBacked, CookieBacked, StateBacked
  <2>3. \A p \in Req : (CookieBacked(sent[p].cookie) /\ CookieBacked(reply[p].set))'
    BY <1>3 DEF Inv, ProofsBacked, CookieBacked, StateBacked
  <2>4. ASSUME NEW p \in Req PROVE StateBacked(data[p].state)'
    <3>1. CASE p = q
      BY <1>3, <1>5, <1>8, <1>11, <3>1 DEF StateBacked
    <3>2. CASE p # q
      BY <1>3, <1>11, <3>2 DEF Inv, ProofsBacked, StateBacked
    <3>3. QED
      BY <3>1, <3>2
  <2>5. ASSUME NEW p \in Req, pc'[p] = "evaluated", NEW c \in Challenges,
               data'[p].verify[c] = "OK"
        PROVE  Proofs(p, c)' # {}
    <3>1. CASE p = q
      BY <1>8, <1>11, <1>13, <2>5, <3>1
    <3>2. CASE p # q
      BY <1>11, <1>12, <2>5, <3>2 DEF Inv, ProofsBacked
    <3>3. QED
      BY <3>1, <3>2
  <2>6. QED
    BY <2>1, <2>2, <2>3, <2>4, <2>5 DEF ProofsBacked
<1>15. BackendNeedsFreshProof'
  <2> SUFFICES ASSUME FailAction = "DENY", NEW p \in Req,
                      pc'[p] = "replied", reply'[p].kind = "backend"
               PROVE  \E i \in DOMAIN Rule : Proofs(p, Rule[i])' # {}
    BY DEF BackendNeedsFreshProof
  <2>1. p # q /\ pc[p] = "replied" /\ reply[p].kind = "backend"
    BY <1>3, <1>11
  <2>2. PICK i \in DOMAIN Rule : Proofs(p, Rule[i]) # {}
    BY <2>1 DEF Inv, BackendNeedsFreshProof
  <2>3. Rule[i] \in Challenges
    BY GateAssumption
  <2>4. QED
    BY <1>12, <2>1, <2>2, <2>3
<1>16. QED
  BY <1>9, <1>10, <1>14, <1>15 DEF Inv

\* An answer other than the backend's, with nothing earned.
LEMMA AnswerInv ==
  ASSUME Inv, NEW q \in Req, NEW kind \in ResponseKind \ {"backend"}, NEW ls \in SUBSET Link,
         LinksOK(ls), Respond(q, data[q], kind, ls), earned' = earned
  PROVE  Inv'
<1>1. data[q] \in RequestData /\ earned' \subseteq [key : Key, at : Nat]
  BY DEF Inv, TypeOK
<1>2. \A e \in earned' : e.key.until = Expiration(e.at, Duration[e.key.name])
  BY DEF Inv, ProofsBacked
<1>3. \A c \in Challenges : data[q].state[c] # NoToken =>
         \E e \in earned' : e.key = data[q].state[c].key
  BY DEF Inv, ProofsBacked, StateBacked
<1>4. QED
  BY <1>1, <1>2, <1>3, RespondInv

LEMMA HandleValidInv ==
  ASSUME Inv, NEW q \in Req, HandleValid(q)
  PROVE  Inv'
<1>1. /\ pc[q] = "evaluated" /\ Respond(q, data[q], "backend", {}) /\ earned' = earned
      /\ \E i \in DOMAIN Rule : data[q].verify[Rule[i]] = "OK"
  BY DEF HandleValid, Evaluated, HasValidChallenge
<1>2. data[q] \in RequestData /\ earned' \subseteq [key : Key, at : Nat]
  BY <1>1 DEF Inv, TypeOK
<1>3. \A e \in earned' : e.key.until = Expiration(e.at, Duration[e.key.name])
  BY <1>1 DEF Inv, ProofsBacked
<1>4. \A c \in Challenges : data[q].state[c] # NoToken =>
         \E e \in earned' : e.key = data[q].state[c].key
  BY <1>1 DEF Inv, ProofsBacked, StateBacked
<1>5. PICK i \in DOMAIN Rule : data[q].verify[Rule[i]] = "OK"
  BY <1>1
<1>6. Rule[i] \in Challenges
  BY GateAssumption
<1>7. Proofs(q, Rule[i]) # {}
  BY <1>1, <1>5, <1>6 DEF Inv, ProofsBacked
<1>8. data'[q] = data[q] /\ sent'[q] = sent[q]
  BY <1>1 DEF Respond, Inv, TypeOK
<1>9. Proofs(q, Rule[i])' # {}
  BY <1>1, <1>6, <1>7, <1>8, BackedStays
<1>10. "backend" \in ResponseKind /\ LinksOK({})
  BY DEF ResponseKind, LinksOK
<1>11. QED
  BY <1>1, <1>2, <1>3, <1>4, <1>9, <1>10, RespondInv

\* The links of an issued challenge are for its own key.
LEMMA IssuedLinksType ==
  ASSUME Inv, NEW q \in Req, NEW c \in Challenges
  PROVE  IssuedLinks(c, q) \in SUBSET Link /\ LinksOK(IssuedLinks(c, q))
<1> DEFINE key == RequestKey(c, data[q].time, sent[q].origin)
           ver == [route |-> "verify", ch |-> c, key |-> key, back |-> c]
           mk == [route |-> "make", ch |-> c, key |-> NoKey, back |-> sent[q].link.ch]
<1>1. data[q].time \in Nat /\ sent[q].origin \in Origins
      /\ sent[q].link.ch \in Challenges \cup {NoChallenge}
  BY DEF Inv, TypeOK, RequestData, Request, Link
<1>2. key \in Key
  BY <1>1, RequestKeyType
<1> HIDE DEF key
<1>3. /\ ver \in Link /\ ver.ch = c /\ ver.key = key
      /\ mk \in Link /\ mk.ch = c /\ mk.route = "make"
      /\ Page(c) \in Link /\ Page(c).route = "page"
  BY <1>1, <1>2 DEF Link, Page
<1>4. IssuedLinks(c, q) \subseteq {ver, mk, Page(c)}
  BY DEF IssuedLinks, VerifyLink, CookieLinks, RefreshLinks, ResourceLoadLinks, ScriptLinks, key
<1> HIDE DEF ver, mk
<1>5. QED
  BY <1>2, <1>3, <1>4 DEF LinksOK

\* Challenges that were really passed while issuing are in the domain of
\* Attempts, and nothing else is stored.
LEMMA AttemptsType ==
  ASSUME NEW d \in RequestData, NEW out \in [DOMAIN Rule -> VerifyResult]
  PROVE  /\ DOMAIN Attempts(d, out) \in SUBSET Challenges
         /\ Attempts(d, out) \in [DOMAIN Attempts(d, out) -> BOOLEAN]
         /\ \A i \in Visited(d, out) :
               out[i] = "OK" /\ out[i] \in IssueResults(Rule[i]) =>
                  Rule[i] \in DOMAIN Attempts(d, out) /\ Attempts(d, out)[Rule[i]]
<1> DEFINE tried == {i \in Visited(d, out) : Runtime[Rule[i]] \in {"cookie", "dnsbl", "http"}
                                             /\ out[i] # "Fail"}
           D == {Rule[i] : i \in tried}
<1>1. Attempts(d, out) = [c \in D |-> \E i \in tried : Rule[i] = c /\ out[i] # "NotOK"]
  BY DEF Attempts
<1>2. D \subseteq Challenges
  BY GateAssumption DEF Visited
<1>3. ASSUME NEW i \in Visited(d, out), out[i] = "OK", out[i] \in IssueResults(Rule[i])
      PROVE  i \in tried
  BY <1>3 DEF IssueResults, DnsblResults, HttpResults
<1> HIDE DEF tried
<1>4. QED
  BY <1>1, <1>2, <1>3

\* What a handler earns at time t is earned in the window of its key, and it
\* is accepted for the very request that earned it.
LEMMA EarnedType ==
  ASSUME Inv, NEW q \in Req, NEW S \in SUBSET Challenges,
         earned' = earned \cup {[key |-> RequestKey(c, data[q].time, sent[q].origin),
                                at |-> data[q].time] : c \in S},
         data'[q].time = data[q].time, sent'[q] = sent[q]
  PROVE  /\ earned \subseteq earned' /\ earned' \subseteq [key : Key, at : Nat]
         /\ \A e \in earned' : e.key.until = Expiration(e.at, Duration[e.key.name])
         /\ \A c \in S : /\ \E e \in earned' :
                               e.key = RequestKey(c, data[q].time, sent[q].origin)
                         /\ Proofs(q, c)' # {}
<1> DEFINE new(c) == [key |-> RequestKey(c, data[q].time, sent[q].origin), at |-> data[q].time]
<1>1. data[q].time \in Nat /\ sent[q].origin \in Origins
  BY DEF Inv, TypeOK, RequestData, Request
<1>2. ASSUME NEW c \in S
      PROVE  /\ new(c) \in [key : Key, at : Nat]
             /\ new(c).key = RequestKey(c, data[q].time, sent[q].origin)
             /\ new(c).at = data[q].time
             /\ new(c).key.until = Expiration(new(c).at, Duration[new(c).key.name])
  BY <1>1, RequestKeyType
<1>3. earned' = earned \cup {new(c) : c \in S}
  OBVIOUS
<1> HIDE DEF new
<1>4. earned \subseteq earned' /\ earned' \subseteq [key : Key, at : Nat]
  BY <1>2, <1>3 DEF Inv, TypeOK
<1>5. \A e \in earned' : e.key.until = Expiration(e.at, Duration[e.key.name])
  BY <1>2, <1>3 DEF Inv, ProofsBacked
<1>6. ASSUME NEW c \in S PROVE new(c) \in Proofs(q, c)'
  <2>1. new(c) \in earned' /\ Duration[c] \in Nat \ {0}
    BY <1>3, RegistrationAssumption
  <2>2. new(c).key \in AcceptedKeys(c, data'[q].time, sent'[q].origin)
    BY <1>2 DEF AcceptedKeys
  <2>3. data'[q].time < new(c).at + Duration[c]
    BY <1>1, <1>2, <2>1
  <2>4. QED
    BY <2>1, <2>2, <2>3 DEF Proofs, AcceptedKeys
<1>7. QED
  BY <1>2, <1>3, <1>4, <1>5, <1>6

LEMMA HandleIssueInv ==
  ASSUME Inv, NEW q \in Req, HandleIssue(q)
  PROVE  Inv'
<1> DEFINE o == sent[q].origin
           ok(out) == Attempts(data[q], out)
           S(out) == {e \in DOMAIN ok(out) : ok(out)[e]}
           d(out) == IssueChallengeToken(RecordIssued(data[q], out), o, ok(out))
           last(out) == {i \in Visited(data[q], out) : Stops(data[q], out, i)}
<1>1. PICK out \in [DOMAIN Rule -> VerifyResult] :
        /\ \A i \in DOMAIN Rule : out[i] \in IssueResults(Rule[i])
        /\ earned' = earned \cup {[key |-> RequestKey(c, data[q].time, o),
                                  at |-> data[q].time] : c \in S(out)}
        /\ IF last(out) = {}
           THEN Respond(q, d(out), IF FailAction = "DENY" THEN "denied" ELSE "backend", {})
           ELSE \E i \in last(out) :
                  IF out[i] = "OK" THEN Respond(q, d(out), "backend", {})
                  ELSE Respond(q, d(out), IF Runtime[Rule[i]] = "cookie" THEN "redirect"
                                                                         ELSE "challenge",
                               IssuedLinks(Rule[i], q))
  BY DEF HandleIssue
<1>2. data[q] \in RequestData /\ o \in Origins
  BY DEF Inv, TypeOK, Request
<1>3. /\ DOMAIN ok(out) \in SUBSET Challenges /\ ok(out) \in [DOMAIN ok(out) -> BOOLEAN]
      /\ S(out) \in SUBSET Challenges
  BY <1>2, AttemptsType
<1>4. /\ RecordIssued(data[q], out) \in RequestData
      /\ RecordIssued(data[q], out).time = data[q].time
      /\ RecordIssued(data[q], out).state = data[q].state
  BY <1>2, RecordType
<1>5. /\ d(out) \in RequestData /\ d(out).time = data[q].time
      /\ \A c \in Challenges : \/ d(out).state[c] = data[q].state[c]
                               \/ /\ c \in S(out)
                                  /\ d(out).state[c].key = RequestKey(c, data[q].time, o)
  <2> DEFINE r == RecordIssued(data[q], out)
             a == ok(out)
             n == IssueChallengeToken(r, o, a)
  <2>1. /\ r \in RequestData /\ DOMAIN a \subseteq Challenges
        /\ \A c \in DOMAIN a : a[c] \in BOOLEAN
    BY <1>3, <1>4
  <2> HIDE DEF r, a
  <2>2. /\ n \in RequestData /\ n.time = r.time
        /\ \A c \in Challenges : \/ n.state[c] = r.state[c]
                                 \/ /\ c \in DOMAIN a /\ a[c]
                                    /\ n.state[c].key = RequestKey(c, r.time, o)
    BY <1>2, <2>1, IssueType
  <2> HIDE DEF n
  <2>3. d(out) = n /\ S(out) = {c \in DOMAIN a : a[c]}
    BY DEF n, r, a
  <2>4. r.time = data[q].time /\ r.state = data[q].state
    BY <1>4 DEF r
  <2> HIDE DEF d, S
  <2>5. QED
    BY <2>2, <2>3, <2>4
<1>6. \A i \in last(out) : i \in DOMAIN Rule /\ Rule[i] \in Challenges
                           /\ (out[i] = "OK" => Rule[i] \in S(out))
  <2> SUFFICES ASSUME NEW i \in last(out)
               PROVE  i \in DOMAIN Rule /\ Rule[i] \in Challenges
                      /\ (out[i] = "OK" => Rule[i] \in S(out))
    OBVIOUS
  <2>1. i \in Visited(data[q], out) /\ i \in DOMAIN Rule
    BY DEF Visited
  <2>2. QED
    BY <1>1, <1>2, <2>1, AttemptsType, GateAssumption
<1> HIDE DEF d, last, S, ok
<1>7. \E kind \in ResponseKind, ls \in SUBSET Link :
        /\ LinksOK(ls) /\ Respond(q, d(out), kind, ls)
        /\ kind = "backend" /\ FailAction = "DENY" => \E i \in DOMAIN Rule : Rule[i] \in S(out)
  <2>1. LinksOK({}) /\ {} \in SUBSET Link
    BY DEF LinksOK
  <2>2. {"denied", "backend", "redirect", "challenge"} \subseteq ResponseKind
    BY DEF ResponseKind
  <2>3. CASE last(out) = {}
    BY <1>1, <2>1, <2>2, <2>3
  <2>4. CASE last(out) # {}
    <3>1. PICK i \in last(out) :
            IF out[i] = "OK" THEN Respond(q, d(out), "backend", {})
            ELSE Respond(q, d(out), IF Runtime[Rule[i]] = "cookie" THEN "redirect"
                                                                   ELSE "challenge",
                         IssuedLinks(Rule[i], q))
      BY <1>1, <2>4
    <3>2. CASE out[i] = "OK"
      BY <1>6, <2>1, <2>2, <3>1, <3>2
    <3>3. CASE out[i] # "OK"
      <4>1. IssuedLinks(Rule[i], q) \in SUBSET Link /\ LinksOK(IssuedLinks(Rule[i], q))
        BY <1>6, IssuedLinksType
      <4>2. QED
        BY <2>2, <3>1, <3>3, <4>1
    <3>4. QED
      BY <3>2, <3>3
  <2>5. QED
    BY <2>3, <2>4
<1>8. PICK kind \in ResponseKind, ls \in SUBSET Link :
        /\ LinksOK(ls) /\ Respond(q, d(out), kind, ls)
        /\ kind = "backend" /\ FailAction = "DENY" => \E i \in DOMAIN Rule : Rule[i] \in S(out)
  BY <1>7
<1>9. data'[q].time = data[q].time /\ sent'[q] = sent[q]
  BY <1>5, <1>8 DEF Respond, Inv, TypeOK
<1>10. /\ earned \subseteq earned' /\ earned' \subseteq [key : Key, at : Nat]
       /\ \A e \in earned' : e.key.until = Expiration(e.at, Duration[e.key.name])
       /\ \A c \in S(out) : /\ \E e \in earned' : e.key = RequestKey(c, data[q].time, o)
                            /\ Proofs(q, c)' # {}
  BY <1>1, <1>3, <1>9, EarnedType
<1>11. ASSUME NEW c \in Challenges, d(out).state[c] # NoToken
       PROVE  \E e \in earned' : e.key = d(out).state[c].key
  <2>1. CASE d(out).state[c] = data[q].state[c]
    BY <1>10, <1>11, <2>1 DEF Inv, ProofsBacked, StateBacked
  <2>2. CASE d(out).state[c] # data[q].state[c]
    BY <1>5, <1>10, <2>2
  <2>3. QED
    BY <2>1, <2>2
<1>12. kind = "backend" /\ FailAction = "DENY" =>
         \E i \in DOMAIN Rule : Proofs(q, Rule[i])' # {}
  BY <1>8, <1>10
<1>13. QED
  BY <1>5, <1>8, <1>10, <1>11, <1>12, RespondInv

LEMMA MakeChallengeInv ==
  ASSUME Inv, NEW q \in Req, MakeChallenge(q)
  PROVE  Inv'
<1> DEFINE l == sent[q].link
           key == RequestKey(l.ch, data[q].time, sent[q].origin)
           ver == [route |-> "verify", ch |-> l.ch, back |-> l.back, key |-> key]
<1>1. /\ earned' = earned /\ l.route = "make"
      /\ Respond(q, data[q], "data", {ver}) \/ Respond(q, data[q], "error", {})
  BY DEF MakeChallenge, Evaluated
<1>2. /\ data[q].time \in Nat /\ sent[q].origin \in Origins /\ l \in Link
      /\ l.back \in Challenges \cup {NoChallenge} /\ l.ch \in Challenges
  BY <1>1 DEF Inv, TypeOK, RequestData, Request, Link, AllLinksOK, LinksOK
<1>3. key \in Key
  BY <1>2, RequestKeyType
<1> HIDE DEF key, l
<1>4. ver \in Link /\ ver.ch = l.ch /\ ver.key = key
  BY <1>2, <1>3 DEF Link
<1> HIDE DEF ver
<1>5. LinksOK({ver}) /\ LinksOK({}) /\ {"data", "error"} \subseteq ResponseKind \ {"backend"}
  BY <1>2, <1>3, <1>4 DEF LinksOK, ResponseKind
<1>6. QED
  BY <1>1, <1>4, <1>5, AnswerInv

LEMMA VerifyPassInv ==
  ASSUME Inv, NEW q \in Req, VerifyPass(q)
  PROVE  Inv'
<1> DEFINE l == sent[q].link
           o == sent[q].origin
           c0 == l.ch
           ok == [c \in {c0} |-> TRUE]
           n == IssueChallengeToken(data[q], o, ok)
           verify == [data[q].verify EXCEPT ![c0] = "OK"]
           d == WithVerdicts(n, verify, data[q].vstate)
<1>1. /\ l.route = "verify"
      /\ earned' = earned \cup {[key |-> RequestKey(c0, data[q].time, o), at |-> data[q].time]}
      /\ Respond(q, d, "css", {}) \/ Respond(q, d, "redirect", {Page(l.back)})
  BY DEF VerifyPass, Evaluated
<1>2. /\ data[q] \in RequestData /\ data[q].time \in Nat /\ o \in Origins /\ l \in Link
      /\ l.back \in Challenges \cup {NoChallenge} /\ c0 \in Challenges
      /\ data[q].verify \in [Challenges -> VerifyResult]
      /\ data[q].vstate \in [Challenges -> VerifyState]
  BY <1>1 DEF Inv, TypeOK, RequestData, Request, Link, AllLinksOK, LinksOK
<1>3. DOMAIN ok \subseteq Challenges /\ \A c \in DOMAIN ok : ok[c] \in BOOLEAN /\ c = c0
  BY <1>2
<1>4. verify \in [Challenges -> VerifyResult]
  BY <1>2 DEF VerifyResult
<1> HIDE DEF ok, verify, l, o, c0
<1>5. /\ n \in RequestData /\ n.time = data[q].time
      /\ \A c \in Challenges : \/ n.state[c] = data[q].state[c]
                               \/ c = c0 /\ n.state[c].key = RequestKey(c, data[q].time, o)
  BY <1>2, <1>3, IssueType
<1> HIDE DEF n
<1>6. d \in RequestData /\ d.time = data[q].time /\ d.state = n.state
  BY <1>2, <1>4, <1>5, VerdictsType
<1> HIDE DEF d
<1>7. Page(l.back) \in Link /\ LinksOK({Page(l.back)}) /\ LinksOK({})
  BY <1>2 DEF Page, Link, LinksOK
<1>8. PICK kind \in {"css", "redirect"}, ls \in {{}, {Page(l.back)}} : Respond(q, d, kind, ls)
  BY <1>1
<1>9. data'[q].time = data[q].time /\ sent'[q] = sent[q]
  BY <1>6, <1>8 DEF Respond, Inv, TypeOK
<1>10. earned' = earned \cup {[key |-> RequestKey(c, data[q].time, sent[q].origin),
                              at |-> data[q].time] : c \in {c0}}
  BY <1>1 DEF o
<1>11. /\ earned \subseteq earned' /\ earned' \subseteq [key : Key, at : Nat]
       /\ \A e \in earned' : e.key.until = Expiration(e.at, Duration[e.key.name])
       /\ \E e \in earned' : e.key = RequestKey(c0, data[q].time, o)
  <2>1. {c0} \in SUBSET Challenges
    BY <1>2
  <2>2. /\ earned \subseteq earned' /\ earned' \subseteq [key : Key, at : Nat]
        /\ \A e \in earned' : e.key.until = Expiration(e.at, Duration[e.key.name])
    BY <1>9, <1>10, <2>1, EarnedType
  <2>3. [key |-> RequestKey(c0, data[q].time, o), at |-> data[q].time] \in earned'
    BY <1>1
  <2>4. QED
    BY <2>2, <2>3
<1>12. ASSUME NEW c \in Challenges, d.state[c] # NoToken
       PROVE  \E e \in earned' : e.key = d.state[c].key
  <2>1. CASE d.state[c] = data[q].state[c]
    BY <1>11, <1>12, <2>1 DEF Inv, ProofsBacked, StateBacked
  <2>2. CASE d.state[c] # data[q].state[c]
    BY <1>5, <1>6, <1>11, <2>2
  <2>3. QED
    BY <2>1, <2>2
<1>13. kind \in ResponseKind /\ kind # "backend" /\ ls \in SUBSET Link /\ LinksOK(ls)
  BY <1>7 DEF ResponseKind
<1>14. QED
  BY <1>6, <1>8, <1>11, <1>12, <1>13, RespondInv

LEMMA VerifyRejectInv ==
  ASSUME Inv, NEW q \in Req, VerifyReject(q)
  PROVE  Inv'
<1> DEFINE retry == [route |-> "retry", ch |-> NoChallenge, key |-> NoKey, back |-> NoChallenge]
<1>1. retry \in Link /\ LinksOK({retry}) /\ LinksOK({})
  BY DEF Link, LinksOK
<1>2. {"bad-request", "css", "redirect", "forbidden"} \subseteq ResponseKind \ {"backend"}
  BY DEF ResponseKind
<1>3. earned' = earned /\ \E kind \in {"bad-request", "css", "redirect", "forbidden"} :
                             \E ls \in {{}, {retry}} : Respond(q, data[q], kind, ls)
  BY DEF VerifyReject
<1> HIDE DEF retry
<1>4. QED
  BY <1>1, <1>2, <1>3, AnswerInv

LEMMA ClearInv ==
  ASSUME Inv, NEW q \in Req, ClearChallengeState(q)
  PROVE  Inv'
<1> DEFINE allowed == allowChallengeStateClear(sent[q].link.route)
           r == [kind |-> IF allowed THEN "cleared" ELSE "forbidden",
                 set |-> NoCookie, expire |-> allowed, links |-> {}]
<1>1. /\ reply' = [reply EXCEPT ![q] = r] /\ pc' = [pc EXCEPT ![q] = "replied"]
      /\ UNCHANGED <<now, sent, data, jar, links, earned, lost>>
  BY DEF ClearChallengeState
<1>2. allowed \in BOOLEAN
  BY DEF allowChallengeStateClear
<1> HIDE DEF allowed
<1>3. r \in Response /\ r.set = NoCookie /\ r.links = {} /\ r.kind # "backend"
  BY <1>2 DEF Response, ResponseKind
<1> HIDE DEF r
<1>4. TypeOK'
  BY <1>1, <1>3 DEF Inv, TypeOK
<1>5. AllLinksOK'
  BY <1>1, <1>3 DEF Inv, TypeOK, AllLinksOK, LinksOK
<1>6. /\ CookieBacked(sent'[q].cookie) /\ StateBacked(data'[q].state)
      /\ CookieBacked(reply'[q].set) /\ \A n \in Networks : CookieBacked(jar'[n])
  BY <1>1, <1>3 DEF Inv, TypeOK, ProofsBacked, CookieBacked
<1>7. QED
  BY <1>1, <1>3, <1>4, <1>5, <1>6, OthersInv DEF Inv, TypeOK

LEMMA InitInv == Init => Inv
<1> SUFFICES ASSUME Init PROVE Inv
  OBVIOUS
<1> USE NothingType
<1>1. InitBase
  BY DEF Init
<1>2. /\ now \in Nat /\ lost \in Nat
      /\ pc \in [Req -> {"idle", "sent", "evaluated", "replied"}]
      /\ sent \in [Req -> Request] /\ data \in [Req -> RequestData]
      /\ reply \in [Req -> Response] /\ links \in [Req -> SUBSET Link]
  BY <1>1 DEF InitBase
<1>3. AllLinksOK
  BY <1>1 DEF InitBase, AllLinksOK, LinksOK
<1>4. BackendNeedsFreshProof
  BY <1>1 DEF InitBase, BackendNeedsFreshProof
<1>5. \A q \in Req : /\ CookieBacked(sent[q].cookie) /\ StateBacked(data[q].state)
                     /\ CookieBacked(reply[q].set)
  BY <1>1 DEF InitBase, CookieBacked, StateBacked
<1>6. \A q \in Req : pc[q] # "evaluated"
  BY <1>1 DEF InitBase
<1>7. CASE InitFresh
  <2>1. TypeOK
    BY <1>2, <1>7 DEF InitFresh, TypeOK
  <2>2. ProofsBacked
    BY <1>5, <1>6, <1>7 DEF InitFresh, ProofsBacked, CookieBacked
  <2>3. QED
    BY <1>3, <1>4, <2>1, <2>2 DEF Inv
<1>8. CASE InitUpgraded
  <2>1. PICK c \in Challenges, o \in Origins :
          /\ LegacyKeyHeaders[c] # NoHeaders
          /\ jar = [n \in Networks |-> IF n = NetworkPrefix[o] THEN LegacyCookie(c, o)
                                                               ELSE NoCookie]
          /\ earned = {[key |-> LegacyToken(c, o).key, at |-> 0]}
    BY <1>8 DEF InitUpgraded
  <2> DEFINE until == Expiration(0, Duration[c])
             key == getChallengeKeyForRequest(c, LegacyKeyHeaders[c], until, o)
             st == [e \in Challenges |-> IF e = c THEN LegacyToken(c, o) ELSE NoToken]
  <2>2. Duration[c] \in Nat \ {0} /\ LegacyKeyHeaders[c] \in HeaderSets
    BY <2>1, RegistrationAssumption
  <2>3. until \in Nat
    BY <2>2, ExpirationBounds
  <2> HIDE DEF until
  <2>4. key \in Key /\ key.until = until /\ key.name = c
    BY <2>2, <2>3, KeyType
  <2>5. LegacyToken(c, o) = [key |-> key, exp |-> until, ok |-> TRUE]
    BY DEF LegacyToken, until
  <2> HIDE DEF key
  <2>6. LegacyToken(c, o) \in Token /\ LegacyToken(c, o).key = key
    BY <2>3, <2>4, <2>5 DEF Token
  <2>7. Expiration(0, DefaultDuration) \in Nat
    BY ExpirationBounds, RegistrationAssumption
  <2>8. st \in TokenMap
    BY <2>6 DEF TokenMap
  <2>9. LegacyCookie(c, o) \in Cookie /\ LegacyCookie(c, o).state = st
    BY <2>7, <2>8 DEF LegacyCookie, Cookie, Networks
  <2>10. earned = {[key |-> key, at |-> 0]}
    BY <2>1, <2>6
  <2>11. TypeOK
    <3>1. jar \in [Networks -> Cookie \cup {NoCookie}]
      BY <2>1, <2>9
    <3>2. earned \subseteq [key : Key, at : Nat]
      BY <2>4, <2>10
    <3>3. QED
      BY <1>2, <3>1, <3>2, Zenon DEF TypeOK
  <2>12. StateBacked(st)
    BY <2>6, <2>10 DEF StateBacked
  <2>13. \A n \in Networks : CookieBacked(jar[n])
    <3> HIDE DEF st
    <3>1. \A n \in Networks : jar[n] = LegacyCookie(c, o) \/ jar[n] = NoCookie
      BY <2>1
    <3>2. QED
      BY <2>9, <2>12, <3>1 DEF CookieBacked
  <2>14. \A e \in earned : e.key.until = Expiration(e.at, Duration[e.key.name])
    <3>1. key.until = Expiration(0, Duration[key.name])
      BY <2>4 DEF until
    <3>2. QED
      BY <2>10, <3>1
  <2>15. ProofsBacked
    BY <1>5, <1>6, <2>13, <2>14 DEF ProofsBacked
  <2>16. QED
    BY <1>3, <1>4, <2>11, <2>15 DEF Inv
<1>9. QED
  BY <1>7, <1>8 DEF Init

LEMMA StepInv == Inv /\ [Next]_vars => Inv'
<1> SUFFICES ASSUME Inv, [Next]_vars PROVE Inv'
  OBVIOUS
<1>1. CASE Tick
  <2>1. TypeOK'
    BY <1>1 DEF Tick, Inv, TypeOK
  <2>2. AllLinksOK' /\ ProofsBacked' /\ BackendNeedsFreshProof'
    BY <1>1 DEF Tick, Inv, AllLinksOK, LinksOK, ProofsBacked, CookieBacked, StateBacked,
                BackendNeedsFreshProof, Proofs, AcceptedKeys
  <2>3. QED
    BY <2>1, <2>2 DEF Inv
<1>2. ASSUME NEW q \in Req, Navigate(q) PROVE Inv'
  <2>1. Page(NoChallenge) \in Link /\ LinksOK({Page(NoChallenge)})
    BY DEF Page, Link, LinksOK
  <2>2. QED
    BY <1>2, <2>1, SendInv DEF Navigate
<1>3. ASSUME NEW q \in Req, Follow(q) PROVE Inv'
  <2>1. PICK p \in Req : \E l \in links[p] : Send(q, l)
    BY <1>3 DEF Follow
  <2>2. PICK l \in links[p] : Send(q, l)
    BY <2>1
  <2>3. l \in Link /\ LinksOK({l})
    BY DEF Inv, TypeOK, AllLinksOK, LinksOK
  <2>4. QED
    BY <2>2, <2>3, SendInv
<1>4. ASSUME NEW q \in Req, PostClear(q) PROVE Inv'
  <2>1. PICK route \in {"clear", "foreign-clear"} : Send(q, ClearPost(route))
    BY <1>4 DEF PostClear
  <2>2. ClearPost(route) \in Link /\ LinksOK({ClearPost(route)})
    BY DEF ClearPost, Link, LinksOK
  <2>3. QED
    BY <2>1, <2>2, SendInv
<1>5. ASSUME NEW q \in Req, Lose(q) PROVE Inv'
  <2>1. lost' \in Nat /\ jar' \in [Networks -> Cookie \cup {NoCookie}]
    BY <1>5 DEF Lose, Inv, TypeOK
  <2>2. \A n \in Networks : CookieBacked(jar'[n])
    BY <1>5 DEF Lose, Inv, ProofsBacked
  <2>3. QED
    BY <1>5, <2>1, <2>2, IdleInv DEF Lose
<1>6. ASSUME NEW q \in Req, Handler(q) PROVE Inv'
  BY <1>6, HandleValidInv, HandleIssueInv, MakeChallengeInv, VerifyPassInv, VerifyRejectInv,
     ClearInv DEF Handler
<1>7. CASE UNCHANGED vars
  BY <1>7 DEF vars, Inv, TypeOK, AllLinksOK, LinksOK, ProofsBacked, CookieBacked, StateBacked,
              BackendNeedsFreshProof, Proofs, AcceptedKeys
<1>8. QED
  BY <1>1, <1>2, <1>3, <1>4, <1>5, <1>6, <1>7, ReceiveInv, EvaluateInv DEF Next

---------------------------------------------------------------------------
\* The invariant of the gate.
THEOREM Invariance == Spec => []Inv
BY InitInv, StepInv, PTL DEF Spec

\* Every variable of the gate and its browser keeps its type.
THEOREM TypeCorrect == Spec => []TypeOK
BY Invariance, PTL DEF Inv

\* A rule that denies lets no request through to the backend without a proof
\* that was earned from the same network and headers, less than the
\* challenge's Duration ago, whatever the challenges, their durations, the
\* rule and the number of connections are.
THEOREM BackendIsGuarded == Spec => []BackendNeedsFreshProof
BY Invariance, PTL DEF Inv

---------------------------------------------------------------------------
(* What a response carries.  The three properties below follow a request   *)
(* from its evaluation to the arrival of its response, so they share one   *)
(* inductive invariant about every connection.                             *)

\* Every challenge d was admitted with has its token in d, with a key that
\* a request of origin o accepts.
HoldsProofs(d, o) ==
    \A c \in Challenges : d.verify[c] = "OK" =>
        d.state[c] # NoToken /\ d.state[c].key \in AcceptedKeys(c, d.time, o)

\* Every challenge d was admitted with has a state that prints.
Printable(d) == \A c \in Challenges : d.verify[c] = "OK" => d.vstate[c] # "None"

\* The request rq passed a challenge itself, and d carries the token.
Passed(d, rq) ==
    \E c \in Challenges :
        /\ d.state[c] # NoToken
        /\ [key |-> RequestKey(c, d.time, rq.origin), at |-> d.time] \in earned
        /\ \/ rq.link.route = "verify" /\ rq.link.ch = c
           \/ d.vstate[c] = "Pass" /\ d.verify[c] # "NotOK"

\* After evaluation nothing was issued yet; after the answer a cookie is set
\* only for a challenge passed in this request, with the tokens of its
\* RequestData, and expired only for a clear-state post.
CarriedAt(q) ==
    /\ pc[q] = "evaluated" =>
         /\ ~data[q].modified
         /\ HoldsProofs(data[q], sent[q].origin)
         /\ Printable(data[q])
    /\ pc[q] = "replied" =>
         /\ HoldsProofs(data[q], sent[q].origin)
         /\ reply[q].kind = "backend" => Printable(data[q])
         /\ reply[q].expire => sent[q].link.route = "clear"
         /\ reply[q].set # NoCookie => /\ reply[q].set.state = data[q].state
                                       /\ Passed(data[q], sent[q])

Carried == \A q \in Req : CarriedAt(q)

\* A verdict of OK comes without an error, so its token is kept, and with the
\* state of a brief or a full verification.
LEMMA VerdictKeeps ==
  ASSUME NEW c \in Challenges, NEW token, NEW o, NEW time, NEW issued, NEW holds, NEW spot
  PROVE  LET v == verifyChallenge(c, token, o, time, time, issued, holds, spot)
         IN  v.result = "OK" => v.err = "none" /\ v.state # "None"
<1> DEFINE check(key) == VerifyChallengeToken(c, token, key, time, spot)
           until == Expiration(time, Duration[c])
           now1 == GetChallengeKeyForRequest(c, until, o)
           old == getChallengeKeyForRequest(c, LegacyKeyHeaders[c], until, o)
           checked == IF check(now1).err = "key" /\ LegacyKeyHeaders[c] # NoHeaders
                      THEN check(old) ELSE check(now1)
           verdict == IF token = NoToken
                      THEN [result |-> "Fail", state |-> "None", err |-> "none"] ELSE checked
           v == verifyChallenge(c, token, o, time, time, issued, holds, spot)
<1>1. ASSUME NEW key
      PROVE  check(key).result = "OK" => check(key).err = "none" /\ check(key).state # "None"
  BY DEF VerifyChallengeToken
<1>2. v = verdict \/ v = [result |-> "Skip", state |-> verdict.state, err |-> verdict.err]
  BY DEF verifyChallenge
<1> HIDE DEF check, now1, old, v
<1>3. checked.result = "OK" => checked.err = "none" /\ checked.state # "None"
  BY <1>1
<1> HIDE DEF checked
<1>4. verdict.result = "OK" => verdict.err = "none" /\ verdict.state # "None"
  BY <1>3
<1> HIDE DEF verdict
<1>5. QED
  BY <1>2, <1>4 DEF v

\* IssueChallengeToken marks the map exactly when it stores something, and
\* stores a token of the request's own key for exactly the passed challenges.
LEMMA IssueMarks ==
  ASSUME NEW d \in RequestData, NEW o \in Origins, NEW ok,
         DOMAIN ok \subseteq Challenges, \A c \in DOMAIN ok : ok[c] \in BOOLEAN
  PROVE  LET n == IssueChallengeToken(d, o, ok)
             S == {c \in DOMAIN ok : ok[c]}
         IN  /\ n.modified <=> d.modified \/ S # {}
             /\ \A c \in S : /\ n.state[c] # NoToken
                             /\ n.state[c].key = RequestKey(c, d.time, o)
             /\ \A c \in Challenges \ S : n.state[c] = d.state[c]
<1> DEFINE S == {c \in DOMAIN ok : ok[c]}
           st == [c \in Challenges |-> IF c \in S THEN NewToken(c, d.time, o, ok[c])
                                                  ELSE d.state[c]]
           n == WithTokens(d, st, d.modified \/ S # {})
<1>1. n = IssueChallengeToken(d, o, ok)
  BY DEF IssueChallengeToken
<1>2. d.time \in Nat /\ S \subseteq Challenges
  BY DEF RequestData
<1>3. ASSUME NEW c \in S PROVE st[c] # NoToken /\ st[c].key = RequestKey(c, d.time, o)
  <2>1. st[c] = NewToken(c, d.time, o, ok[c]) /\ c \in Challenges /\ ok[c] \in BOOLEAN
    BY <1>2
  <2>2. st[c] \in Token /\ st[c].key = RequestKey(c, d.time, o)
    BY <1>2, <2>1, NewTokenType
  <2>3. QED
    BY <2>2, NoneAssumption
<1>4. \A c \in Challenges \ S : st[c] = d.state[c]
  OBVIOUS
<1> HIDE DEF S, st
<1>5. n.state = st /\ n.modified = (d.modified \/ S # {})
  BY DEF WithTokens
<1> HIDE DEF n
<1>6. QED
  BY <1>1, <1>3, <1>4, <1>5 DEF S

\* The second loop of Challenge.Handle records a result and VerifyStatePass
\* for what it visits and leaves the other verdicts alone.
LEMMA RecordVerdicts ==
  ASSUME NEW d \in RequestData, NEW out \in [DOMAIN Rule -> VerifyResult]
  PROVE  LET r == RecordIssued(d, out)
         IN  /\ r.modified = d.modified
             /\ \A c \in Challenges : Recorded(d, out, c) = {} =>
                   r.verify[c] = d.verify[c] /\ r.vstate[c] = d.vstate[c]
             /\ \A c \in Challenges : Recorded(d, out, c) # {} =>
                   /\ r.vstate[c] = "Pass"
                   /\ \E i \in Visited(d, out) : Rule[i] = c /\ r.verify[c] = out[i]
<1> DEFINE r == RecordIssued(d, out)
           vs == [c \in Challenges |-> IF Recorded(d, out, c) = {} THEN d.vstate[c] ELSE "Pass"]
<1>1. r.modified = d.modified /\ r.verify = IssuedVerify(d, out) /\ r.vstate = vs
  BY DEF RecordIssued, WithVerdicts
<1>2. ASSUME NEW c \in Challenges, Recorded(d, out, c) # {}
      PROVE  \E i \in Visited(d, out) : Rule[i] = c /\ IssuedVerify(d, out)[c] = out[i]
  <2>1. PICK i : i = CHOOSE j \in Recorded(d, out, c) : TRUE
    OBVIOUS
  <2>2. i \in Recorded(d, out, c)
    BY <1>2, <2>1
  <2>3. IssuedVerify(d, out)[c] = out[i]
    BY <1>2, <2>1 DEF IssuedVerify
  <2>4. QED
    BY <2>2, <2>3 DEF Recorded
<1>3. \A c \in Challenges : Recorded(d, out, c) = {} => IssuedVerify(d, out)[c] = d.verify[c]
  BY DEF IssuedVerify
<1> HIDE DEF r
<1>4. QED
  BY <1>1, <1>2, <1>3 DEF r

\* A challenge named twice in the rule is visited once.
LEMMA VisitedOnce ==
  ASSUME NEW d, NEW out, NEW i \in Visited(d, out), NEW j \in Visited(d, out),
         Rule[i] = Rule[j]
  PROVE  i = j
<1>1. i \in 1 .. Len(Rule) /\ j \in 1 .. Len(Rule) /\ Len(Rule) \in Nat
  BY GateAssumption DEF Visited
<1>2. /\ \A k \in 1 .. (i - 1) : Rule[k] # Rule[i]
      /\ \A k \in 1 .. (j - 1) : Rule[k] # Rule[j]
  BY DEF Visited, Eligible
<1>3. QED
  BY <1>1, <1>2

\* Issuing keeps every proof the request came with, adds the new ones, and
\* records a pass that prints for each of them.
LEMMA IssueCarries ==
  ASSUME NEW d0 \in RequestData, NEW o \in Origins, NEW out \in [DOMAIN Rule -> VerifyResult],
         \A i \in DOMAIN Rule : out[i] \in IssueResults(Rule[i]),
         HoldsProofs(d0, o), Printable(d0)
  PROVE  LET ok == Attempts(d0, out)
             S == {c \in DOMAIN ok : ok[c]}
             d == IssueChallengeToken(RecordIssued(d0, out), o, ok)
         IN  /\ d \in RequestData /\ d.time = d0.time
             /\ HoldsProofs(d, o) /\ Printable(d)
             /\ d.modified <=> d0.modified \/ S # {}
             /\ S \subseteq Challenges
             /\ \A c \in S : /\ d.state[c] # NoToken /\ d.vstate[c] = "Pass"
                             /\ d.verify[c] # "NotOK"
<1> DEFINE ok == Attempts(d0, out)
           S == {c \in DOMAIN ok : ok[c]}
           r == RecordIssued(d0, out)
           d == IssueChallengeToken(r, o, ok)
           tried == {i \in Visited(d0, out) : Runtime[Rule[i]] \in {"cookie", "dnsbl", "http"}
                                              /\ out[i] # "Fail"}
<1>1. /\ DOMAIN ok \subseteq Challenges /\ \A c \in DOMAIN ok : ok[c] \in BOOLEAN
      /\ \A i \in Visited(d0, out) : out[i] = "OK" => Rule[i] \in S
  <2>1. \A i \in Visited(d0, out) : i \in DOMAIN Rule
    BY DEF Visited
  <2>2. QED
    BY <2>1, AttemptsType
<1>2. ASSUME NEW c \in S
      PROVE  \E i \in Visited(d0, out) : Rule[i] = c /\ out[i] # "NotOK"
  <2>1. ok = [e \in {Rule[i] : i \in tried} |-> \E i \in tried : Rule[i] = e /\ out[i] # "NotOK"]
    BY DEF Attempts
  <2>2. \E i \in tried : Rule[i] = c /\ out[i] # "NotOK"
    BY <2>1
  <2>3. QED
    BY <2>2
<1>3. /\ r \in RequestData /\ r.time = d0.time /\ r.state = d0.state
      /\ r.modified = d0.modified
      /\ \A c \in Challenges : Recorded(d0, out, c) = {} =>
            r.verify[c] = d0.verify[c] /\ r.vstate[c] = d0.vstate[c]
      /\ \A c \in Challenges : Recorded(d0, out, c) # {} =>
            /\ r.vstate[c] = "Pass"
            /\ \E i \in Visited(d0, out) : Rule[i] = c /\ r.verify[c] = out[i]
  BY RecordType, RecordVerdicts
<1> HIDE DEF ok, r, tried
<1>4. /\ d \in RequestData /\ d.time = d0.time
      /\ d.verify = r.verify /\ d.vstate = r.vstate
  BY <1>1, <1>3, IssueType
<1>5. /\ d.modified <=> r.modified \/ S # {}
      /\ \A c \in S : d.state[c] # NoToken /\ d.state[c].key = RequestKey(c, r.time, o)
      /\ \A c \in Challenges \ S : d.state[c] = r.state[c]
  BY <1>1, <1>3, IssueMarks
<1> HIDE DEF d
<1>6. S \subseteq Challenges
  BY <1>1
<1> HIDE DEF S
<1>7. ASSUME NEW c \in S PROVE d.vstate[c] = "Pass" /\ d.verify[c] # "NotOK"
  <2>1. PICK i \in Visited(d0, out) : Rule[i] = c /\ out[i] # "NotOK"
    BY <1>2
  <2>2. i \in Recorded(d0, out, c) /\ c \in Challenges
    BY <1>6, <2>1 DEF Recorded
  <2>3. PICK j \in Visited(d0, out) : Rule[j] = c /\ r.verify[c] = out[j]
    BY <1>3, <2>2
  <2>4. i = j
    BY <2>1, <2>3, VisitedOnce
  <2>5. QED
    BY <1>3, <1>4, <2>1, <2>2, <2>3, <2>4
<1>8. ASSUME NEW c \in Challenges, d.verify[c] = "OK"
      PROVE  /\ d.state[c] # NoToken /\ d.state[c].key \in AcceptedKeys(c, d.time, o)
             /\ d.vstate[c] # "None"
  <2>1. CASE c \in S
    <3>1. RequestKey(c, d.time, o) \in AcceptedKeys(c, d.time, o)
      BY DEF AcceptedKeys
    <3>2. QED
      BY <1>3, <1>4, <1>5, <1>7, <2>1, <3>1
  <2>2. CASE c \notin S
    <3>1. Recorded(d0, out, c) = {}
      BY <1>1, <1>3, <1>4, <1>8, <2>2
    <3>2. d0.verify[c] = "OK" /\ d.vstate[c] = d0.vstate[c] /\ d.state[c] = d0.state[c]
      BY <1>3, <1>4, <1>5, <1>8, <2>2, <3>1
    <3>3. QED
      BY <1>4, <3>2 DEF HoldsProofs, Printable
  <2>3. QED
    BY <2>1, <2>2
<1>9. HoldsProofs(d, o) /\ Printable(d)
  BY <1>8 DEF HoldsProofs, Printable
<1>10. QED
  BY <1>3, <1>4, <1>5, <1>6, <1>7, <1>9 DEF d, S, r, ok

\* A connection that does not move keeps what it carries, since proofs are
\* never forgotten.
LEMMA OthersCarried ==
  ASSUME Carried, NEW q \in Req, earned \subseteq earned',
         \A p \in Req : p # q => /\ data'[p] = data[p] /\ reply'[p] = reply[p]
                                 /\ sent'[p] = sent[p] /\ pc'[p] = pc[p],
         CarriedAt(q)'
  PROVE  Carried'
<1> SUFFICES ASSUME NEW p \in Req, p # q PROVE CarriedAt(p)'
  BY DEF Carried
<1>1. /\ data'[p] = data[p] /\ reply'[p] = reply[p] /\ sent'[p] = sent[p] /\ pc'[p] = pc[p]
      /\ CarriedAt(p)
  BY DEF Carried
<1>2. Passed(data[p], sent[p]) => Passed(data[p], sent[p])'
  BY <1>1 DEF Passed
<1>3. /\ HoldsProofs(data[p], sent[p].origin)' <=> HoldsProofs(data[p], sent[p].origin)
      /\ Printable(data[p])' <=> Printable(data[p])
  BY <1>1 DEF HoldsProofs, Printable, AcceptedKeys
<1>4. QED
  BY <1>1, <1>2, <1>3 DEF CarriedAt

\* A handler that answers with the RequestData d.
LEMMA RespondCarried ==
  ASSUME Inv, Carried, NEW q \in Req, NEW d \in RequestData, NEW kind, NEW ls,
         Respond(q, d, kind, ls), earned \subseteq earned',
         HoldsProofs(d, sent[q].origin),
         kind = "backend" => Printable(d),
         d.modified => \E c \in Challenges :
             /\ d.state[c] # NoToken
             /\ [key |-> RequestKey(c, d.time, sent[q].origin), at |-> d.time] \in earned'
             /\ \/ sent[q].link.route = "verify" /\ sent[q].link.ch = c
                \/ d.vstate[c] = "Pass" /\ d.verify[c] # "NotOK"
  PROVE  Carried'
<1> DEFINE set == ResponseHeaders(d, sent[q].origin)
           r == [kind |-> kind, set |-> set, expire |-> FALSE, links |-> ls]
<1>1. sent[q].origin \in Origins
  BY DEF Inv, TypeOK, Request
<1>2. (set # NoCookie => set.state = d.state) /\ (set # NoCookie => d.modified)
  BY <1>1, HeadersType DEF ResponseHeaders
<1>3. /\ data' = [data EXCEPT ![q] = d] /\ reply' = [reply EXCEPT ![q] = r]
      /\ pc' = [pc EXCEPT ![q] = "replied"] /\ sent' = sent
  BY DEF Respond
<1> HIDE DEF set
<1>4. r.set = set /\ r.kind = kind /\ r.expire = FALSE
  OBVIOUS
<1> HIDE DEF r
<1>5. \A p \in Req : /\ data'[p] = IF p = q THEN d ELSE data[p]
                     /\ reply'[p] = IF p = q THEN r ELSE reply[p]
                     /\ pc'[p] = IF p = q THEN "replied" ELSE pc[p]
                     /\ sent'[p] = sent[p]
  BY <1>3 DEF Inv, TypeOK
<1>6. HoldsProofs(data[q], sent[q].origin)'
  BY <1>5 DEF HoldsProofs, AcceptedKeys
<1>7. reply'[q].kind = "backend" => Printable(data[q])'
  BY <1>4, <1>5 DEF Printable
<1>8. reply'[q].set # NoCookie => Passed(data[q], sent[q])'
  BY <1>2, <1>4, <1>5 DEF Passed
<1>9. CarriedAt(q)'
  BY <1>2, <1>4, <1>5, <1>6, <1>7, <1>8 DEF CarriedAt
<1>10. QED
  BY <1>5, <1>9, OthersCarried

\* An answer with the RequestData as it was evaluated, whatever its kind.
LEMMA AnswerCarried ==
  ASSUME Inv, Carried, NEW q \in Req, NEW kind, NEW ls, pc[q] = "evaluated",
         Respond(q, data[q], kind, ls), earned' = earned
  PROVE  Carried'
<1>1. /\ data[q] \in RequestData /\ ~data[q].modified
      /\ HoldsProofs(data[q], sent[q].origin) /\ Printable(data[q])
  BY DEF Inv, TypeOK, Carried, CarriedAt
<1>2. QED
  BY <1>1, RespondCarried

LEMMA HandleIssueCarried ==
  ASSUME Inv, Carried, NEW q \in Req, HandleIssue(q)
  PROVE  Carried'
<1> DEFINE o == sent[q].origin
           ok(out) == Attempts(data[q], out)
           S(out) == {e \in DOMAIN ok(out) : ok(out)[e]}
           d(out) == IssueChallengeToken(RecordIssued(data[q], out), o, ok(out))
           last(out) == {i \in Visited(data[q], out) : Stops(data[q], out, i)}
<1>1. PICK out \in [DOMAIN Rule -> VerifyResult] :
        /\ \A i \in DOMAIN Rule : out[i] \in IssueResults(Rule[i])
        /\ earned' = earned \cup {[key |-> RequestKey(c, data[q].time, o),
                                  at |-> data[q].time] : c \in S(out)}
        /\ IF last(out) = {}
           THEN Respond(q, d(out), IF FailAction = "DENY" THEN "denied" ELSE "backend", {})
           ELSE \E i \in last(out) :
                  IF out[i] = "OK" THEN Respond(q, d(out), "backend", {})
                  ELSE Respond(q, d(out), IF Runtime[Rule[i]] = "cookie" THEN "redirect"
                                                                         ELSE "challenge",
                               IssuedLinks(Rule[i], q))
  BY DEF HandleIssue
<1>2. /\ pc[q] = "evaluated" /\ data[q] \in RequestData /\ o \in Origins
      /\ ~data[q].modified /\ HoldsProofs(data[q], o) /\ Printable(data[q])
  BY DEF HandleIssue, Evaluated, Inv, TypeOK, Request, Carried, CarriedAt
<1>3. /\ d(out) \in RequestData /\ d(out).time = data[q].time
      /\ HoldsProofs(d(out), o) /\ Printable(d(out))
      /\ d(out).modified <=> data[q].modified \/ S(out) # {}
      /\ S(out) \subseteq Challenges
      /\ \A c \in S(out) : /\ d(out).state[c] # NoToken /\ d(out).vstate[c] = "Pass"
                           /\ d(out).verify[c] # "NotOK"
  BY <1>1, <1>2, IssueCarries
<1> HIDE DEF d, S, last, ok
<1>4. \E kind, ls : Respond(q, d(out), kind, ls)
  <2>1. CASE last(out) = {}
    BY <1>1, <2>1
  <2>2. CASE last(out) # {}
    <3>1. PICK i \in last(out) :
            IF out[i] = "OK" THEN Respond(q, d(out), "backend", {})
            ELSE Respond(q, d(out), IF Runtime[Rule[i]] = "cookie" THEN "redirect"
                                                                   ELSE "challenge",
                         IssuedLinks(Rule[i], q))
      BY <1>1, <2>2
    <3>2. QED
      BY <3>1
  <2>3. QED
    BY <2>1, <2>2
<1>5. PICK kind, ls : Respond(q, d(out), kind, ls)
  BY <1>4
<1>6. ASSUME d(out).modified
      PROVE  \E c \in Challenges :
               /\ d(out).state[c] # NoToken
               /\ [key |-> RequestKey(c, d(out).time, sent[q].origin), at |-> d(out).time]
                     \in earned'
               /\ \/ sent[q].link.route = "verify" /\ sent[q].link.ch = c
                  \/ d(out).vstate[c] = "Pass" /\ d(out).verify[c] # "NotOK"
  <2>1. PICK c \in S(out) : TRUE
    BY <1>2, <1>3, <1>6
  <2>2. [key |-> RequestKey(c, data[q].time, o), at |-> data[q].time] \in earned'
    BY <1>1, <2>1
  <2>3. QED
    BY <1>3, <2>1, <2>2
<1>7. earned \subseteq earned'
  BY <1>1
<1>8. QED
  BY <1>3, <1>5, <1>6, <1>7, RespondCarried

LEMMA VerifyPassCarried ==
  ASSUME Inv, Carried, NEW q \in Req, VerifyPass(q)
  PROVE  Carried'
<1> DEFINE l == sent[q].link
           o == sent[q].origin
           c0 == l.ch
           ok == [c \in {c0} |-> TRUE]
           n == IssueChallengeToken(data[q], o, ok)
           verify == [data[q].verify EXCEPT ![c0] = "OK"]
           d == WithVerdicts(n, verify, data[q].vstate)
<1>1. /\ l.route = "verify" /\ pc[q] = "evaluated"
      /\ earned' = earned \cup {[key |-> RequestKey(c0, data[q].time, o), at |-> data[q].time]}
      /\ Respond(q, d, "css", {}) \/ Respond(q, d, "redirect", {Page(l.back)})
  BY DEF VerifyPass, Evaluated
<1>2. /\ data[q] \in RequestData /\ o \in Origins /\ c0 \in Challenges
      /\ data[q].verify \in [Challenges -> VerifyResult]
      /\ data[q].vstate \in [Challenges -> VerifyState]
      /\ HoldsProofs(data[q], o)
  BY <1>1 DEF Inv, TypeOK, RequestData, Request, Link, AllLinksOK, LinksOK, Carried, CarriedAt
<1>3. /\ DOMAIN ok \subseteq Challenges /\ \A c \in DOMAIN ok : ok[c] \in BOOLEAN
      /\ {c \in DOMAIN ok : ok[c]} = {c0}
  BY <1>2
<1>4. verify \in [Challenges -> VerifyResult] /\ \A c \in Challenges \ {c0} : verify[c] = data[q].verify[c]
  BY <1>2 DEF VerifyResult
<1> HIDE DEF ok, verify, l, o, c0
<1>5. /\ n \in RequestData /\ n.time = data[q].time
      /\ n.state[c0] # NoToken /\ n.state[c0].key = RequestKey(c0, data[q].time, o)
      /\ \A c \in Challenges \ {c0} : n.state[c] = data[q].state[c]
  BY <1>2, <1>3, IssueType, IssueMarks
<1> HIDE DEF n
<1>6. d \in RequestData /\ d.time = data[q].time /\ d.state = n.state /\ d.verify = verify
  BY <1>2, <1>4, <1>5, VerdictsType DEF WithVerdicts
<1> HIDE DEF d
<1>7. RequestKey(c0, d.time, o) \in AcceptedKeys(c0, d.time, o)
  BY DEF AcceptedKeys
<1>8. HoldsProofs(d, o)
  <2> SUFFICES ASSUME NEW c \in Challenges, d.verify[c] = "OK"
               PROVE  d.state[c] # NoToken /\ d.state[c].key \in AcceptedKeys(c, d.time, o)
    BY DEF HoldsProofs
  <2>1. CASE c = c0
    BY <1>5, <1>6, <1>7, <2>1
  <2>2. CASE c # c0
    BY <1>2, <1>4, <1>5, <1>6, <2>2 DEF HoldsProofs
  <2>3. QED
    BY <2>1, <2>2
<1>9. PICK kind \in {"css", "redirect"} : \E ls : Respond(q, d, kind, ls)
  BY <1>1
<1>10. [key |-> RequestKey(c0, d.time, o), at |-> d.time] \in earned'
  BY <1>1, <1>6
<1>11. l.route = "verify" /\ l.ch = c0 /\ d.state[c0] # NoToken
  BY <1>1, <1>5, <1>6 DEF c0
<1>12. earned \subseteq earned'
  BY <1>1
<1>13. QED
  BY <1>2, <1>6, <1>8, <1>9, <1>10, <1>11, <1>12, RespondCarried DEF o, l

LEMMA EvaluateCarried ==
  ASSUME Inv, Carried, NEW q \in Req, EvaluateChallenges(q)
  PROVE  Carried'
<1> DEFINE rq == sent[q]
           st == verifyChallengeState(rq.cookie, rq.origin, now)
<1>1. PICK spot \in [Challenges -> {"brief", "ok", "error"}] :
        data' = [data EXCEPT ![q] =
          [time |-> now, modified |-> FALSE,
           state  |-> [c \in Challenges |->
                         IF verifyChallenge(c, st[c], rq.origin, now, now, rq.link.ch,
                                            rq.holds, spot[c]).err # "none"
                         THEN NoToken ELSE st[c]],
           verify |-> [c \in Challenges |->
                         verifyChallenge(c, st[c], rq.origin, now, now, rq.link.ch,
                                         rq.holds, spot[c]).result],
           vstate |-> [c \in Challenges |->
                         verifyChallenge(c, st[c], rq.origin, now, now, rq.link.ch,
                                         rq.holds, spot[c]).state]]]
  BY ZenonT(60) DEF EvaluateChallenges
<1> DEFINE v(c) == verifyChallenge(c, st[c], rq.origin, now, now, rq.link.ch, rq.holds, spot[c])
           new == [time |-> now, modified |-> FALSE,
                   state  |-> [c \in Challenges |-> IF v(c).err # "none" THEN NoToken
                                                                        ELSE st[c]],
                   verify |-> [c \in Challenges |-> v(c).result],
                   vstate |-> [c \in Challenges |-> v(c).state]]
<1>2. data' = [data EXCEPT ![q] = new]
  BY <1>1
<1>3. /\ pc' = [pc EXCEPT ![q] = "evaluated"]
      /\ UNCHANGED <<now, sent, reply, jar, links, earned, lost>>
  BY DEF EvaluateChallenges
<1>4. now \in Nat /\ rq.origin \in Origins /\ rq.cookie \in Cookie \cup {NoCookie}
  BY DEF Inv, TypeOK, Request
<1>5. st \in TokenMap
  BY <1>4 DEF verifyChallengeState, Cookie, TokenMap
<1> HIDE DEF st, rq
<1>6. \A c \in Challenges : st[c] \in Token \cup {NoToken}
  BY <1>5 DEF TokenMap
<1>7. \A c \in Challenges : v(c).result = "OK" =>
        /\ st[c] # NoToken /\ st[c].key \in AcceptedKeys(c, now, rq.origin)
        /\ v(c).err = "none" /\ v(c).state # "None"
  BY <1>4, <1>6, VerdictType, VerdictKeeps
<1> HIDE DEF v
<1>8. /\ new.time = now /\ ~new.modified
      /\ \A c \in Challenges : /\ new.verify[c] = v(c).result /\ new.vstate[c] = v(c).state
                               /\ v(c).err = "none" => new.state[c] = st[c]
  OBVIOUS
<1> HIDE DEF new
<1>9. HoldsProofs(new, rq.origin) /\ Printable(new)
  BY <1>7, <1>8 DEF HoldsProofs, Printable
<1>10. \A p \in Req : /\ data'[p] = IF p = q THEN new ELSE data[p]
                      /\ pc'[p] = IF p = q THEN "evaluated" ELSE pc[p]
                      /\ sent'[p] = sent[p] /\ reply'[p] = reply[p]
  BY <1>2, <1>3 DEF Inv, TypeOK
<1>11. HoldsProofs(data[q], sent[q].origin)' /\ Printable(data[q])'
  BY <1>3, <1>9, <1>10 DEF HoldsProofs, Printable, AcceptedKeys, rq
<1>12. CarriedAt(q)'
  BY <1>8, <1>10, <1>11 DEF CarriedAt
<1>13. QED
  BY <1>3, <1>10, <1>12, OthersCarried

\* A connection that is idle or whose request was just sent carries nothing.
LEMMA QuietCarried ==
  ASSUME Inv, Carried, NEW q \in Req, earned' = earned,
         pc'[q] \in {"idle", "sent"},
         \A p \in Req : p # q => /\ data'[p] = data[p] /\ reply'[p] = reply[p]
                                 /\ sent'[p] = sent[p] /\ pc'[p] = pc[p]
  PROVE  Carried'
<1>1. CarriedAt(q)'
  BY DEF CarriedAt
<1>2. QED
  BY <1>1, OthersCarried

LEMMA ClearCarried ==
  ASSUME Inv, Carried, NEW q \in Req, ClearChallengeState(q)
  PROVE  Carried'
<1> DEFINE allowed == allowChallengeStateClear(sent[q].link.route)
           r == [kind |-> IF allowed THEN "cleared" ELSE "forbidden",
                 set |-> NoCookie, expire |-> allowed, links |-> {}]
<1>1. /\ reply' = [reply EXCEPT ![q] = r] /\ pc' = [pc EXCEPT ![q] = "replied"]
      /\ UNCHANGED <<now, sent, data, jar, links, earned, lost>> /\ pc[q] = "evaluated"
  BY DEF ClearChallengeState, Evaluated
<1>2. allowed <=> sent[q].link.route = "clear"
  BY DEF allowChallengeStateClear
<1> HIDE DEF allowed
<1>3. r.set = NoCookie /\ r.kind # "backend" /\ (r.expire <=> allowed)
  OBVIOUS
<1> HIDE DEF r
<1>4. \A p \in Req : /\ reply'[p] = IF p = q THEN r ELSE reply[p]
                     /\ pc'[p] = IF p = q THEN "replied" ELSE pc[p]
                     /\ sent'[p] = sent[p] /\ data'[p] = data[p]
  BY <1>1 DEF Inv, TypeOK
<1>5. HoldsProofs(data[q], sent[q].origin)'
  BY <1>1 DEF Carried, CarriedAt, HoldsProofs, AcceptedKeys
<1>6. CarriedAt(q)'
  BY <1>2, <1>3, <1>4, <1>5 DEF CarriedAt
<1>7. QED
  BY <1>1, <1>4, <1>6, OthersCarried

LEMMA StepCarried == Inv /\ Carried /\ [Next]_vars => Carried'
<1> SUFFICES ASSUME Inv, Carried, [Next]_vars PROVE Carried'
  OBVIOUS
<1>1. CASE Tick \/ UNCHANGED vars
  <2>1. UNCHANGED <<pc, sent, data, reply, earned>>
    BY <1>1 DEF Tick, vars
  <2>2. QED
    BY <2>1 DEF Carried, CarriedAt, HoldsProofs, Printable, Passed, AcceptedKeys
<1>2. ASSUME NEW q \in Req, NEW l, Send(q, l) PROVE Carried'
  <2>1. /\ pc' = [pc EXCEPT ![q] = "sent"] /\ data' = data /\ reply' = reply /\ earned' = earned
        /\ \E r : sent' = [sent EXCEPT ![q] = r]
    BY <1>2 DEF Send
  <2>2. QED
    BY <2>1, QuietCarried DEF Inv, TypeOK
<1>3. ASSUME NEW q \in Req, Idle(q), earned' = earned PROVE Carried'
  BY <1>3, QuietCarried DEF Idle, Inv, TypeOK
<1>4. ASSUME NEW q \in Req, Navigate(q) \/ Follow(q) \/ PostClear(q) PROVE Carried'
  BY <1>2, <1>4 DEF Navigate, Follow, PostClear
<1>5. ASSUME NEW q \in Req, Receive(q) \/ Lose(q) PROVE Carried'
  BY <1>3, <1>5 DEF Receive, Lose
<1>6. ASSUME NEW q \in Req, HandleValid(q) \/ MakeChallenge(q) \/ VerifyReject(q)
      PROVE  Carried'
  <2>1. pc[q] = "evaluated" /\ earned' = earned
    BY <1>6 DEF HandleValid, MakeChallenge, VerifyReject, Evaluated
  <2>2. \E kind, ls : Respond(q, data[q], kind, ls)
    BY <1>6 DEF HandleValid, MakeChallenge, VerifyReject
  <2>3. QED
    BY <2>1, <2>2, AnswerCarried
<1>7. ASSUME NEW q \in Req, Handler(q) PROVE Carried'
  BY <1>6, <1>7, HandleIssueCarried, VerifyPassCarried, ClearCarried DEF Handler
<1>8. QED
  BY <1>1, <1>4, <1>5, <1>7, EvaluateCarried DEF Next

\* The invariant of what responses carry.
THEOREM CarriedInvariance == Spec => [](Inv /\ Carried)
<1>1. Init => Carried
  BY DEF Init, InitBase, Carried, CarriedAt
<1>2. QED
  BY <1>1, InitInv, StepInv, StepCarried, PTL DEF Spec

\* Earning one challenge never costs another: a response that replaces the
\* state cookie carries over every proof its request was admitted with.
THEOREM ProofsKept == Spec => []EarningKeepsProofs
<1>1. Carried => EarningKeepsProofs
  BY DEF Carried, CarriedAt, HoldsProofs, EarningKeepsProofs
<1>2. QED
  BY <1>1, CarriedInvariance, PTL

\* RequestHeaders never meets a pass whose VerifyState it cannot print.
THEOREM HeadersPrint == Spec => []ForwardedStatePrintable
<1>1. Carried => ForwardedStatePrintable
  BY DEF Carried, CarriedAt, Printable, ForwardedStatePrintable
<1>2. QED
  BY <1>1, CarriedInvariance, PTL

\* A usable proof leaves the jar only for a clear-state post of the browser's
\* own script, or for the answer to a request that passed a challenge itself:
\* a response without a new proof never overwrites the newer ones.
THEOREM JarKept == Spec => ProofNotOverwritten
<1> DEFINE A == \A n \in Networks, c \in Challenges :
             (Usable(n, c) /\ jar' # jar /\ (jar'[n] = NoCookie \/ jar'[n].state[c] = NoToken)) =>
                \E q \in Req : /\ pc[q] = "replied" /\ pc'[q] = "idle"
                               /\ sent[q].link.route = "clear" \/ PassedItself(q)
<1>1. Inv /\ Carried /\ [Next]_vars => [A]_vars
  <2> SUFFICES ASSUME Inv, Carried, Next, jar' # jar
               PROVE  \E q \in Req : /\ pc[q] = "replied" /\ pc'[q] = "idle"
                                     /\ sent[q].link.route = "clear" \/ PassedItself(q)
    BY DEF vars
  <2>1. PICK q \in Req : Receive(q)
    <3>1. ASSUME NEW q \in Req, NEW d, NEW kind, NEW ls, Respond(q, d, kind, ls) PROVE FALSE
      BY <3>1 DEF Respond
    <3>2. ASSUME NEW q \in Req, HandleIssue(q) PROVE FALSE
      BY <3>1, <3>2 DEF HandleIssue
    <3>3. ASSUME NEW q \in Req, VerifyPass(q) PROVE FALSE
      BY <3>1, <3>3 DEF VerifyPass
    <3>4. ASSUME NEW q \in Req, HandleValid(q) \/ MakeChallenge(q) \/ VerifyReject(q)
          PROVE  FALSE
      BY <3>1, <3>4 DEF HandleValid, MakeChallenge, VerifyReject
    <3>5. ASSUME NEW q \in Req, ClearChallengeState(q) \/ EvaluateChallenges(q) \/ Lose(q)
          PROVE  FALSE
      BY <3>5 DEF ClearChallengeState, EvaluateChallenges, Lose
    <3>6. ASSUME NEW q \in Req, Navigate(q) \/ Follow(q) \/ PostClear(q) PROVE FALSE
      BY <3>6 DEF Navigate, Follow, PostClear, Send
    <3>7. ~Tick
      BY DEF Tick
    <3>8. QED
      BY <3>2, <3>3, <3>4, <3>5, <3>6, <3>7 DEF Next, Handler
  <2>2. pc[q] = "replied" /\ pc'[q] = "idle" /\ (reply[q].expire \/ reply[q].set # NoCookie)
    BY <2>1 DEF Receive, Idle, Inv, TypeOK
  <2>3. CarriedAt(q)
    BY DEF Carried
  <2>4. CASE reply[q].expire
    BY <2>2, <2>3, <2>4 DEF CarriedAt
  <2>5. CASE reply[q].set # NoCookie
    <3>1. reply[q].set.state = data[q].state /\ Passed(data[q], sent[q])
      BY <2>2, <2>3, <2>5 DEF CarriedAt
    <3>2. PassedItself(q)
      BY <2>5, <3>1 DEF Passed, PassedItself
    <3>3. QED
      BY <2>2, <3>2
  <2>6. QED
    BY <2>2, <2>4, <2>5
<1>2. QED
  BY <1>1, CarriedInvariance, PTL DEF Spec, ProofNotOverwritten

---------------------------------------------------------------------------
(* The other direction: a proof that still counts is honoured.             *)

\* A token says that its challenge was passed, and expires with the window
\* its key is for.
TokenWhole(token) == token.ok = TRUE /\ token.exp = token.key.until

TokensWhole(st) == \A c \in Challenges : st[c] # NoToken => TokenWhole(st[c])

CookieWhole(ck, n) == ck # NoCookie => TokensWhole(ck.state) /\ ck.net = n

\* A cookie is kept and sent on the network it was encrypted for.
Whole ==
    /\ \A n \in Networks : CookieWhole(jar[n], n)
    /\ \A q \in Req : /\ CookieWhole(sent[q].cookie, NetworkPrefix[sent[q].origin])
                      /\ TokensWhole(data[q].state)
                      /\ reply[q].set # NoCookie => TokensWhole(reply[q].set.state)

\* A request whose unexpired cookie holds a token for one of its keys is
\* admitted with it, and keeps the token, unless a spot check of the js
\* runtime failed to run: neither the token's date, nor its outcome, nor the
\* condition of the challenge turns a proof down that the key admits.
ProofHonoured ==
    [][\A q \in Req, c \in Challenges :
         LET ck == sent[q].cookie IN
         /\ pc[q] = "sent" /\ pc'[q] = "evaluated"
         /\ ck # NoCookie /\ ck.exp >= now
         /\ ck.state[c] # NoToken
         /\ ck.state[c].key \in AcceptedKeys(c, now, sent[q].origin)
         => \/ data'[q].verify[c] = "OK" /\ data'[q].state[c] = ck.state[c]
            \/ /\ SpotChecked(c) /\ data'[q].vstate[c] = "Full"
               /\ data'[q].verify[c] # "OK"]_vars

\* What verifyChallenge says of a whole token with an accepted key.
LEMMA VerdictHonours ==
  ASSUME NEW c \in Challenges, NEW token \in Token, NEW o \in Origins, NEW time \in Nat,
         NEW issued, NEW holds, NEW spot,
         TokenWhole(token), token.key \in AcceptedKeys(c, time, o)
  PROVE  LET v == verifyChallenge(c, token, o, time, time, issued, holds, spot)
         IN  (v.result = "OK" /\ v.err = "none") \/ (SpotChecked(c) /\ v.state = "Full" /\ v.result # "OK")
<1> DEFINE check(key) == VerifyChallengeToken(c, token, key, time, spot)
           until == Expiration(time, Duration[c])
           now1 == GetChallengeKeyForRequest(c, until, o)
           old == getChallengeKeyForRequest(c, LegacyKeyHeaders[c], until, o)
           checked == IF check(now1).err = "key" /\ LegacyKeyHeaders[c] # NoHeaders
                      THEN check(old) ELSE check(now1)
           v == verifyChallenge(c, token, o, time, time, issued, holds, spot)
<1>1. token.exp = until /\ until \in Nat /\ ~(until < time)
  <2>1. token.key.until = until /\ Duration[c] \in Nat \ {0}
    BY AcceptedKeysType, RegistrationAssumption
  <2>2. until \in Nat /\ 2 * until > 2 * time + Duration[c]
    BY <2>1, ExpirationBounds
  <2>3. ~(until < time)
    BY <2>1, <2>2
  <2>4. QED
    BY <2>1, <2>2, <2>3 DEF TokenWhole
<1>2. token # NoToken
  BY NoneAssumption
<1>3. v = checked \/ v = [result |-> "Skip", state |-> checked.state, err |-> checked.err]
  BY <1>2 DEF verifyChallenge
<1>4. checked.result = "OK" => v = checked
  BY <1>2 DEF verifyChallenge
<1>5. token.key = now1 \/ (LegacyKeyHeaders[c] # NoHeaders /\ token.key = old)
  BY DEF AcceptedKeys, RequestKey
<1> HIDE DEF until, now1, old, v
<1>6. ASSUME NEW key
      PROVE  /\ token.key # key => check(key).err = "key"
             /\ token.key = key => /\ check(key).err # "key"
                                   /\ \/ check(key).result = "OK" /\ check(key).err = "none"
                                      \/ SpotChecked(c) /\ check(key).state = "Full"
                                           /\ check(key).result # "OK"
  BY <1>1 DEF VerifyChallengeToken, TokenWhole
<1> HIDE DEF check
<1>7. \/ checked.result = "OK" /\ checked.err = "none"
      \/ SpotChecked(c) /\ checked.state = "Full" /\ checked.result # "OK"
  BY <1>5, <1>6
<1> HIDE DEF checked
<1>8. QED
  BY <1>3, <1>4, <1>7 DEF v

\* IssueChallengeToken makes whole tokens.
LEMMA IssueWhole ==
  ASSUME NEW d \in RequestData, NEW o \in Origins, NEW ok,
         DOMAIN ok \subseteq Challenges, \A c \in DOMAIN ok : ok[c] \in BOOLEAN,
         TokensWhole(d.state)
  PROVE  TokensWhole(IssueChallengeToken(d, o, ok).state)
<1> DEFINE S == {c \in DOMAIN ok : ok[c]}
           st == [c \in Challenges |-> IF c \in S THEN NewToken(c, d.time, o, ok[c])
                                                  ELSE d.state[c]]
<1>1. IssueChallengeToken(d, o, ok).state = st
  BY DEF IssueChallengeToken, WithTokens
<1>2. ASSUME NEW c \in S PROVE TokenWhole(st[c])
  <2>1. c \in Challenges /\ ok[c] = TRUE /\ d.time \in Nat
    BY DEF RequestData
  <2>2. st[c] = [key |-> RequestKey(c, d.time, o), exp |-> Expiration(d.time, Duration[c]),
                 ok |-> TRUE]
    BY <2>1 DEF NewToken
  <2>3. RequestKey(c, d.time, o).until = Expiration(d.time, Duration[c])
    BY <2>1, RequestKeyType
  <2> HIDE DEF st
  <2>4. QED
    BY <2>2, <2>3 DEF TokenWhole
<1>3. \A c \in Challenges \ S : st[c] = d.state[c]
  OBVIOUS
<1> HIDE DEF S, st
<1>4. QED
  BY <1>1, <1>2, <1>3 DEF TokensWhole

\* A step of one connection.
LEMMA OthersWhole ==
  ASSUME Whole, NEW q \in Req,
         \A p \in Req : p # q => /\ data'[p] = data[p] /\ reply'[p] = reply[p]
                                 /\ sent'[p] = sent[p],
         \A n \in Networks : CookieWhole(jar'[n], n),
         CookieWhole(sent'[q].cookie, NetworkPrefix[sent'[q].origin]),
         TokensWhole(data'[q].state),
         reply'[q].set # NoCookie => TokensWhole(reply'[q].set.state)
  PROVE  Whole'
<1> SUFFICES ASSUME NEW p \in Req
             PROVE  /\ CookieWhole(sent'[p].cookie, NetworkPrefix[sent'[p].origin])
                    /\ TokensWhole(data'[p].state)
                    /\ reply'[p].set # NoCookie => TokensWhole(reply'[p].set.state)
  BY DEF Whole, CookieWhole, TokensWhole
<1>1. CASE p = q
  BY <1>1
<1>2. CASE p # q
  BY <1>2 DEF Whole
<1>3. QED
  BY <1>1, <1>2

LEMMA RespondWhole ==
  ASSUME Inv, Whole, NEW q \in Req, NEW d \in RequestData, NEW kind, NEW ls,
         Respond(q, d, kind, ls), TokensWhole(d.state)
  PROVE  Whole'
<1> DEFINE set == ResponseHeaders(d, sent[q].origin)
           r == [kind |-> kind, set |-> set, expire |-> FALSE, links |-> ls]
<1>1. sent[q].origin \in Origins
  BY DEF Inv, TypeOK, Request
<1>2. set # NoCookie => set.state = d.state
  BY <1>1, HeadersType
<1>3. /\ data' = [data EXCEPT ![q] = d] /\ reply' = [reply EXCEPT ![q] = r]
      /\ UNCHANGED <<sent, jar>>
  BY DEF Respond
<1> HIDE DEF set
<1>4. r.set = set
  OBVIOUS
<1> HIDE DEF r
<1>5. \A p \in Req : /\ data'[p] = IF p = q THEN d ELSE data[p]
                     /\ reply'[p] = IF p = q THEN r ELSE reply[p]
                     /\ sent'[p] = sent[p]
  BY <1>3 DEF Inv, TypeOK
<1>6. /\ \A n \in Networks : CookieWhole(jar'[n], n)
      /\ CookieWhole(sent'[q].cookie, NetworkPrefix[sent'[q].origin])
  BY <1>3 DEF Whole
<1>7. TokensWhole(data'[q].state) /\ (reply'[q].set # NoCookie => TokensWhole(reply'[q].set.state))
  BY <1>2, <1>4, <1>5
<1>8. QED
  BY <1>5, <1>6, <1>7, OthersWhole

LEMMA HandleIssueWhole ==
  ASSUME Inv, Whole, NEW q \in Req, HandleIssue(q)
  PROVE  Whole'
<1> DEFINE o == sent[q].origin
           d(out) == IssueChallengeToken(RecordIssued(data[q], out), o, Attempts(data[q], out))
<1>1. PICK out \in [DOMAIN Rule -> VerifyResult] : \E kind, ls : Respond(q, d(out), kind, ls)
  <2>1. PICK out \in [DOMAIN Rule -> VerifyResult] :
          LET last == {i \in Visited(data[q], out) : Stops(data[q], out, i)}
          IN  IF last = {}
              THEN Respond(q, d(out), IF FailAction = "DENY" THEN "denied" ELSE "backend", {})
              ELSE \E i \in last :
                     IF out[i] = "OK" THEN Respond(q, d(out), "backend", {})
                     ELSE Respond(q, d(out), IF Runtime[Rule[i]] = "cookie" THEN "redirect"
                                                                            ELSE "challenge",
                                  IssuedLinks(Rule[i], q))
    BY DEF HandleIssue
  <2> HIDE DEF d
  <2>2. QED
    BY <2>1
<1>2. data[q] \in RequestData /\ o \in Origins /\ TokensWhole(data[q].state)
  BY DEF Inv, TypeOK, Request, Whole
<1> DEFINE r == RecordIssued(data[q], out)
           ok == Attempts(data[q], out)
<1>3. /\ DOMAIN ok \subseteq Challenges /\ \A c \in DOMAIN ok : ok[c] \in BOOLEAN
      /\ r \in RequestData /\ r.state = data[q].state
  BY <1>2, AttemptsType, RecordType
<1> HIDE DEF r, ok
<1>4. d(out) = IssueChallengeToken(r, o, ok)
  BY DEF r, ok
<1> HIDE DEF d
<1>5. d(out) \in RequestData /\ TokensWhole(d(out).state)
  BY <1>2, <1>3, <1>4, IssueType, IssueWhole
<1>6. QED
  BY <1>1, <1>5, RespondWhole

LEMMA VerifyPassWhole ==
  ASSUME Inv, Whole, NEW q \in Req, VerifyPass(q)
  PROVE  Whole'
<1> DEFINE o == sent[q].origin
           c0 == sent[q].link.ch
           ok == [c \in {c0} |-> TRUE]
           n == IssueChallengeToken(data[q], o, ok)
           verify == [data[q].verify EXCEPT ![c0] = "OK"]
           d == WithVerdicts(n, verify, data[q].vstate)
<1>1. sent[q].link.route = "verify" /\ \E kind, ls : Respond(q, d, kind, ls)
  BY DEF VerifyPass, Evaluated
<1>2. /\ data[q] \in RequestData /\ o \in Origins /\ c0 \in Challenges
      /\ data[q].verify \in [Challenges -> VerifyResult]
      /\ data[q].vstate \in [Challenges -> VerifyState] /\ TokensWhole(data[q].state)
  BY <1>1 DEF Inv, TypeOK, RequestData, Request, Link, AllLinksOK, LinksOK, Whole
<1>3. DOMAIN ok \subseteq Challenges /\ \A c \in DOMAIN ok : ok[c] \in BOOLEAN
  BY <1>2
<1>4. verify \in [Challenges -> VerifyResult]
  BY <1>2 DEF VerifyResult
<1> HIDE DEF ok, verify, o, c0
<1>5. n \in RequestData /\ TokensWhole(n.state)
  BY <1>2, <1>3, IssueType, IssueWhole
<1> HIDE DEF n
<1>6. d \in RequestData /\ d.state = n.state
  BY <1>2, <1>4, <1>5, VerdictsType
<1> HIDE DEF d
<1>7. QED
  BY <1>1, <1>5, <1>6, RespondWhole

\* EvaluateChallenges keeps tokens as they are or drops them, and drops none
\* that still counts.
LEMMA EvaluateHonours ==
  ASSUME Inv, Whole, NEW q \in Req, EvaluateChallenges(q)
  PROVE  /\ Whole'
         /\ \A c \in Challenges :
              LET ck == sent[q].cookie IN
              /\ ck # NoCookie /\ ck.exp >= now
              /\ ck.state[c] # NoToken
              /\ ck.state[c].key \in AcceptedKeys(c, now, sent[q].origin)
              => \/ data'[q].verify[c] = "OK" /\ data'[q].state[c] = ck.state[c]
                 \/ /\ SpotChecked(c) /\ data'[q].vstate[c] = "Full"
                    /\ data'[q].verify[c] # "OK"
<1> DEFINE rq == sent[q]
           st == verifyChallengeState(rq.cookie, rq.origin, now)
<1>1. PICK spot \in [Challenges -> {"brief", "ok", "error"}] :
        data' = [data EXCEPT ![q] =
          [time |-> now, modified |-> FALSE,
           state  |-> [c \in Challenges |->
                         IF verifyChallenge(c, st[c], rq.origin, now, now, rq.link.ch,
                                            rq.holds, spot[c]).err # "none"
                         THEN NoToken ELSE st[c]],
           verify |-> [c \in Challenges |->
                         verifyChallenge(c, st[c], rq.origin, now, now, rq.link.ch,
                                         rq.holds, spot[c]).result],
           vstate |-> [c \in Challenges |->
                         verifyChallenge(c, st[c], rq.origin, now, now, rq.link.ch,
                                         rq.holds, spot[c]).state]]]
  BY ZenonT(60) DEF EvaluateChallenges
<1> DEFINE v(c) == verifyChallenge(c, st[c], rq.origin, now, now, rq.link.ch, rq.holds, spot[c])
           new == [time |-> now, modified |-> FALSE,
                   state  |-> [c \in Challenges |-> IF v(c).err # "none" THEN NoToken
                                                                        ELSE st[c]],
                   verify |-> [c \in Challenges |-> v(c).result],
                   vstate |-> [c \in Challenges |-> v(c).state]]
<1>2. data' = [data EXCEPT ![q] = new]
  BY <1>1
<1>3. UNCHANGED <<sent, reply, jar>>
  BY DEF EvaluateChallenges
<1>4. /\ now \in Nat /\ rq.origin \in Origins /\ rq.cookie \in Cookie \cup {NoCookie}
      /\ CookieWhole(rq.cookie, NetworkPrefix[rq.origin])
  BY DEF Inv, TypeOK, Request, Whole
<1>5. /\ st \in TokenMap /\ TokensWhole(st)
      /\ rq.cookie # NoCookie /\ rq.cookie.exp >= now => st = rq.cookie.state
  BY <1>4 DEF verifyChallengeState, Cookie, TokenMap, CookieWhole, TokensWhole
<1> HIDE DEF st, rq
<1>6. ASSUME NEW c \in Challenges, st[c] # NoToken,
             st[c].key \in AcceptedKeys(c, now, rq.origin)
      PROVE  \/ v(c).result = "OK" /\ v(c).err = "none"
             \/ SpotChecked(c) /\ v(c).state = "Full" /\ v(c).result # "OK"
  <2>1. st[c] \in Token /\ TokenWhole(st[c])
    BY <1>5, <1>6 DEF TokenMap, TokensWhole
  <2>2. QED
    BY <1>4, <1>6, <2>1, VerdictHonours
<1> HIDE DEF v
<1>7. \A c \in Challenges : /\ new.verify[c] = v(c).result /\ new.vstate[c] = v(c).state
                            /\ new.state[c] = IF v(c).err # "none" THEN NoToken ELSE st[c]
  OBVIOUS
<1> HIDE DEF new
<1>8. \A p \in Req : /\ data'[p] = IF p = q THEN new ELSE data[p]
                     /\ sent'[p] = sent[p] /\ reply'[p] = reply[p]
  BY <1>2, <1>3 DEF Inv, TypeOK
<1>9. TokensWhole(data'[q].state)
  BY <1>5, <1>7, <1>8 DEF TokensWhole
<1>10. /\ \A n \in Networks : CookieWhole(jar'[n], n)
       /\ CookieWhole(sent'[q].cookie, NetworkPrefix[sent'[q].origin])
       /\ reply'[q].set # NoCookie => TokensWhole(reply'[q].set.state)
  BY <1>3 DEF Whole
<1>11. Whole'
  BY <1>8, <1>9, <1>10, OthersWhole
<1>12. QED
  BY <1>5, <1>6, <1>7, <1>8, <1>11 DEF rq

LEMMA SendWhole ==
  ASSUME Inv, Whole, NEW q \in Req, NEW l, Send(q, l)
  PROVE  Whole'
<1>1. PICK o \in Origins, h \in SUBSET Conditioned :
         sent' = [sent EXCEPT ![q] = [link |-> l, origin |-> o, holds |-> h,
                                      cookie |-> jar[NetworkPrefix[o]]]]
  BY DEF Send
<1> DEFINE new == [link |-> l, origin |-> o, holds |-> h, cookie |-> jar[NetworkPrefix[o]]]
<1>2. CookieWhole(jar[NetworkPrefix[o]], NetworkPrefix[o])
  BY DEF Whole, Networks
<1>3. new.cookie = jar[NetworkPrefix[o]] /\ new.origin = o
  OBVIOUS
<1>4. sent' = [sent EXCEPT ![q] = new] /\ UNCHANGED <<data, reply, jar>>
  BY <1>1 DEF Send
<1> HIDE DEF new
<1>5. \A p \in Req : /\ sent'[p] = IF p = q THEN new ELSE sent[p]
                     /\ data'[p] = data[p] /\ reply'[p] = reply[p]
  BY <1>4 DEF Inv, TypeOK
<1>6. /\ \A n \in Networks : CookieWhole(jar'[n], n)
      /\ TokensWhole(data'[q].state)
      /\ reply'[q].set # NoCookie => TokensWhole(reply'[q].set.state)
  BY <1>4 DEF Whole
<1>7. CookieWhole(sent'[q].cookie, NetworkPrefix[sent'[q].origin])
  BY <1>2, <1>3, <1>5
<1>8. QED
  BY <1>5, <1>6, <1>7, OthersWhole

LEMMA IdleWhole ==
  ASSUME Inv, Whole, NEW q \in Req, Idle(q), \A n \in Networks : CookieWhole(jar'[n], n)
  PROVE  Whole'
<1>1. \A p \in Req : /\ sent'[p] = IF p = q THEN NoRequest ELSE sent[p]
                     /\ data'[p] = IF p = q THEN NoData ELSE data[p]
                     /\ reply'[p] = IF p = q THEN NoReply ELSE reply[p]
  BY DEF Idle, Inv, TypeOK
<1>2. /\ CookieWhole(sent'[q].cookie, NetworkPrefix[sent'[q].origin])
      /\ TokensWhole(data'[q].state) /\ reply'[q].set = NoCookie
  BY <1>1, NothingType DEF CookieWhole, TokensWhole
<1>3. QED
  BY <1>1, <1>2, OthersWhole

\* The browser files a cookie under the network it was made for.
LEMMA ReceiveWhole ==
  ASSUME Inv, Whole, NEW q \in Req, Receive(q)
  PROVE  Whole'
<1>1. reply[q].set # NoCookie => reply[q].set.net \in Networks /\ TokensWhole(reply[q].set.state)
  BY DEF Inv, TypeOK, Response, Cookie, Whole
<1>2. ASSUME NEW n \in Networks PROVE CookieWhole(jar'[n], n)
  <2>1. \/ jar'[n] = jar[n] \/ jar'[n] = NoCookie
        \/ reply[q].set # NoCookie /\ jar'[n] = reply[q].set /\ reply[q].set.net = n
    BY <1>1 DEF Receive, Inv, TypeOK
  <2>2. QED
    BY <1>1, <2>1 DEF Whole, CookieWhole
<1>3. QED
  BY <1>2, IdleWhole DEF Receive

LEMMA ClearWhole ==
  ASSUME Inv, Whole, NEW q \in Req, ClearChallengeState(q)
  PROVE  Whole'
<1> DEFINE allowed == allowChallengeStateClear(sent[q].link.route)
           r == [kind |-> IF allowed THEN "cleared" ELSE "forbidden",
                 set |-> NoCookie, expire |-> allowed, links |-> {}]
<1>1. reply' = [reply EXCEPT ![q] = r] /\ UNCHANGED <<sent, data, jar>>
  BY DEF ClearChallengeState
<1>2. r.set = NoCookie
  OBVIOUS
<1> HIDE DEF r
<1>3. \A p \in Req : /\ reply'[p] = IF p = q THEN r ELSE reply[p]
                     /\ sent'[p] = sent[p] /\ data'[p] = data[p]
  BY <1>1 DEF Inv, TypeOK
<1>4. /\ \A n \in Networks : CookieWhole(jar'[n], n)
      /\ CookieWhole(sent'[q].cookie, NetworkPrefix[sent'[q].origin])
      /\ TokensWhole(data'[q].state)
  BY <1>1 DEF Whole
<1>5. QED
  BY <1>2, <1>3, <1>4, OthersWhole

LEMMA InitWhole == Init => Whole
<1> SUFFICES ASSUME Init PROVE Whole
  OBVIOUS
<1>1. InitBase
  BY DEF Init
<1>2. \A q \in Req : /\ CookieWhole(sent[q].cookie, NetworkPrefix[sent[q].origin])
                     /\ TokensWhole(data[q].state) /\ reply[q].set = NoCookie
  BY <1>1, NothingType DEF InitBase, CookieWhole, TokensWhole
<1>3. CASE InitFresh
  BY <1>2, <1>3 DEF InitFresh, Whole, CookieWhole
<1>4. CASE InitUpgraded
  <2>1. PICK c \in Challenges, o \in Origins :
          /\ LegacyKeyHeaders[c] # NoHeaders
          /\ jar = [n \in Networks |-> IF n = NetworkPrefix[o] THEN LegacyCookie(c, o)
                                                               ELSE NoCookie]
    BY <1>4 DEF InitUpgraded
  <2> DEFINE until == Expiration(0, Duration[c])
             key == getChallengeKeyForRequest(c, LegacyKeyHeaders[c], until, o)
             st == [e \in Challenges |-> IF e = c THEN LegacyToken(c, o) ELSE NoToken]
  <2>2. Duration[c] \in Nat \ {0} /\ LegacyKeyHeaders[c] \in HeaderSets
    BY <2>1, RegistrationAssumption
  <2>3. until \in Nat
    BY <2>2, ExpirationBounds
  <2>4. LegacyToken(c, o) = [key |-> key, exp |-> until, ok |-> TRUE]
    BY DEF LegacyToken
  <2> HIDE DEF until
  <2>5. key.until = until
    BY <2>2, <2>3, KeyType
  <2> HIDE DEF key
  <2>6. TokenWhole(LegacyToken(c, o))
    BY <2>4, <2>5 DEF TokenWhole
  <2>7. TokensWhole(st)
    BY <2>6 DEF TokensWhole
  <2>8. LegacyCookie(c, o).state = st /\ LegacyCookie(c, o).net = NetworkPrefix[o]
    BY DEF LegacyCookie
  <2> HIDE DEF st
  <2>9. \A n \in Networks : CookieWhole(jar[n], n)
    BY <2>1, <2>7, <2>8 DEF CookieWhole
  <2>10. QED
    BY <1>2, <2>9 DEF Whole
<1>5. QED
  BY <1>3, <1>4 DEF Init

LEMMA StepWhole == Inv /\ Whole /\ [Next]_vars => Whole'
<1> SUFFICES ASSUME Inv, Whole, [Next]_vars PROVE Whole'
  OBVIOUS
<1>1. CASE Tick \/ UNCHANGED vars
  <2>1. UNCHANGED <<sent, data, reply, jar>>
    BY <1>1 DEF Tick, vars
  <2>2. QED
    BY <2>1 DEF Whole, CookieWhole, TokensWhole, TokenWhole
<1>2. ASSUME NEW q \in Req, Navigate(q) \/ Follow(q) \/ PostClear(q) PROVE Whole'
  BY <1>2, SendWhole DEF Navigate, Follow, PostClear
<1>3. ASSUME NEW q \in Req, Lose(q) PROVE Whole'
  <2>1. Idle(q) /\ \A n \in Networks : CookieWhole(jar'[n], n)
    BY <1>3 DEF Lose, Whole
  <2>2. QED
    BY <2>1, IdleWhole
<1>4. ASSUME NEW q \in Req, HandleValid(q) \/ MakeChallenge(q) \/ VerifyReject(q)
      PROVE  Whole'
  <2>1. \E kind, ls : Respond(q, data[q], kind, ls)
    BY <1>4 DEF HandleValid, MakeChallenge, VerifyReject
  <2>2. data[q] \in RequestData /\ TokensWhole(data[q].state)
    BY DEF Inv, TypeOK, Whole
  <2>3. QED
    BY <2>1, <2>2, RespondWhole
<1>5. ASSUME NEW q \in Req, Handler(q) PROVE Whole'
  BY <1>4, <1>5, HandleIssueWhole, VerifyPassWhole, ClearWhole DEF Handler
<1>6. QED
  BY <1>1, <1>2, <1>3, <1>5, EvaluateHonours, ReceiveWhole DEF Next

\* Every token on its way, from the response that sets it through the jar to
\* the request that sends it, is whole and travels on its own network.
THEOREM WholeInvariance == Spec => [](Inv /\ Whole)
  BY InitWhole, InitInv, StepInv, StepWhole, PTL DEF Spec

\* A proof that still counts is honoured: verifyChallengeState and
\* verifyChallenge admit a request whose unexpired cookie holds a token for
\* one of its keys, and keep that token, for every registration and however
\* the cookie came into the jar.
THEOREM ProofsHonoured == Spec => ProofHonoured
<1> DEFINE Honoured(q, c) ==
             LET ck == sent[q].cookie IN
             /\ pc[q] = "sent" /\ pc'[q] = "evaluated"
             /\ ck # NoCookie /\ ck.exp >= now
             /\ ck.state[c] # NoToken
             /\ ck.state[c].key \in AcceptedKeys(c, now, sent[q].origin)
             => \/ data'[q].verify[c] = "OK" /\ data'[q].state[c] = ck.state[c]
                \/ /\ SpotChecked(c) /\ data'[q].vstate[c] = "Full"
                   /\ data'[q].verify[c] # "OK"
           A == \A q \in Req, c \in Challenges : Honoured(q, c)
<1>1. Inv /\ Whole /\ [Next]_vars => [A]_vars
  <2> SUFFICES ASSUME Inv, Whole, Next, NEW q \in Req, NEW c \in Challenges,
                      pc[q] = "sent", pc'[q] = "evaluated"
               PROVE  Honoured(q, c)
    BY DEF vars
  <2>1. EvaluateChallenges(q)
    <3>1. pc' # pc /\ ~Tick
      BY DEF Tick
    <3>2. ASSUME NEW p \in Req, NEW v \in {"idle", "sent", "replied"},
                 pc' = [pc EXCEPT ![p] = v]
          PROVE  FALSE
      BY <3>2 DEF Inv, TypeOK
    <3>3. ASSUME NEW p \in Req, Navigate(p) \/ Follow(p) \/ PostClear(p) PROVE FALSE
      BY <3>2, <3>3 DEF Navigate, Follow, PostClear, Send
    <3>4. ASSUME NEW p \in Req, Receive(p) \/ Lose(p) PROVE FALSE
      BY <3>2, <3>4 DEF Receive, Lose, Idle
    <3>5. ASSUME NEW p \in Req, NEW d, NEW kind, NEW ls, Respond(p, d, kind, ls) PROVE FALSE
      BY <3>2, <3>5 DEF Respond
    <3>6. ASSUME NEW p \in Req, HandleIssue(p) \/ VerifyPass(p) PROVE FALSE
      BY <3>5, <3>6 DEF HandleIssue, VerifyPass
    <3>7. ASSUME NEW p \in Req, HandleValid(p) \/ MakeChallenge(p) \/ VerifyReject(p) PROVE FALSE
      BY <3>5, <3>7 DEF HandleValid, MakeChallenge, VerifyReject
    <3>8. ASSUME NEW p \in Req, ClearChallengeState(p) PROVE FALSE
      BY <3>2, <3>8 DEF ClearChallengeState
    <3>9. PICK p \in Req : EvaluateChallenges(p)
      BY <3>1, <3>3, <3>4, <3>6, <3>7, <3>8 DEF Next, Handler
    <3>10. p = q
      BY <3>9 DEF EvaluateChallenges, Inv, TypeOK
    <3>11. QED
      BY <3>9, <3>10
  <2>2. QED
    BY <2>1, EvaluateHonours
<1>2. QED
  BY <1>1, WholeInvariance, PTL DEF Spec, ProofHonoured
===========================================================================
