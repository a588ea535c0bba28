------------------------------- MODULE Gate -------------------------------
(***************************************************************************)
(* One host behind go-away, guarded by a CHALLENGE or CHECK rule, and the  *)
(* browser that talks to it.  The server keeps nothing about a client      *)
(* between two requests: every proof lives in the state cookie, which each *)
(* response that earned something replaces as a whole.                     *)
(*                                                                         *)
(* A request runs in three steps: the client sends it with the cookie its  *)
(* jar holds at that moment; ServeHTTP creates its RequestData and         *)
(* evaluates every registered challenge; the route's handler answers.  Any *)
(* number of other requests, cookie updates and clock ticks may fall in    *)
(* between, and before the client receives the answer.                     *)
(***************************************************************************)
EXTENDS Registration, Sequences

CONSTANTS
    Req,            \* the connections of the browser
    Rule,           \* the rule's challenges, in order
    FailAction,     \* "DENY", or "NONE" to go on with the next rule
    KeepsCookies,   \* the browser stores the cookies it is sent
    Patient,        \* the browser follows what it was sent before it navigates anew
    MaxTime,        \* bound on the clock
    MaxLost,        \* bound on the number of lost responses
    Clears          \* the browser may post to clear-state

VARIABLES
    now,        \* the clock
    pc,         \* pc[q]: "idle", "sent", "evaluated" or "replied"
    sent,       \* sent[q]: the request as sent
    data,       \* data[q]: its RequestData
    reply,      \* reply[q]: the response
    jar,        \* jar[n]: the state cookie for network n
    links,      \* links[q]: what the last response on q lets the browser do next
    earned,     \* every key a challenge was really passed for, and when
    lost        \* the number of responses lost so far

vars == <<now, pc, sent, data, reply, jar, links, earned, lost>>

ASSUME GateAssumption ==
    /\ Origins # {}
    /\ Rule \in Seq(Challenges)
    /\ KeepsCookies \in BOOLEAN /\ Patient \in BOOLEAN /\ Clears \in BOOLEAN
    /\ FailAction \in {"DENY", "NONE"}
    /\ MaxTime \in Nat /\ MaxLost \in Nat

---------------------------------------------------------------------------
\* What a browser can request.  "page" is the guarded page, ch its
\* __goaway_challenge argument; "make" and "verify" are the challenge's own
\* routes, back the argument of the page they lead back to; "retry" is a
\* verify route whose __goaway arguments were stripped.
Link == [route : {"page", "make", "verify", "retry", "clear", "foreign-clear"},
         ch    : Challenges \cup {NoChallenge},
         key   : Key \cup {NoKey},
         back  : Challenges \cup {NoChallenge}]

Page(ch) == [route |-> "page", ch |-> ch, key |-> NoKey, back |-> NoChallenge]

ClearPost(route) == [route |-> route, ch |-> NoChallenge, key |-> NoKey, back |-> NoChallenge]

Request == [link : Link, origin : Origins, holds : SUBSET Challenges,
            cookie : Cookie \cup {NoCookie}]

RequestData == [time : Nat, state : TokenMap, modified : BOOLEAN,
                verify : [Challenges -> VerifyResult],
                vstate : [Challenges -> VerifyState]]

\* set: the cookie a response sets; expire: it expires the cookie.
ResponseKind == {"none", "backend", "denied", "challenge", "redirect", "data", "css",
                 "bad-request", "forbidden", "error", "cleared"}

Response == [kind : ResponseKind, set : Cookie \cup {NoCookie}, expire : BOOLEAN,
             links : SUBSET Link]

NoData == [time |-> 0, state |-> [c \in Challenges |-> NoToken], modified |-> FALSE,
           verify |-> [c \in Challenges |-> "None"],
           vstate |-> [c \in Challenges |-> "None"]]

\* An idle connection: the RequestData of a request dies with its response.
NoRequest == [link |-> Page(NoChallenge), origin |-> CHOOSE o \in Origins : TRUE,
              holds |-> {}, cookie |-> NoCookie]

NoReply == [kind |-> "none", set |-> NoCookie, expire |-> FALSE, links |-> {}]

---------------------------------------------------------------------------
\* A browser upgraded from an earlier release may hold proofs that were made
\* with the legacy header list.
LegacyToken(c, o) ==
    LET until == Expiration(0, Duration[c])
    IN  [key |-> getChallengeKeyForRequest(c, LegacyKeyHeaders[c], until, o),
         exp |-> until, ok |-> TRUE]

LegacyCookie(c, o) ==
    [net |-> NetworkPrefix[o],
     state |-> [e \in Challenges |-> IF e = c THEN LegacyToken(c, o) ELSE NoToken],
     exp |-> Expiration(0, DefaultDuration)]

InitBase ==
    /\ now = 0 /\ lost = 0
    /\ pc = [q \in Req |-> "idle"]
    /\ sent = [q \in Req |-> NoRequest]
    /\ data = [q \in Req |-> NoData]
    /\ reply = [q \in Req |-> NoReply]
    /\ links = [q \in Req |-> {}]

InitFresh == jar = [n \in Networks |-> NoCookie] /\ earned = {}

InitUpgraded ==
    \E c \in Challenges, o \in Origins :
        /\ LegacyKeyHeaders[c] # NoHeaders
        /\ jar = [n \in Networks |-> IF n = NetworkPrefix[o] THEN LegacyCookie(c, o)
                                                             ELSE NoCookie]
        /\ earned = {[key |-> LegacyToken(c, o).key, at |-> 0]}

Init == InitBase /\ (InitFresh \/ InitUpgraded)

---------------------------------------------------------------------------
(* The browser *)

Tick == /\ now < MaxTime
        /\ now' = now + 1
        /\ UNCHANGED <<pc, sent, data, reply, jar, links, earned, lost>>

\* Conditions of the registrations read the request: any of them may hold.
Send(q, l) ==
    /\ pc[q] = "idle"
    /\ \E o \in Origins, h \in SUBSET Conditioned :
          sent' = [sent EXCEPT ![q] = [link |-> l, origin |-> o, holds |-> h,
                                       cookie |-> jar[NetworkPrefix[o]]]]
    /\ pc' = [pc EXCEPT ![q] = "sent"]
    /\ UNCHANGED <<now, data, reply, jar, links, earned, lost>>

Navigate(q) == (Patient => links[q] = {}) /\ Send(q, Page(NoChallenge))

Follow(q) == \E p \in Req : \E l \in links[p] : (Patient => p = q) /\ Send(q, l)

PostClear(q) == Clears /\ \E route \in {"clear", "foreign-clear"} : Send(q, ClearPost(route))

Idle(q) == /\ pc' = [pc EXCEPT ![q] = "idle"]
           /\ sent' = [sent EXCEPT ![q] = NoRequest]
           /\ data' = [data EXCEPT ![q] = NoData]
           /\ reply' = [reply EXCEPT ![q] = NoReply]

\* The browser stores or expires the state cookie in the order responses
\* arrive, whatever the order of the requests.
Receive(q) ==
    /\ pc[q] = "replied"
    /\ Idle(q)
    /\ jar' = IF ~KeepsCookies THEN jar
              ELSE IF reply[q].expire
                   THEN [jar EXCEPT ![NetworkPrefix[sent[q].origin]] = NoCookie]
              ELSE IF reply[q].set # NoCookie
                   THEN [jar EXCEPT ![reply[q].set.net] = reply[q].set]
              ELSE jar
    /\ links' = [links EXCEPT ![q] = reply[q].links]
    /\ UNCHANGED <<now, earned, lost>>

\* The response never arrives; the browser may ask for the same thing again.
Lose(q) ==
    /\ pc[q] = "replied" /\ lost < MaxLost
    /\ Idle(q)
    /\ lost' = lost + 1
    /\ UNCHANGED <<now, jar, links, earned>>

---------------------------------------------------------------------------
(* The server *)

\* ServeHTTP up to the mux: CreateRequestData, then EvaluateChallenges with
\* every verdict cleared of a token that failed to verify.
EvaluateChallenges(q) ==
    /\ pc[q] = "sent"
    /\ \E spot \in [Challenges -> {"brief", "ok", "error"}] :
         LET rq == sent[q]
             st == verifyChallengeState(rq.cookie, rq.origin, now)
             v  == [c \in Challenges |->
                       verifyChallenge(c, st[c], rq.origin, now, now, rq.link.ch,
                                       rq.holds, spot[c])]
         IN  /\ \A c \in Challenges : spot[c] # "brief" => SpotChecked(c)
             /\ data' = [data EXCEPT ![q] =
                   [time |-> now, modified |-> FALSE,
                    state  |-> [c \in Challenges |-> IF v[c].err # "none" THEN NoToken
                                                                          ELSE st[c]],
                    verify |-> [c \in Challenges |-> v[c].result],
                    vstate |-> [c \in Challenges |-> v[c].state]]]
    /\ pc' = [pc EXCEPT ![q] = "evaluated"]
    /\ UNCHANGED <<now, sent, reply, jar, links, earned, lost>>

\* The RequestData d with other tokens, or with other verdicts.
WithTokens(d, state, modified) ==
    [time |-> d.time, state |-> state, modified |-> modified,
     verify |-> d.verify, vstate |-> d.vstate]

WithVerdicts(d, verify, vstate) ==
    [time |-> d.time, state |-> d.state, modified |-> d.modified,
     verify |-> verify, vstate |-> vstate]

NewToken(c, t, o, ok) ==
    [key |-> RequestKey(c, t, o), exp |-> Expiration(t, Duration[c]), ok |-> ok]

\* Mutation: a rejected check is stored too.
StoreRejectedToken(d, o, ok) ==
    WithTokens(d, [c \in Challenges |-> IF c \in DOMAIN ok THEN NewToken(c, d.time, o, ok[c])
                                                          ELSE d.state[c]],
               d.modified \/ DOMAIN ok # {})

\* Mutation: the map is started anew with every token.
StoreOnlyToken(d, o, ok) ==
    LET issue == {c \in DOMAIN ok : ok[c]}
    IN  WithTokens(d, [c \in Challenges |-> IF c \in issue THEN NewToken(c, d.time, o, ok[c])
                                                           ELSE NoToken],
                   d.modified \/ issue # {})

\* Mutation: challengeMapModified is not set.
StoreUnmarkedToken(d, o, ok) ==
    LET issue == {c \in DOMAIN ok : ok[c]}
    IN  WithTokens(d, [c \in Challenges |-> IF c \in issue THEN NewToken(c, d.time, o, ok[c])
                                                           ELSE d.state[c]],
                   d.modified)

\* IssueChallengeToken for every challenge in the domain of ok, which tells
\* whether the challenge was passed: only a pass is stored.
IssueChallengeToken(d, o, ok) ==
    LET issue == {c \in DOMAIN ok : ok[c]}
    IN  WithTokens(d, [c \in Challenges |-> IF c \in issue THEN NewToken(c, d.time, o, ok[c])
                                                           ELSE d.state[c]],
                   d.modified \/ issue # {})

\* ResponseHeaders: the whole map is written back when something was added.
ResponseHeaders(d, o) ==
    IF d.modified THEN [net |-> NetworkPrefix[o], state |-> d.state,
                        exp |-> Expiration(d.time, DefaultDuration)]
                  ELSE NoCookie

\* The handler of q ends: its RequestData is d, its response has this kind.
Respond(q, d, kind, ls) ==
    /\ data' = [data EXCEPT ![q] = d]
    /\ reply' = [reply EXCEPT ![q] =
          [kind |-> kind, set |-> ResponseHeaders(d, sent[q].origin),
           expire |-> FALSE, links |-> ls]]
    /\ pc' = [pc EXCEPT ![q] = "replied"]
    /\ UNCHANGED <<now, sent, jar, links, lost>>

Evaluated(q, routes) == pc[q] = "evaluated" /\ sent[q].link.route \in routes

HasValidChallenge(d, c) == d.verify[c] = "OK"

\* Challenge.Handle, first loop: a challenge of the rule already passed.  The
\* pass action, or the rules after a CHECK, hand the request to the backend.
HandleValid(q) ==
    /\ Evaluated(q, {"page"})
    /\ \E i \in DOMAIN Rule : HasValidChallenge(data[q], Rule[i])
    /\ Respond(q, data[q], "backend", {})
    /\ UNCHANGED earned

\* What IssueChallenge may return.  An address is listed or not; an http
\* check also fails when its request does; a blocking challenge shows its page
\* or redirect, and would only fail on a verify URL that does not parse.
DnsblResults == {"OK", "NotOK"}
HttpResults == {"OK", "NotOK", "Fail"}
IssueResults(c) ==
    CASE Runtime[c] = "dnsbl" -> DnsblResults
      [] Runtime[c] = "http"  -> HttpResults
      [] OTHER                -> {"None"}

\* What the page or redirect of an issued blocking challenge leads to: the
\* request itself, now naming the challenge; the verify URL; both, the second
\* one as a stylesheet; or the script's make-challenge, from a page that keeps
\* the address it was reached by.
VerifyLink(c, key) == [route |-> "verify", ch |-> c, key |-> key, back |-> c]
CookieLinks(c) == {Page(c)}
RefreshLinks(c, key) == {VerifyLink(c, key)}
ResourceLoadLinks(c, key) == {VerifyLink(c, key), Page(c)}
ScriptLinks(c, from) == {[route |-> "make", ch |-> c, key |-> NoKey, back |-> from]}

IssuedLinks(c, q) ==
    LET key == RequestKey(c, data[q].time, sent[q].origin)
    IN  CASE Runtime[c] = "cookie"        -> CookieLinks(c)
          [] Runtime[c] = "refresh"       -> RefreshLinks(c, key)
          [] Runtime[c] = "resource-load" -> ResourceLoadLinks(c, key)
          [] OTHER                        -> ScriptLinks(c, sent[q].link.ch)

\* Challenge.Handle, second loop: challenges are issued in order until one
\* passes or shows a page.  A repeated challenge is in VerifyStatePass.
Eligible(d, i) ==
    /\ d.verify[Rule[i]] \notin {"OK", "Skip"}
    /\ d.vstate[Rule[i]] # "Pass"
    /\ \A j \in 1 .. (i - 1) : Rule[j] # Rule[i]

Stops(d, out, i) ==
    /\ Eligible(d, i)
    /\ \/ out[i] = "OK"
       \/ out[i] = "None" /\ Class(Rule[i]) = "blocking"

Visited(d, out) ==
    {i \in DOMAIN Rule : Eligible(d, i) /\ \A j \in 1 .. (i - 1) : ~Stops(d, out, j)}

\* The tokens asked for on the way: a cookie challenge always, a check by
\* its outcome, the others only when they are verified.
Attempts(d, out) ==
    LET tried == {i \in Visited(d, out) : Runtime[Rule[i]] \in {"cookie", "dnsbl", "http"}
                                          /\ out[i] # "Fail"}
    IN  [c \in {Rule[i] : i \in tried} |->
            \E i \in tried : Rule[i] = c /\ out[i] # "NotOK"]

Recorded(d, out, c) == {i \in Visited(d, out) : Rule[i] = c}

IssuedVerify(d, out) ==
    [c \in Challenges |-> IF Recorded(d, out, c) = {} THEN d.verify[c]
                          ELSE out[CHOOSE i \in Recorded(d, out, c) : TRUE]]

\* Mutation: only the result of an issued challenge is recorded.
RecordResultOnly(d, out) == WithVerdicts(d, IssuedVerify(d, out), d.vstate)

\* ChallengeVerify and ChallengeState of the visited challenges.
RecordIssued(d, out) ==
    WithVerdicts(d, IssuedVerify(d, out),
                 [c \in Challenges |-> IF Recorded(d, out, c) = {} THEN d.vstate[c] ELSE "Pass"])

HandleIssue(q) ==
    /\ Evaluated(q, {"page"})
    /\ \A i \in DOMAIN Rule : ~HasValidChallenge(data[q], Rule[i])
    /\ \E out \in [DOMAIN Rule -> VerifyResult] :
         LET d0 == data[q]
             o  == sent[q].origin
             ok == Attempts(d0, out)
             d  == IssueChallengeToken(RecordIssued(d0, out), o, ok)
             last == {i \in Visited(d0, out) : Stops(d0, out, i)}
         IN  /\ \A i \in DOMAIN Rule : out[i] \in IssueResults(Rule[i])
             /\ earned' = earned \cup {[key |-> RequestKey(c, d0.time, o), at |-> d0.time] :
                                         c \in {e \in DOMAIN ok : ok[e]}}
             /\ IF last = {}
                THEN Respond(q, d, IF FailAction = "DENY" THEN "denied" ELSE "backend", {})
                ELSE \E i \in last :
                       IF out[i] = "OK" THEN Respond(q, d, "backend", {})
                       ELSE Respond(q, d, IF Runtime[Rule[i]] = "cookie" THEN "redirect"
                                                                         ELSE "challenge",
                                    IssuedLinks(Rule[i], q))

\* make-challenge of the js runtime: the work is handed out for the key of
\* this request.  Running the module may fail.
MakeChallenge(q) ==
    /\ Evaluated(q, {"make"})
    /\ LET l == sent[q].link
       IN  \/ Respond(q, data[q], "data",
                 {[route |-> "verify", ch |-> l.ch, back |-> l.back,
                   key |-> RequestKey(l.ch, data[q].time, sent[q].origin)]})
           \/ Respond(q, data[q], "error", {})
    /\ UNCHANGED earned

\* VerifyHandlerFunc when the proof verifies for this request's key.
VerifyPass(q) ==
    LET l == sent[q].link
        o == sent[q].origin
        key == RequestKey(l.ch, data[q].time, o)
        d == WithVerdicts(IssueChallengeToken(data[q], o, [c \in {l.ch} |-> TRUE]),
                          [data[q].verify EXCEPT ![l.ch] = "OK"], data[q].vstate)
    IN  /\ Evaluated(q, {"verify"})
        /\ VerifyProof(l.ch, key, l.key) = "ok"
        /\ earned' = earned \cup {[key |-> key, at |-> data[q].time]}
        /\ IF Runtime[l.ch] = "resource-load"
           THEN Respond(q, d, "css", {})
           ELSE Respond(q, d, "redirect", {Page(l.back)})

\* VerifyHandlerFunc otherwise: the proof is for another key, the arguments
\* are missing, or the module failed to run, which two verifications that
\* share the error variable of reg.Verify may also tell each other.
VerifyReject(q) ==
    /\ Evaluated(q, {"verify", "retry"})
    /\ LET l == sent[q].link
           v == VerifyProof(l.ch, RequestKey(l.ch, data[q].time, sent[q].origin), l.key)
       IN  \/ l.route = "retry" /\ Respond(q, data[q], "bad-request", {})
           \/ l.route = "verify" /\ Runtime[l.ch] = "js"
                /\ Respond(q, data[q], "bad-request", {})
           \/ /\ l.route = "verify" /\ v # "ok"
              /\ IF Runtime[l.ch] = "resource-load" THEN Respond(q, data[q], "css", {})
                 ELSE IF v = "happy-eyeballs"
                 THEN Respond(q, data[q], "redirect",
                        {[route |-> "retry", ch |-> NoChallenge, key |-> NoKey,
                          back |-> NoChallenge]})
                 ELSE Respond(q, data[q], IF Runtime[l.ch] = "js" THEN "forbidden"
                                                                  ELSE "bad-request", {})
    /\ UNCHANGED earned

allowChallengeStateClear(route) == route = "clear"

\* clearChallengeState expires the cookie, for a same-origin script only.
ClearChallengeState(q) ==
    /\ Evaluated(q, {"clear", "foreign-clear"})
    /\ LET allowed == allowChallengeStateClear(sent[q].link.route)
       IN  reply' = [reply EXCEPT ![q] =
               [kind |-> IF allowed THEN "cleared" ELSE "forbidden",
                set |-> NoCookie, expire |-> allowed, links |-> {}]]
    /\ pc' = [pc EXCEPT ![q] = "replied"]
    /\ UNCHANGED <<now, sent, data, jar, links, earned, lost>>

Handler(q) == HandleValid(q) \/ HandleIssue(q) \/ MakeChallenge(q)
                \/ VerifyPass(q) \/ VerifyReject(q) \/ ClearChallengeState(q)

Next ==
    \/ Tick
    \/ \E q \in Req : \/ Navigate(q) \/ Follow(q) \/ PostClear(q)
                      \/ EvaluateChallenges(q) \/ Handler(q)
                      \/ Receive(q) \/ Lose(q)

Spec == Init /\ [][Next]_vars

---------------------------------------------------------------------------
(* Fairness.  Go's scheduler runs every handler to its end, connections    *)
(* deliver what is not lost, and a patient browser keeps going.            *)

PatientSpec ==
    /\ Spec
    /\ \A q \in Req : /\ WF_vars(Navigate(q) \/ Follow(q))
                      /\ WF_vars(EvaluateChallenges(q))
                      /\ WF_vars(Handler(q))
                      /\ WF_vars(Receive(q))

---------------------------------------------------------------------------
(* Properties *)

\* Every variable has its type.
TypeOK ==
    /\ now \in Nat /\ lost \in Nat
    /\ pc \in [Req -> {"idle", "sent", "evaluated", "replied"}]
    /\ sent \in [Req -> Request]
    /\ data \in [Req -> RequestData]
    /\ reply \in [Req -> Response]
    /\ jar \in [Networks -> Cookie \cup {NoCookie}]
    /\ links \in [Req -> SUBSET Link]
    /\ earned \subseteq [key : Key, at : Nat]

\* The keys a request of origin o at time t can pass challenge c with.
AcceptedKeys(c, t, o) ==
    {RequestKey(c, t, o)} \cup
    IF LegacyKeyHeaders[c] = NoHeaders THEN {}
    ELSE {getChallengeKeyForRequest(c, LegacyKeyHeaders[c], Expiration(t, Duration[c]), o)}

\* The proofs of c, accepted for request q, that are younger than the Duration.
Proofs(q, c) ==
    {e \in earned : /\ e.key \in AcceptedKeys(c, data[q].time, sent[q].origin)
                    /\ data[q].time < e.at + Duration[c]}

\* Under a rule that denies, the backend only sees a request whose client
\* passed one of the rule's challenges, from this network and with these
\* headers, less than the challenge's Duration before the request arrived:
\* however cookies, responses and the clock interleave, no proof is made up,
\* carried over to another client or used for longer than it is valid.
BackendNeedsFreshProof ==
    FailAction = "DENY" =>
      \A q \in Req : pc[q] = "replied" /\ reply[q].kind = "backend" =>
        \E i \in DOMAIN Rule : Proofs(q, Rule[i]) # {}

\* A proof in a token map was really earned.
StateBacked(st) ==
    \A c \in Challenges : st[c] # NoToken => \E e \in earned : e.key = st[c].key

CookieBacked(ck) == ck # NoCookie => StateBacked(ck.state)

\* Whatever carries a token on its way from the response that set it to the
\* request that uses it carries earned ones only, each was earned in the
\* window its key is for, and a verdict of OK rests on one that still counts.
\* With TypeOK this is the inductive invariant behind BackendNeedsFreshProof.
ProofsBacked ==
    /\ \A e \in earned : e.key.until = Expiration(e.at, Duration[e.key.name])
    /\ \A n \in Networks : CookieBacked(jar[n])
    /\ \A q \in Req : /\ CookieBacked(sent[q].cookie)
                      /\ StateBacked(data[q].state)
                      /\ CookieBacked(reply[q].set)
    /\ \A q \in Req : pc[q] = "evaluated" =>
          \A c \in Challenges : data[q].verify[c] = "OK" => Proofs(q, c) # {}

\* A verify or make link names its challenge, a verify link carries a key.
LinksOK(ls) ==
    \A l \in ls : /\ l.route \in {"make", "verify"} => l.ch \in Challenges
                  /\ l.route = "verify" => l.key \in Key

AllLinksOK == \A q \in Req : LinksOK(links[q]) /\ LinksOK(reply[q].links) /\ LinksOK({sent[q].link})

\* A response that replaces the state cookie carries over every proof its
\* request was admitted to with: earning one challenge never costs another.
EarningKeepsProofs ==
    \A q \in Req : pc[q] = "replied" /\ reply[q].set # NoCookie =>
      \A c \in Challenges : data[q].verify[c] = "OK" =>
        /\ reply[q].set.state[c] # NoToken
        /\ reply[q].set.state[c].key \in AcceptedKeys(c, data[q].time, sent[q].origin)

\* RequestHeaders prints the state of every passed challenge, and
\* VerifyState.String panics on None: a request handed to the backend never
\* carries a pass without a state.
ForwardedStatePrintable ==
    \A q \in Req : pc[q] = "replied" /\ reply[q].kind = "backend" =>
      \A c \in Challenges : data[q].verify[c] = "OK" => data[q].vstate[c] # "None"

\* A proof in the jar that would still admit a request now.
Usable(n, c) ==
    /\ jar[n] # NoCookie /\ jar[n].exp >= now
    /\ jar[n].state[c] # NoToken
    /\ \E o \in Origins : jar[n].state[c].key \in AcceptedKeys(c, now, o)

\* Request q passed a challenge itself, and its response carries that proof.
PassedItself(q) ==
    \E c \in Challenges :
        /\ reply[q].set # NoCookie /\ reply[q].set.state[c] # NoToken
        /\ [key |-> RequestKey(c, data[q].time, sent[q].origin), at |-> data[q].time]
              \in earned
        /\ \/ sent[q].link.route = "verify" /\ sent[q].link.ch = c
           \/ data[q].vstate[c] = "Pass" /\ data[q].verify[c] # "NotOK"

\* A usable proof leaves the jar only when the browser's own script cleared
\* the state, or when a request that passed a challenge itself answers later:
\* a check that was rejected in an older request still in flight never
\* overwrites the newer proof.
ProofNotOverwritten ==
    [][\A n \in Networks, c \in Challenges :
         (Usable(n, c) /\ jar' # jar /\ (jar'[n] = NoCookie \/ jar'[n].state[c] = NoToken)) =>
            \E q \in Req : /\ pc[q] = "replied" /\ pc'[q] = "idle"
                           /\ sent[q].link.route = "clear" \/ PassedItself(q)]_vars

\* A patient browser that keeps cookies reaches the backend.
ReachesBackend == <>(\E q \in Req : pc[q] = "replied" /\ reply[q].kind = "backend")

\* Whatever the browser does with cookies, it is not sent round in circles:
\* the backend's answer or a refusal comes in the end.
NoChallengeLoop ==
    <>(\E q \in Req : pc[q] = "replied" /\ reply[q].kind \in {"backend", "denied"})

\* A challenge with a condition is only shown to requests it holds for.
ConditionGatesChallenge ==
    \A q \in Req : pc[q] = "replied" /\ reply[q].kind = "challenge" =>
      \A l \in reply[q].links : l.ch \in Conditioned => l.ch \in sent[q].holds
===========================================================================
