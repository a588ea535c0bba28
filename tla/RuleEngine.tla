---------------------------- MODULE RuleEngine ----------------------------
(***************************************************************************)
(* The rules of a policy and the way one request through them.             *)
(*                                                                         *)
(* The first step loads a policy: NewRuleState refuses what it cannot      *)
(* build.  Then handleRequest goes through the rules in order.  A rule     *)
(* whose condition holds runs its handler; a handler that says next lets   *)
(* the rule's children be evaluated, and then the rules after it.  stack   *)
(* holds the loops that are running: the one over state.rules at the       *)
(* bottom, one over the Children of each rule that is being evaluated.     *)
(* A CHALLENGE or CHECK handler ends by running its pass or fail handler.  *)
(* Two things wait for another server before the response is written: a    *)
(* request that was handed to a backend (pc = "backend"), and a page that  *)
(* shows the backend's tags (pc = "page").                                 *)
(***************************************************************************)
EXTENDS Integers, Sequences

CONSTANTS
    Rules,          \* the rules of the policy, nested ones too
    Root,           \* stands for the State, whose rules are the outer ones
    Children,       \* Children[r]: the rules of r, in order
    Handlers,       \* the handlers a rule, a pass or a fail action may have
    Kind,           \* Kind[h]: its action
    Uses,           \* Uses[h]: the names of the challenges of a CHALLENGE or CHECK
    PassTo, FailTo, \* PassTo[h], FailTo[h]: the handlers of its pass and fail action
    HttpCode,       \* HttpCode[h]: the http-code of a CODE
    SetHost,        \* SetHost[h]: the backend-host option a CONTEXT sets, or NoHost
    SetTags,        \* SetTags[h]: whether it turns the tags of a page "on" or "off", or "leave"
    ProxyTo,        \* ProxyTo[h]: the host of a PROXY
    Names,          \* names a policy may use for a challenge
    Challenges,     \* the registered ones
    Runtime,        \* Runtime[c]: what kind of runtime the challenge has
    Verdicts,       \* what EvaluateChallenges may say of a challenge
    Hosts, NoHost,  \* host names
    WildcardOf,     \* WildcardOf[host]: "*." and the parent domain
    Backends,       \* the hosts and patterns that have a backend
    TransparentTo,  \* the backends whose settings say transparent
    AnyHost,        \* the pattern "*"
    NoBackend,
    NoRule, NoHandler

VARIABLES
    pc,         \* "load", "rejected", "start", "rules", "handle", "backend", "page" or "ended"
    handler,    \* handler[r]: the handler of rule r, in the policy loaded
    host,       \* the request's Host
    stack,      \* the loops over rules, the innermost last
    rule,       \* the rule that is being handled
    run,        \* the handler that runs
    at,         \* the challenge it is at, 0 before the first loop
    data,       \* the RequestData
    page,       \* the page that is being made, or "none"
    backend,    \* the backend the request was handed to, or NoBackend
    header,     \* what done() put into the response's header map, and whether
                \* an informational response of the backend has taken it out
    told,       \* what the backend is told in X-Away headers
    answers,    \* the final responses handlers began to write, in order
    hits,       \* the rules whose condition held, in order
    issued      \* issued[c]: how often challenge c was issued

vars == <<pc, handler, host, stack, rule, run, at, data, page, backend, header, told, answers,
          hits, issued>>

Refusing == {"DENY", "BLOCK", "CODE", "DROP"}
Asking == {"CHALLENGE", "CHECK"}
RuleActions == Refusing \cup Asking \cup {"NONE", "PASS", "PROXY", "CONTEXT"}

Patterns == Hosts \cup {WildcardOf[h] : h \in Hosts} \cup {AnyHost}

VerifyResult == {"Skip", "Fail", "None", "OK", "NotOK"}
VerifyState == {"None", "Pass", "Brief", "Full"}

ASSUME RuleEngineAssumption ==
    /\ Root \notin Rules /\ NoRule \notin Rules
    /\ Children \in [Rules \cup {Root} -> Seq(Rules)]
    /\ Kind \in [Handlers -> RuleActions \cup {"unknown"}]
    /\ Uses \in [Handlers -> Seq(Names)]
    /\ PassTo \in [Handlers -> Handlers] /\ FailTo \in [Handlers -> Handlers]
    /\ HttpCode \in [Handlers -> Nat]
    /\ SetHost \in [Handlers -> Hosts \cup {NoHost}] /\ NoHost \notin Hosts
    /\ SetTags \in [Handlers -> {"on", "off", "leave"}]
    /\ ProxyTo \in [Handlers -> Hosts]
    /\ Challenges \subseteq Names
    /\ Runtime \in [Challenges -> {"dnsbl", "http", "preload-link", "cookie", "page"}]
    /\ Verdicts \subseteq [result : VerifyResult, state : VerifyState \ {"Pass"}]
    /\ Backends \subseteq Patterns /\ NoBackend \notin Patterns /\ TransparentTo \subseteq Backends
    /\ NoHandler \notin Handlers

\* A rule is written in one place: policy.Rule holds its rules by value, so
\* NewRuleState builds a tree.
ASSUME TreeAssumption ==
    \A p, q \in Rules \cup {Root} : \A i \in DOMAIN Children[p], j \in DOMAIN Children[q] :
        Children[p][i] = Children[q][j] => p = q /\ i = j

---------------------------------------------------------------------------
(* Loading *)

\* What the registered constructor of one handler accepts.
Accepts(h) ==
    /\ Kind[h] # "unknown"
    /\ Kind[h] = "CODE" => HttpCode[h] # 0
    /\ Kind[h] \in Asking => /\ Uses[h] # <<>>
                             /\ \A i \in DOMAIN Uses[h] : Uses[h][i] \in Challenges

\* The handlers NewRuleState can build: a CHALLENGE or CHECK together with
\* its pass and fail handlers, which are built the same way.
Loadable ==
    {h \in Handlers : \E S \in SUBSET Handlers :
        /\ h \in S
        /\ \A g \in S : /\ Accepts(g)
                        /\ Kind[g] \in Asking => {PassTo[g], FailTo[g]} \subseteq S}

NoData == [verify |-> [c \in Challenges |-> "None"], state |-> [c \in Challenges |-> "None"],
           modified |-> FALSE, opt |-> NoHost, tags |-> FALSE]

ToldNothing == [rule |-> NoRule, action |-> "none", hash |-> NoRule]

Init ==
    /\ pc = "load"
    /\ handler \in [Rules -> Handlers]
    /\ host \in Hosts
    /\ stack = <<>> /\ rule = NoRule /\ run = NoHandler /\ at = 0
    /\ data = NoData
    /\ page = "none" /\ backend = NoBackend
    /\ header = [vary |-> FALSE, set |-> FALSE, informed |-> FALSE]
    /\ told = ToldNothing
    /\ answers = <<>> /\ hits = <<>>
    /\ issued = [c \in Challenges |-> 0]

\* Mutation: the error of a handler's constructor is not looked at.
LoadAnyRule ==
    /\ pc = "load"
    /\ pc' = "start"
    /\ UNCHANGED <<handler, host, stack, rule, run, at, data, page, backend, header, told, answers,
                   hits, issued>>

\* The policy is loaded, or refused: because of a handler, or because a
\* condition or a setting does not compile.
NewRuleState ==
    /\ pc = "load"
    /\ \/ pc' = "start" /\ \A r \in Rules : handler[r] \in Loadable
       \/ pc' = "rejected"
    /\ UNCHANGED <<handler, host, stack, rule, run, at, data, page, backend, header, told, answers,
                   hits, issued>>

---------------------------------------------------------------------------
(* The response *)

HasAnyValidChallenge(d) == \E c \in Challenges : d.verify[c] = "OK"

\* RequestData.ResponseHeaders: Vary, and the state cookie when it changed.
ResponseHeaders(h, d) == [vary |-> TRUE, set |-> h.set \/ d.modified, informed |-> h.informed]

\* Mutation: the Vary of an immutable response is taken back, and the
\* response is not made private.
ApplyVaryOnly(d, kind, h, media) ==
    [kind |-> kind, private |-> FALSE, set |-> h.set, informed |-> h.informed,
     vary |-> h.vary /\ ~(media /\ HasAnyValidChallenge(d))]

\* responsePolicyWriter.WriteHeader and apply, for a final status and the
\* header map h.  media: the response is immutable media.
Committed(d, kind, h, media) ==
    LET private == media /\ HasAnyValidChallenge(d)
    IN  [kind |-> kind, private |-> private, set |-> h.set, informed |-> h.informed,
         vary |-> h.vary /\ ~private]

\* A response that comes after ResponseHeaders was called.
Response(d, kind) == Committed(d, kind, ResponseHeaders(header, d), FALSE)

\* The request ends with these responses.  responsePolicyWriter sends the
\* status line of the first only; the body of another would follow its body.
Ends(lines) ==
    /\ answers' = answers \o lines
    /\ pc' = "ended"
    /\ UNCHANGED <<handler, host, stack, rule, run, at, page, backend, header, told, hits>>

\* ChallengePage or ErrorPage begins a page.
Page(kind) ==
    /\ pc' = "page" /\ page' = kind
    /\ UNCHANGED <<handler, host, stack, rule, run, at, backend, header, told, answers, hits>>

\* The page is written, after the backend's tags have been fetched if an
\* option asks for them.
WritePage == pc = "page" /\ Ends(<<Response(data, page)>>) /\ UNCHANGED <<data, issued>>

\* ErrorPage, and the panic that follows it in handleRequest.
Fails == Page("error") /\ UNCHANGED <<data, issued>>

SelectHTTPHandler(h) ==
    IF h \in Backends THEN h
    ELSE IF WildcardOf[h] \in Backends THEN WildcardOf[h]
    ELSE IF AnyHost \in Backends THEN AnyHost
    ELSE NoBackend

GetBackend(h) == SelectHTTPHandler(h)

\* Mutation: the backend-host option selects the backend.
getBackendOfOption ==
    IF data.opt # NoHost /\ data.opt # host THEN GetBackend(data.opt) ELSE GetBackend(host)

\* The option is looked at and the backend of the request's host is taken
\* either way.
getBackend ==
    IF data.opt # NoHost /\ data.opt # host THEN GetBackend(host) ELSE GetBackend(host)

\* http.Error in getBackend.
Unavailable == Response(data, "unavailable")

\* The rule of state.rules that is being evaluated.
OuterRule == Children[Root][stack[1].next - 1]

\* Mutation: the children are handed the done function of their parent.
ToldOfOuterRule(b) ==
    [rule |-> OuterRule, action |-> Kind[handler[OuterRule]], hash |-> OuterRule]

\* The X-Away headers of done(), as backend b sees them.  Evaluate sets the
\* name, action and hash of the rule that decided; then cleanupRequest keeps
\* name and action of the outer rule in ExtraHeaders.  They replace the first
\* when the backend is told ExtraHeaders, and a transparent one is not.
ToldOf(b) ==
    LET named == IF b \in TransparentTo THEN rule ELSE OuterRule
    IN  [rule |-> named, action |-> Kind[handler[named]], hash |-> rule]

\* done(), and ServeHTTP of backend b.
Hand(b, tells) ==
    /\ pc' = "backend" /\ backend' = b /\ told' = tells
    /\ header' = ResponseHeaders(header, data)
    /\ UNCHANGED <<handler, host, stack, rule, run, at, data, page, hits, issued>>

---------------------------------------------------------------------------
(* handleRequest and Evaluate *)

\* The challenges have been evaluated.  A host without backend ends here.
HandleRequest ==
    /\ pc = "start"
    /\ \E v \in [Challenges -> Verdicts] :
         data' = [verify |-> [c \in Challenges |-> v[c].result],
                  state |-> [c \in Challenges |-> v[c].state],
                  modified |-> FALSE, opt |-> NoHost, tags |-> FALSE]
    /\ IF GetBackend(host) = NoBackend
       THEN /\ answers' = <<Committed(data', "unavailable", header, FALSE)>>
            /\ pc' = "ended" /\ stack' = stack
       ELSE /\ pc' = "rules" /\ stack' = <<[rule |-> Root, next |-> 1]>>
            /\ answers' = answers
    /\ UNCHANGED <<handler, host, rule, run, at, page, backend, header, told, hits, issued>>

Loop == stack[Len(stack)]
LoopEnded == Loop.next > Len(Children[Loop.rule])
NextRule == Children[Loop.rule][Loop.next]

\* The innermost loop moves on by one rule.
Advance == [stack EXCEPT ![Len(stack)] = [rule |-> Loop.rule, next |-> Loop.next + 1]]

\* Mutation: the children are evaluated although the condition is false.
EvaluateMissChildren ==
    /\ pc = "rules" /\ ~LoopEnded
    /\ stack' = Append(Advance, [rule |-> NextRule, next |-> 1])
    /\ UNCHANGED <<pc, handler, host, rule, run, at, data, page, backend, header, told, answers, hits,
                   issued>>

\* The condition is false, or has no value.
EvaluateMiss ==
    /\ pc = "rules" /\ ~LoopEnded
    /\ stack' = Advance
    /\ UNCHANGED <<pc, handler, host, rule, run, at, data, page, backend, header, told, answers, hits,
                   issued>>

\* The condition holds, or there is none: the handler runs.
EvaluateHit ==
    /\ pc = "rules" /\ ~LoopEnded
    /\ pc' = "handle"
    /\ stack' = Advance
    /\ rule' = NextRule /\ run' = handler[NextRule] /\ at' = 0
    /\ hits' = Append(hits, NextRule)
    /\ UNCHANGED <<handler, host, data, page, backend, header, told, answers, issued>>

\* The condition fails to evaluate, or is not a Boolean.
EvaluateError == pc = "rules" /\ ~LoopEnded /\ Fails

\* Evaluate of a rule returns next after its last child.
EvaluateReturn ==
    /\ pc = "rules" /\ LoopEnded /\ Len(stack) > 1
    /\ stack' = SubSeq(stack, 1, Len(stack) - 1)
    /\ UNCHANGED <<pc, handler, host, rule, run, at, data, page, backend, header, told, answers, hits,
                   issued>>

\* A request handed to the backend of its host, or answered without one.
HandOver(tells) ==
    \/ /\ getBackend = NoBackend
       /\ Ends(<<Unavailable>>) /\ UNCHANGED <<data, issued>>
    \/ /\ getBackend # NoBackend
       /\ Hand(getBackend, tells) /\ answers' = answers

\* No rule decided: the request passes by default.  Its name and action are
\* in ExtraHeaders alone.
DefaultPass ==
    /\ pc = "rules" /\ LoopEnded /\ Len(stack) = 1
    /\ HandOver(IF getBackend \in TransparentTo THEN ToldNothing
                ELSE [rule |-> NoRule, action |-> "PASS", hash |-> NoRule])

---------------------------------------------------------------------------
(* The handlers *)

Runs(kinds) == pc = "handle" /\ Kind[run] \in kinds

\* A handler returns next: the children of the rule come next.
Continue ==
    /\ pc' = "rules"
    /\ stack' = Append(stack, [rule |-> rule, next |-> 1])
    /\ UNCHANGED <<handler, host, rule, run, at, page, backend, header, told, answers, hits>>

None == Runs({"NONE"}) /\ Continue /\ UNCHANGED <<data, issued>>

\* SetOpt, for the options of CONTEXT h.
WithOpts(d, h) ==
    [verify |-> d.verify, state |-> d.state, modified |-> d.modified,
     opt |-> IF SetHost[h] = NoHost THEN d.opt ELSE SetHost[h],
     tags |-> SetTags[h] = "on" \/ (SetTags[h] = "leave" /\ d.tags)]

Context == Runs({"CONTEXT"}) /\ data' = WithOpts(data, run) /\ Continue /\ UNCHANGED issued

Pass == Runs({"PASS"}) /\ HandOver(ToldOf(getBackend))

\* PROXY ignores the backend done returns, but done may have answered.
Proxy ==
    /\ Runs({"PROXY"})
    /\ GetBackend(ProxyTo[run]) # NoBackend
    /\ Hand(GetBackend(ProxyTo[run]), ToldOf(GetBackend(ProxyTo[run])))
    /\ answers' = IF getBackend = NoBackend THEN Append(answers, Unavailable) ELSE answers

ProxyError == Runs({"PROXY"}) /\ GetBackend(ProxyTo[run]) = NoBackend /\ Fails

Deny == Runs({"DENY"}) /\ Page("denied") /\ UNCHANGED <<data, issued>>

Block == Runs({"BLOCK"}) /\ Ends(<<Response(data, "blocked")>>) /\ UNCHANGED <<data, issued>>

\* Mutation: the response headers are not set.
CodeWithoutHeaders ==
    /\ Runs({"CODE"})
    /\ Ends(<<Committed(data, "code", header, FALSE)>>) /\ UNCHANGED <<data, issued>>

Code == Runs({"CODE"}) /\ Ends(<<Response(data, "code")>>) /\ UNCHANGED <<data, issued>>

\* The methods of the ResponseWriter ServeHTTP hands to the mux.
WriterMethods == {"Header", "Write", "WriteHeader", "FlushError", "Unwrap"}

\* DROP closes the connection of a Hijacker, and else answers 403.
Drop ==
    /\ Runs({"DROP"})
    /\ Ends(IF "Hijack" \in WriterMethods THEN <<>>
            ELSE <<Committed(data, "dropped", header, FALSE)>>)
    /\ UNCHANGED <<data, issued>>

---------------------------------------------------------------------------
(* The backend *)

\* An informational response of the backend: ReverseProxy copies it into the
\* header map, responsePolicyWriter lets it through at once, and ReverseProxy
\* clears the map.
BackendInforms ==
    /\ pc = "backend"
    /\ header' = [vary |-> FALSE, set |-> FALSE, informed |-> TRUE]
    /\ UNCHANGED <<pc, handler, host, stack, rule, run, at, data, page, backend, told, answers, hits,
                   issued>>

BackendAnswers ==
    /\ pc = "backend"
    /\ \E media \in BOOLEAN : Ends(<<Committed(data, "backend", header, media)>>)
    /\ UNCHANGED <<data, issued>>

\* It cannot be reached: its ErrorHandler, which is ErrorPage.
BackendFails == pc = "backend" /\ Page("bad-gateway") /\ UNCHANGED <<data, issued>>

---------------------------------------------------------------------------
(* CHALLENGE and CHECK *)

Challenge(i) == Uses[run][i]
SomeValid == \E i \in DOMAIN Uses[run] : data.verify[Challenge(i)] = "OK"

Jump(h) ==
    /\ run' = h /\ at' = 0
    /\ UNCHANGED <<pc, handler, host, stack, rule, page, backend, header, told, answers, hits>>

\* A CHECK goes on with the rules after it, a CHALLENGE runs its pass action.
Passed == IF Kind[run] = "CHECK" THEN Continue ELSE Jump(PassTo[run])

\* First loop: a challenge of the handler is already passed.
ChallengeValid == Runs(Asking) /\ at = 0 /\ SomeValid /\ Passed /\ UNCHANGED <<data, issued>>

ChallengeNoneValid ==
    /\ Runs(Asking) /\ at = 0 /\ ~SomeValid
    /\ at' = 1
    /\ UNCHANGED <<pc, handler, host, stack, rule, run, data, page, backend, header, told, answers, hits,
                   issued>>

\* Second loop, at challenge c.
AtChallenge == Runs(Asking) /\ at \in DOMAIN Uses[run]

Skippable(c) == data.verify[c] \in {"OK", "Skip"} \/ data.state[c] = "Pass"

ChallengeSkip ==
    /\ AtChallenge /\ Skippable(Challenge(at))
    /\ at' = at + 1
    /\ UNCHANGED <<pc, handler, host, stack, rule, run, data, page, backend, header, told, answers, hits,
                   issued>>

Transparent(c) == Runtime[c] \in {"dnsbl", "http", "preload-link"}

\* What IssueChallenge returns.
IssueResults(c) ==
    CASE Runtime[c] = "dnsbl"        -> {"OK", "NotOK"}
      [] Runtime[c] = "http"         -> {"OK", "NotOK", "Fail", "Skip"}
      [] Runtime[c] = "preload-link" -> {"OK", "Fail", "Skip"}
      [] OTHER                       -> {"None", "Fail"}

\* dnsbl and http store a token when they pass, a cookie challenge before its
\* redirect, the others never do while they are issued.
StoresToken(c, res) == (Runtime[c] \in {"dnsbl", "http"} /\ res = "OK") \/ Runtime[c] = "cookie"

\* Mutation: only the result is recorded.
RecordResult(d, c, res, token) ==
    [verify |-> [d.verify EXCEPT ![c] = res], state |-> d.state,
     modified |-> d.modified \/ token, opt |-> d.opt, tags |-> d.tags]

Record(d, c, res, token) ==
    [verify |-> [d.verify EXCEPT ![c] = res], state |-> [d.state EXCEPT ![c] = "Pass"],
     modified |-> d.modified \/ token, opt |-> d.opt, tags |-> d.tags]

\* Mutation: a CHECK also goes on after a check that said no.
StopsPassedAny(c, res) == res = "OK" \/ (res = "NotOK" /\ Kind[run] = "CHECK")

StopsPassed(c, res) == res = "OK"
StopsFailed(c, res) == res = "Fail" /\ ~Transparent(c)
StopsIssued(c, res) == res = "None" /\ ~Transparent(c)

\* One round of the second loop for a challenge that is not skipped.
ChallengeIssue ==
    /\ AtChallenge /\ ~Skippable(Challenge(at))
    /\ LET c == Challenge(at)
       IN  \E res \in IssueResults(c) :
             LET d == Record(data, c, res, StoresToken(c, res))
             IN  /\ data' = d
                 /\ issued' = [issued EXCEPT ![c] = @ + 1]
                 /\ CASE StopsPassed(c, res) -> Passed
                      [] StopsFailed(c, res) -> Jump(FailTo[run])
                      [] StopsIssued(c, res) ->
                            IF Runtime[c] = "cookie" THEN Ends(<<Response(d, "challenge")>>)
                                                     ELSE Page("challenge")
                      [] OTHER ->
                            /\ at' = at + 1
                            /\ UNCHANGED <<pc, handler, host, stack, rule, run, page, backend,
                                           header, told, answers, hits>>

\* Mutation: the loop starts over until a challenge passes.
ChallengeRetry ==
    /\ Runs(Asking) /\ at > Len(Uses[run])
    /\ at' = 1
    /\ UNCHANGED <<pc, handler, host, stack, rule, run, data, page, backend, header, told, answers, hits,
                   issued>>

\* Nothing matched: the default action.
ChallengeDefault ==
    /\ Runs(Asking) /\ at > Len(Uses[run])
    /\ Jump(FailTo[run])
    /\ UNCHANGED <<data, issued>>

Evaluate == EvaluateMiss \/ EvaluateHit \/ EvaluateError \/ EvaluateReturn \/ DefaultPass
Deciding == Pass \/ Proxy \/ ProxyError \/ Deny \/ Block \/ Code \/ Drop
Finishing == WritePage \/ BackendInforms \/ BackendAnswers \/ BackendFails
ChallengeHandle == ChallengeValid \/ ChallengeNoneValid \/ ChallengeSkip \/ ChallengeIssue
                      \/ ChallengeDefault

Next == NewRuleState \/ HandleRequest \/ Evaluate \/ None \/ Context \/ Deciding \/ Finishing
           \/ ChallengeHandle

Spec == Init /\ [][Next]_vars

\* Where another server may keep go-away waiting, without a timeout unless
\* the backend's settings name one: networks preloaded with the policy, the
\* server of an http check, the backend, and its tags for a page.
WaitsForServer ==
    \/ pc = "load"
    \/ AtChallenge /\ ~Skippable(Challenge(at)) /\ Runtime[Challenge(at)] = "http"
    \/ pc = "backend"
    \/ pc = "page" /\ data.tags

\* net/http runs the handler of a request to its end; what other servers do
\* is not assumed.
FairSpec == Spec /\ WF_vars(~WaitsForServer /\ Next)

---------------------------------------------------------------------------
(* Properties *)

Pages == {"error", "denied", "challenge", "bad-gateway"}
AnswerKinds == Pages \cup {"unavailable", "backend", "blocked", "code", "dropped"}
Answer == [kind : AnswerKinds, vary : BOOLEAN, private : BOOLEAN, set : BOOLEAN,
           informed : BOOLEAN]

Frame == [rule : Rules \cup {Root}, next : Nat \ {0}]

\* The outermost loop is over state.rules, within its bounds, and is past a
\* rule whenever one is handled or has a loop of its own.
StackOK ==
    stack # <<>> => /\ stack[1].rule = Root
                    /\ stack[1].next <= Len(Children[Root]) + 1
                    /\ pc = "handle" \/ Len(stack) > 1 => stack[1].next >= 2

\* Every variable has its type; a handler that runs was accepted when the
\* policy was loaded, and the rule of state.rules it belongs to is known.
TypeOK ==
    /\ pc \in {"load", "rejected", "start", "rules", "handle", "backend", "page", "ended"}
    /\ handler \in [Rules -> Handlers] /\ host \in Hosts
    /\ stack \in Seq(Frame) /\ StackOK
    /\ rule \in Rules \cup {NoRule} /\ run \in Handlers \cup {NoHandler} /\ at \in Nat
    /\ data \in [verify : [Challenges -> VerifyResult], state : [Challenges -> VerifyState],
                 modified : BOOLEAN, opt : Hosts \cup {NoHost}, tags : BOOLEAN]
    /\ page \in Pages \cup {"none"} /\ (pc = "page" => page # "none")
    /\ backend \in Backends \cup {NoBackend}
    /\ header \in [vary : BOOLEAN, set : BOOLEAN, informed : BOOLEAN]
    /\ told \in [rule : Rules \cup {NoRule}, action : RuleActions \cup {"none", "unknown"},
                 hash : Rules \cup {NoRule}]
    /\ answers \in Seq(Answer)
    /\ hits \in Seq(Rules)
    /\ issued \in [Challenges -> Nat]
    /\ pc \notin {"load", "rejected"} => \A r \in Rules : handler[r] \in Loadable
    /\ pc = "handle" => rule \in Rules /\ run \in Loadable
    /\ pc \in {"rules", "handle"} => stack # <<>>

\* Whatever rules, nested rules, pass and fail actions a request goes
\* through, one response is written, by the step that ends it: done does not
\* answer for a PROXY that then serves, and no action answers and goes on.
AnsweredOnce ==
    IF pc = "ended" THEN Len(answers) = 1 ELSE answers = <<>>

\* Rule r, which was hit, gives no reason to keep the request out: it does not
\* refuse, and if it asks for a challenge or else refuses, one is passed.
Admits(r) ==
    LET h == handler[r]
    IN  /\ Kind[h] \notin Refusing
        /\ (Kind[h] \in Asking /\ Kind[FailTo[h]] \in Refusing) =>
              \E j \in DOMAIN Uses[h] : data.verify[Uses[h][j]] = "OK"

\* A request that was handed to a backend met no rule on its way that should
\* have kept it out: none of the rules it hit refuses, and for each CHALLENGE
\* or CHECK whose fail action refuses one of its challenges is passed, still
\* so when the backend is told.
BackendNotRefused ==
    backend # NoBackend => \A i \in DOMAIN hits : Admits(hits[i])

\* Why it holds: the rules before the one that is handled admit the request,
\* and that one does too, or is at its first handler, or is about to refuse.
HitsAdmit ==
    /\ pc \in {"load", "rejected", "start"} => hits = <<>>
    /\ pc = "rules" => \A i \in DOMAIN hits : Admits(hits[i])
    /\ pc = "handle" =>
          /\ hits # <<>> /\ hits[Len(hits)] = rule
          /\ \A i \in 1 .. (Len(hits) - 1) : Admits(hits[i])
          /\ Admits(rule) \/ run = handler[rule] \/ Kind[run] \in Refusing

\* A host without backend does not get as far as the rules.
BackendKnown == pc \in {"rules", "handle"} => GetBackend(host) # NoBackend

\* A request is given one challenge at most once, in however many rules it
\* is named and whatever came of it.
IssuedOnce == \A c \in Challenges : issued[c] <= 1

\* Why it holds: what was issued is in VerifyStatePass.
IssuedMarked ==
    \A c \in Challenges :
        \/ issued[c] = 0
        \/ issued[c] = 1 /\ data.state[c] = "Pass" /\ pc \notin {"load", "rejected", "start"}

\* A proof earned on the way goes out with the final response, whatever ends
\* the request, with two exceptions: DROP does not set the cookie, and a
\* backend that sent an informational response first has taken it along.
EarnedIsSent ==
    \A i \in DOMAIN answers :
        data.modified => \/ answers[i].set
                         \/ answers[i].kind = "dropped"
                         \/ answers[i].kind = "backend" /\ answers[i].informed

\* A response that carries the state cookie is never left to a shared cache
\* as if it were everyone's: it varies with the cookie or is private, after
\* informational responses and error pages too.
CookieNotShared ==
    \A i \in DOMAIN answers : answers[i].set => answers[i].vary \/ answers[i].private

\* Why they hold: what done() put into the header map stays there or goes
\* together.
HeaderKept ==
    /\ header.set => header.vary
    /\ pc = "backend" => header.informed \/ (data.modified => header.set)

\* A request is handed over when no rule is evaluated any more.
HandedLast == backend # NoBackend => pc \in {"backend", "page", "ended"}

\* The rule in whose list r is written, and its place there.
Parent(r) == CHOOSE p \in Rules \cup {Root} : \E i \in DOMAIN Children[p] : Children[p][i] = r
Place(r) == CHOOSE i \in DOMAIN Children[Parent(r)] : Children[Parent(r)][i] = r

\* The rules are hit in the order the policy gives them: a nested rule after
\* the rule it belongs to, no rule after one that follows it in the same list,
\* and none twice.
RulesInOrder ==
    \A j \in DOMAIN hits :
        /\ Parent(hits[j]) = Root \/ \E i \in 1 .. (j - 1) : hits[i] = Parent(hits[j])
        /\ \A i \in 1 .. (j - 1) :
              Parent(hits[i]) = Parent(hits[j]) => Place(hits[i]) < Place(hits[j])

\* Rule r is t or one of the rules nested in it.
Within(r, t) ==
    \E S \in SUBSET Rules : /\ r \in S /\ t \in S
                            /\ \A x \in S \ {t} : Parent(x) \in S

\* The backend a rule handed the request to is told the hash of the rule that
\* decided, which is the last one that was hit.  With it comes the name and
\* action of the outer rule it is nested in, but a transparent backend is
\* told those of the rule that decided.
ToldWhoDecided ==
    backend # NoBackend /\ told.hash # NoRule =>
      /\ told.hash = hits[Len(hits)]
      /\ told.action = Kind[handler[told.rule]]
      /\ IF backend \in TransparentTo THEN told.rule = told.hash
         ELSE Parent(told.rule) = Root /\ Within(told.hash, told.rule)

\* Every request ends, or comes to wait for another server for good: go-away
\* does not go round its rules, challenges, pass and fail actions for ever.
RequestEnds == <>[](pc \in {"rejected", "ended"} \/ WaitsForServer)
===========================================================================
