------------------------- MODULE RuleEngineProofs -------------------------
(***************************************************************************)
(* Proofs about RuleEngine, for any policy: any tree of rules, any         *)
(* handlers, challenges, hosts and backends.                               *)
(***************************************************************************)
EXTENDS RuleEngine, TLAPS

\* The constructors accept what can be loaded, and its pass and fail handlers
\* can be loaded too.
LEMMA LoadableClosed ==
    ASSUME NEW h \in Loadable
    PROVE  /\ h \in Handlers /\ Accepts(h)
           /\ Kind[h] \in Asking => PassTo[h] \in Loadable /\ FailTo[h] \in Loadable
<1>1. PICK S \in SUBSET Handlers :
         /\ h \in S
         /\ \A g \in S : /\ Accepts(g)
                         /\ Kind[g] \in Asking => {PassTo[g], FailTo[g]} \subseteq S
  BY DEF Loadable
<1>2. \A g \in S : g \in Loadable
  BY <1>1 DEF Loadable
<1>3. QED
  BY <1>1, <1>2

\* A challenge of a handler that can be loaded is registered.
LEMMA UsesRegistered ==
    ASSUME NEW h \in Loadable, Kind[h] \in Asking, NEW i \in DOMAIN Uses[h]
    PROVE  Uses[h][i] \in Challenges
BY LoadableClosed DEF Accepts

LEMMA GetBackendType == ASSUME NEW h \in Hosts PROVE GetBackend(h) \in Patterns \cup {NoBackend}
BY RuleEngineAssumption DEF GetBackend, SelectHTTPHandler, Patterns

Data == [verify : [Challenges -> VerifyResult], state : [Challenges -> VerifyState],
         modified : BOOLEAN, opt : Hosts \cup {NoHost}, tags : BOOLEAN]
HeaderType == [vary : BOOLEAN, set : BOOLEAN, informed : BOOLEAN]
ToldType == [rule : Rules \cup {NoRule}, action : RuleActions \cup {"none", "unknown"},
             hash : Rules \cup {NoRule}]

\* What is committed is an answer with the cookie of the header map, and is
\* private when the Vary of the map is taken back.
LEMMA CommittedType ==
    ASSUME NEW d \in Data, NEW kind \in AnswerKinds, NEW h \in HeaderType, NEW media \in BOOLEAN
    PROVE  LET a == Committed(d, kind, h, media)
           IN  /\ a \in Answer /\ a.kind = kind /\ a.set = h.set /\ a.informed = h.informed
               /\ h.vary => a.vary \/ a.private
<1>1. HasAnyValidChallenge(d) \in BOOLEAN
  BY DEF HasAnyValidChallenge
<1>2. h.vary \in BOOLEAN /\ h.set \in BOOLEAN /\ h.informed \in BOOLEAN
  BY DEF HeaderType
<1>3. QED
  BY <1>1, <1>2, Zenon DEF Committed, Answer

\* ResponseHeaders puts Vary and the cookie there.
LEMMA HeadersType ==
    ASSUME NEW d \in Data, NEW h \in HeaderType
    PROVE  LET k == ResponseHeaders(h, d)
           IN  k \in HeaderType /\ k.vary /\ (d.modified => k.set) /\ k.informed = h.informed
<1>1. d.modified \in BOOLEAN /\ h.set \in BOOLEAN /\ h.informed \in BOOLEAN
  BY DEF Data, HeaderType
<1>2. QED
  BY <1>1, Zenon DEF ResponseHeaders, HeaderType

\* The loops: what the innermost one is at, and that moving on keeps them well
\* formed.
LEMMA LoopFacts ==
    ASSUME TypeOK, pc = "rules"
    PROVE  /\ Len(stack) \in Nat \ {0} /\ Loop \in Frame
           /\ ~LoopEnded => /\ NextRule \in Rules
                            /\ Advance \in Seq(Frame) /\ Len(Advance) = Len(stack)
                            /\ Advance[1].rule = Root
                            /\ Advance[1].next \in 2 .. (Len(Children[Root]) + 1)
<1>1. stack \in Seq(Frame) /\ stack # <<>> /\ Len(stack) \in Nat \ {0}
  BY DEF TypeOK
<1>1a. \A i \in 1 .. Len(stack) : stack[i] \in Frame
  BY <1>1
<1>2. Loop \in Frame /\ Loop.rule \in Rules \cup {Root} /\ Loop.next \in Nat \ {0}
  <2>1. Loop \in Frame
    BY <1>1, <1>1a DEF Loop
  <2>2. QED
    BY <2>1 DEF Frame
<1>3. Children[Loop.rule] \in Seq(Rules) /\ Children[Root] \in Seq(Rules)
  BY <1>2, RuleEngineAssumption
<1>4. ASSUME ~LoopEnded
      PROVE  /\ NextRule \in Rules
             /\ Advance \in Seq(Frame) /\ Len(Advance) = Len(stack)
             /\ Advance[1].rule = Root
             /\ Advance[1].next \in 2 .. (Len(Children[Root]) + 1)
  <2>1. Loop.next \in 1 .. Len(Children[Loop.rule])
    BY <1>2, <1>3, <1>4 DEF LoopEnded
  <2>2. NextRule \in Rules
    BY <1>3, <2>1 DEF NextRule
  <2> DEFINE f == [rule |-> Loop.rule, next |-> Loop.next + 1]
  <2>3. f \in Frame
    BY <1>2 DEF Frame
  <2>4. Advance \in Seq(Frame) /\ Len(Advance) = Len(stack)
    BY <1>1, <2>3 DEF Advance
  <2>5. CASE Len(stack) = 1
    <3>1. Advance[1] = f /\ Loop = stack[1] /\ stack[1].rule = Root
      BY <1>1, <2>5 DEF Advance, Loop, TypeOK, StackOK
    <3>2. QED
      BY <1>2, <1>3, <2>1, <2>2, <2>4, <3>1
  <2>6. CASE Len(stack) > 1
    <3>0. DOMAIN stack = 1 .. Len(stack) /\ 1 \in DOMAIN stack /\ Len(stack) # 1
      BY <1>1, <2>6
    <3>1. Advance[1] = stack[1]
      BY <3>0 DEF Advance
    <3>2. stack[1] \in Frame /\ stack[1].next \in Nat
      BY <1>1, <1>1a DEF Frame
    <3>3. stack[1].rule = Root /\ stack[1].next >= 2
            /\ stack[1].next <= Len(Children[Root]) + 1
      BY <1>1, <2>6 DEF TypeOK, StackOK
    <3>4. QED
      BY <1>3, <2>2, <2>4, <3>1, <3>2, <3>3
  <2>7. Len(stack) = 1 \/ Len(stack) > 1
    <3>1. \A n \in Nat \ {0} : n = 1 \/ n > 1
      OBVIOUS
    <3>2. QED
      BY <1>1, <3>1, Zenon
  <2>8. QED
    BY <2>5, <2>6, <2>7, Zenon
<1>5. QED
  BY <1>1, <1>2, <1>4

\* The outer rule that is handled is one of state.rules.
LEMMA OuterRuleType == ASSUME TypeOK, pc = "handle" PROVE OuterRule \in Rules
<1>1. stack \in Seq(Frame) /\ stack # <<>> /\ stack[1] \in Frame
  BY DEF TypeOK
<1>2. stack[1].next \in Nat /\ stack[1].next >= 2 /\ stack[1].next <= Len(Children[Root]) + 1
  BY <1>1 DEF TypeOK, StackOK, Frame
<1>3. Children[Root] \in Seq(Rules)
  BY RuleEngineAssumption
<1>4. QED
  BY <1>2, <1>3 DEF OuterRule

---------------------------------------------------------------------------
(* The inductive invariant *)

\* What is said of the answer and of the backend the request is handed to.
Outcome == /\ AnsweredOnce /\ BackendNotRefused /\ HandedLast /\ HeaderKept
           /\ EarnedIsSent /\ CookieNotShared

Inv == TypeOK /\ BackendKnown /\ IssuedMarked /\ HitsAdmit /\ Outcome

\* What a step may do to the RequestData and the count of issued challenges
\* once the rules are reached: a passed challenge stays passed, and what is
\* counted is marked.
DataStep ==
    /\ data' \in Data /\ issued' \in [Challenges -> Nat]
    /\ \A c \in Challenges : data.verify[c] = "OK" => data'.verify[c] = "OK"
    /\ \A c \in Challenges : issued'[c] = 0 \/ (issued'[c] = 1 /\ data'.state[c] = "Pass")

LEMMA SameData ==
    ASSUME Inv, UNCHANGED <<data, issued>>
    PROVE  DataStep
<1>1. data \in Data /\ issued \in [Challenges -> Nat]
  BY DEF Inv, TypeOK, Data
<1>2. QED
  BY <1>1 DEF Inv, IssuedMarked, DataStep

\* A rule that admits the request goes on doing so.
LEMMA AdmitsStays ==
    ASSUME TypeOK, pc \notin {"load", "rejected"}, handler' = handler, DataStep,
           NEW r \in Rules, Admits(r)
    PROVE  Admits(r)'
<1>1. handler[r] \in Loadable
  BY DEF TypeOK
<1>2. ASSUME Kind[handler[r]] \in Asking, NEW j \in DOMAIN Uses[handler[r]],
             data.verify[Uses[handler[r]][j]] = "OK"
      PROVE  data'.verify[Uses[handler[r]][j]] = "OK"
  <2>1. Uses[handler[r]][j] \in Challenges
    BY <1>1, <1>2, UsesRegistered
  <2>2. QED
    BY <1>2, <2>1 DEF DataStep
<1>3. QED
  BY <1>2, Zenon DEF Admits

\* So do the rules that were hit by a request that is handed over.
LEMMA HandedStays ==
    ASSUME Inv, pc \notin {"load", "rejected"}, UNCHANGED <<handler, hits, backend>>, DataStep
    PROVE  BackendNotRefused'
<1> SUFFICES ASSUME backend # NoBackend, NEW i \in DOMAIN hits PROVE Admits(hits[i])'
  BY DEF BackendNotRefused, Admits
<1>1. hits \in Seq(Rules) /\ hits[i] \in Rules /\ TypeOK
  BY DEF Inv, TypeOK
<1>2. Admits(hits[i])
  BY DEF Inv, Outcome, BackendNotRefused
<1>3. QED
  BY <1>1, <1>2, AdmitsStays

\* A step that ends the request with one answer.
LEMMA EndsInv ==
    ASSUME Inv, pc \in {"rules", "handle", "backend", "page"}, DataStep, NEW a \in Answer,
           Ends(<<a>>),
           data'.modified => a.set \/ a.kind = "dropped" \/ (a.kind = "backend" /\ a.informed),
           a.set => a.vary \/ a.private
    PROVE  Inv'
<1> USE DEF Inv, Outcome
<1>1. /\ pc' = "ended" /\ answers' = answers \o <<a>>
      /\ UNCHANGED <<handler, host, stack, rule, run, at, page, backend, header, told, hits>>
  BY DEF Ends
<1>2. answers = <<>>
  BY DEF AnsweredOnce
<1>3. answers' = <<a>> /\ Len(answers') = 1 /\ DOMAIN answers' = {1} /\ answers'[1] = a
  BY <1>1, <1>2
<1>4. TypeOK'
  <2>1. StackOK'
    BY <1>1 DEF TypeOK, StackOK
  <2>2. answers' \in Seq(Answer)
    BY <1>3
  <2>3. QED
    BY <1>1, <2>1, <2>2 DEF TypeOK, DataStep, Data
<1>5. AnsweredOnce' /\ HandedLast'
  BY <1>1, <1>3 DEF AnsweredOnce, HandedLast
<1>6. BackendKnown' /\ HitsAdmit' /\ HeaderKept'
  BY <1>1 DEF BackendKnown, HitsAdmit, HeaderKept
<1>7. IssuedMarked'
  BY <1>1 DEF IssuedMarked, DataStep
<1>8. BackendNotRefused'
  BY <1>1, HandedStays
<1>9. EarnedIsSent' /\ CookieNotShared'
  BY <1>3 DEF EarnedIsSent, CookieNotShared
<1>10. QED
  BY <1>4, <1>5, <1>6, <1>7, <1>8, <1>9

\* Nothing is answered and no backend is asked yet.
LEMMA NoOutcomeYet ==
    ASSUME Inv, pc \in {"load", "start", "rules", "handle"}, pc' \notin {"ended", "backend"},
           UNCHANGED <<backend, header, answers>>
    PROVE  Outcome'
<1>1. answers = <<>> /\ backend = NoBackend /\ (header.set => header.vary)
  BY DEF Inv, Outcome, AnsweredOnce, HandedLast, HeaderKept
<1>2. QED
  BY <1>1 DEF Outcome, AnsweredOnce, BackendNotRefused, HandedLast, HeaderKept, EarnedIsSent,
              CookieNotShared

\* A page is begun.
LEMMA PageInv ==
    ASSUME Inv, pc \in {"rules", "handle", "backend"}, DataStep, NEW kind \in Pages, Page(kind)
    PROVE  Inv'
<1>1. /\ pc' = "page" /\ page' = kind
      /\ UNCHANGED <<handler, host, stack, rule, run, at, backend, header, told, answers, hits>>
  BY DEF Page
<1>2. TypeOK'
  <2>1. StackOK'
    BY <1>1 DEF Inv, TypeOK, StackOK
  <2>2. kind # "none"
    BY DEF Pages
  <2>3. QED
    BY <1>1, <2>1, <2>2 DEF Inv, TypeOK, DataStep, Data
<1>3. BackendKnown' /\ HitsAdmit' /\ IssuedMarked'
  BY <1>1 DEF Inv, BackendKnown, HitsAdmit, IssuedMarked, DataStep
<1>4. BackendNotRefused'
  BY <1>1, HandedStays
<1>5. answers = <<>>
  BY DEF Inv, Outcome, AnsweredOnce
<1>6. AnsweredOnce' /\ HandedLast' /\ HeaderKept' /\ EarnedIsSent' /\ CookieNotShared'
  BY <1>1, <1>5 DEF Inv, Outcome, AnsweredOnce, HandedLast, HeaderKept, EarnedIsSent,
                    CookieNotShared
<1>7. QED
  BY <1>2, <1>3, <1>4, <1>6 DEF Inv, Outcome

\* The request is handed to a backend by a rule that admits it, or by none.
LEMMA HandInv ==
    ASSUME Inv, pc \in {"rules", "handle"}, NEW b \in Backends, NEW tells \in ToldType,
           Hand(b, tells), answers' = answers, \A i \in DOMAIN hits : Admits(hits[i])
    PROVE  Inv'
<1>1. /\ pc' = "backend" /\ backend' = b /\ told' = tells
      /\ header' = ResponseHeaders(header, data)
      /\ UNCHANGED <<handler, host, stack, rule, run, at, data, page, hits, issued>>
  BY DEF Hand
<1>2. /\ header' \in HeaderType /\ header'.vary /\ (data.modified => header'.set)
      /\ data \in Data
  <2>1. data \in Data /\ header \in HeaderType
    BY DEF Inv, TypeOK, Data, HeaderType
  <2>2. QED
    BY <1>1, <2>1, HeadersType
<1>3. TypeOK'
  <2>1. StackOK'
    BY <1>1 DEF Inv, TypeOK, StackOK
  <2>2. header' \in [vary : BOOLEAN, set : BOOLEAN, informed : BOOLEAN]
    BY <1>2 DEF HeaderType
  <2>3. told' \in [rule : Rules \cup {NoRule}, action : RuleActions \cup {"none", "unknown"},
                   hash : Rules \cup {NoRule}]
    BY <1>1 DEF ToldType
  <2>4. QED
    BY <1>1, <2>1, <2>2, <2>3 DEF Inv, TypeOK
<1>4. BackendKnown' /\ HitsAdmit' /\ IssuedMarked'
  BY <1>1 DEF Inv, BackendKnown, HitsAdmit, IssuedMarked
<1>5. BackendNotRefused'
  BY <1>1 DEF BackendNotRefused, Admits
<1>6. answers = <<>>
  BY DEF Inv, Outcome, AnsweredOnce
<1>7. AnsweredOnce' /\ HandedLast' /\ HeaderKept' /\ EarnedIsSent' /\ CookieNotShared'
  BY <1>1, <1>2, <1>6 DEF AnsweredOnce, HandedLast, HeaderKept, EarnedIsSent, CookieNotShared
<1>8. QED
  BY <1>3, <1>4, <1>5, <1>7 DEF Inv, Outcome

\* A handler returns next, and its rule admits the request.
LEMMA ContinueInv ==
    ASSUME Inv, pc = "handle", Continue, DataStep,
           Admits(rule) \/ Admits(rule)'
    PROVE  Inv'
<1> USE DEF Inv
<1>1. /\ pc' = "rules" /\ stack' = Append(stack, [rule |-> rule, next |-> 1])
      /\ UNCHANGED <<handler, host, rule, run, at, page, backend, header, told, answers, hits>>
  BY DEF Continue
<1>3. TypeOK'
  <2>1. [rule |-> rule, next |-> 1] \in Frame
    BY DEF TypeOK, Frame
  <2>2. stack \in Seq(Frame) /\ stack # <<>> /\ Len(stack) \in Nat \ {0}
    BY DEF TypeOK
  <2>3. stack' \in Seq(Frame) /\ stack'[1] = stack[1] /\ stack' # <<>>
    BY <1>1, <2>1, <2>2
  <2>4. StackOK'
    BY <1>1, <2>2, <2>3 DEF TypeOK, StackOK
  <2>5. QED
    BY <1>1, <2>3, <2>4 DEF TypeOK, DataStep, Data
<1>4. BackendKnown' /\ IssuedMarked'
  BY <1>1 DEF BackendKnown, IssuedMarked, DataStep
<1>5. HitsAdmit'
  <2>1. hits \in Seq(Rules) /\ hits # <<>> /\ hits[Len(hits)] = rule /\ rule \in Rules
    BY DEF HitsAdmit, TypeOK
  <2>2. Admits(rule)'
    BY <1>1, <2>1, AdmitsStays
  <2>3. ASSUME NEW i \in DOMAIN hits PROVE Admits(hits[i])'
    <3>1. CASE i = Len(hits)
      <4>1. hits[i] = rule /\ rule' = rule /\ hits' = hits
        BY <1>1, <2>1, <3>1
      <4>2. QED
        BY <2>2, <4>1 DEF Admits
    <3>2. CASE i # Len(hits)
      <4>1. i \in 1 .. (Len(hits) - 1) /\ hits[i] \in Rules
        BY <2>1, <3>2
      <4>2. Admits(hits[i])
        BY <4>1 DEF HitsAdmit
      <4>3. QED
        BY <1>1, <4>1, <4>2, AdmitsStays
    <3>3. QED
      BY <3>1, <3>2
  <2>4. QED
    BY <1>1, <2>3 DEF HitsAdmit, Admits
<1>6. QED
  BY <1>1, <1>3, <1>4, <1>5, NoOutcomeYet

\* A handler runs another one.
LEMMA JumpInv ==
    ASSUME Inv, pc = "handle", DataStep, NEW h \in Loadable, Jump(h),
           Admits(rule) \/ Admits(rule)' \/ Kind[h] \in Refusing
    PROVE  Inv'
<1> USE DEF Inv
<1>1. /\ run' = h /\ at' = 0
      /\ UNCHANGED <<pc, handler, host, stack, rule, page, backend, header, told, answers, hits>>
  BY DEF Jump
<1>2. h \in Handlers
  BY DEF Loadable
<1>3. TypeOK'
  <2>1. StackOK'
    BY <1>1 DEF TypeOK, StackOK
  <2>2. QED
    BY <1>1, <1>2, <2>1 DEF TypeOK, DataStep, Data
<1>4. BackendKnown' /\ IssuedMarked'
  BY <1>1 DEF BackendKnown, IssuedMarked, DataStep
<1>5. HitsAdmit'
  <2>1. hits \in Seq(Rules) /\ hits # <<>> /\ hits[Len(hits)] = rule /\ rule \in Rules
    BY DEF HitsAdmit, TypeOK
  <2>2. Admits(rule)' \/ Kind[run'] \in Refusing
    BY <1>1, <2>1, AdmitsStays
  <2>3. ASSUME NEW i \in 1 .. (Len(hits) - 1) PROVE Admits(hits[i])'
    <3>1. Admits(hits[i]) /\ hits[i] \in Rules
      BY <2>1 DEF HitsAdmit
    <3>2. QED
      BY <1>1, <3>1, AdmitsStays
  <2>4. QED
    BY <1>1, <2>1, <2>2, <2>3 DEF HitsAdmit, Admits
<1>6. QED
  BY <1>1, <1>3, <1>4, <1>5, NoOutcomeYet

---------------------------------------------------------------------------
(* The steps *)

LEMMA InitInv == Init => Inv
<1> SUFFICES ASSUME Init PROVE Inv
  OBVIOUS
<1> USE DEF Init
<1>1. data \in Data
  BY RuleEngineAssumption DEF NoData, Data, VerifyResult, VerifyState
<1>2. told \in ToldType
  BY DEF ToldType, ToldNothing
<1>3. TypeOK
  <2>0. header \in [vary : BOOLEAN, set : BOOLEAN, informed : BOOLEAN]
    OBVIOUS
  <2>1. StackOK /\ stack \in Seq(Frame) /\ answers \in Seq(Answer) /\ hits \in Seq(Rules)
    BY DEF StackOK
  <2>2. QED
    BY <1>1, <1>2, <2>0, <2>1 DEF TypeOK, Data, ToldType
<1>4. QED
  BY <1>3 DEF Inv, Outcome, AnsweredOnce, BackendKnown, IssuedMarked, HitsAdmit,
              BackendNotRefused, HandedLast, HeaderKept, EarnedIsSent, CookieNotShared

\* Loading and the first step of handleRequest.
LEMMA StartInv == Inv /\ (NewRuleState \/ HandleRequest) => Inv'
<1> SUFFICES ASSUME Inv, NewRuleState \/ HandleRequest PROVE Inv'
  OBVIOUS
<1> USE DEF Inv
<1>1. CASE NewRuleState
  <2>1. /\ pc = "load" /\ pc' \in {"start", "rejected"}
        /\ pc' = "start" => \A r \in Rules : handler[r] \in Loadable
        /\ UNCHANGED <<handler, host, stack, rule, run, at, data, page, backend, header, told,
                       answers, hits, issued>>
    BY <1>1 DEF NewRuleState
  <2>3. TypeOK'
    BY <2>1 DEF TypeOK, StackOK
  <2>4. BackendKnown' /\ IssuedMarked' /\ HitsAdmit'
    BY <2>1 DEF BackendKnown, IssuedMarked, HitsAdmit
  <2>5. QED
    BY <2>1, <2>3, <2>4, NoOutcomeYet
<1>2. CASE HandleRequest
  <2>1. /\ pc = "start" /\ answers = <<>> /\ hits = <<>> /\ backend = NoBackend
        /\ UNCHANGED <<handler, host, rule, run, at, page, backend, header, told, hits, issued>>
    BY <1>2 DEF HandleRequest, Outcome, AnsweredOnce, HitsAdmit, HandedLast
  <2>2. PICK v \in [Challenges -> Verdicts] :
           data' = [verify |-> [c \in Challenges |-> v[c].result],
                    state |-> [c \in Challenges |-> v[c].state],
                    modified |-> FALSE, opt |-> NoHost, tags |-> FALSE]
    BY <1>2 DEF HandleRequest
  <2>3. data' \in Data /\ data'.modified = FALSE
    <3>1. \A c \in Challenges : v[c].result \in VerifyResult /\ v[c].state \in VerifyState
      BY <2>2, RuleEngineAssumption
    <3>2. QED
      BY <2>2, <3>1 DEF Data
  <2>4. \A c \in Challenges : issued'[c] = 0
    BY <2>1 DEF IssuedMarked
  <2>5. CASE GetBackend(host) = NoBackend
    <3> DEFINE a == Committed(data', "unavailable", header, FALSE)
    <3>1. answers' = <<a>> /\ pc' = "ended" /\ stack' = stack
      BY <1>2, <2>5 DEF HandleRequest
    <3>2. a \in Answer /\ (a.set => a.vary \/ a.private)
      <4>1. "unavailable" \in AnswerKinds /\ FALSE \in BOOLEAN /\ header \in HeaderType
        BY DEF AnswerKinds, TypeOK, HeaderType
      <4>2. header.set => header.vary
        BY DEF Outcome, HeaderKept
      <4>3. QED
        BY <2>3, <4>1, <4>2, CommittedType
    <3> HIDE DEF a
    <3>3. Len(answers') = 1 /\ DOMAIN answers' = {1} /\ answers'[1] = a /\ answers' \in Seq(Answer)
      BY <3>1, <3>2
    <3>4. TypeOK'
      <4>1. StackOK'
        BY <2>1, <3>1 DEF TypeOK, StackOK
      <4>2. QED
        BY <2>1, <2>3, <3>1, <3>3, <4>1 DEF TypeOK, Data
    <3>5. AnsweredOnce' /\ BackendKnown' /\ IssuedMarked' /\ HitsAdmit'
      BY <2>4, <3>1, <3>3 DEF AnsweredOnce, BackendKnown, IssuedMarked, HitsAdmit
    <3>6. BackendNotRefused' /\ HandedLast' /\ HeaderKept' /\ EarnedIsSent' /\ CookieNotShared'
      BY <2>1, <2>3, <3>1, <3>2, <3>3 DEF BackendNotRefused, HandedLast, HeaderKept, Outcome,
                                          EarnedIsSent, CookieNotShared
    <3>7. QED
      BY <3>4, <3>5, <3>6 DEF Outcome
  <2>6. CASE GetBackend(host) # NoBackend
    <3>1. pc' = "rules" /\ stack' = <<[rule |-> Root, next |-> 1]>> /\ answers' = answers
      BY <1>2, <2>1, <2>6 DEF HandleRequest
    <3>2. TypeOK'
      <4>1. [rule |-> Root, next |-> 1] \in Frame
        BY DEF Frame
      <4>2. stack' \in Seq(Frame) /\ Len(stack') = 1
              /\ stack'[1] = [rule |-> Root, next |-> 1]
        BY <3>1, <4>1
      <4>3. Len(Children[Root]) \in Nat
        BY RuleEngineAssumption
      <4>4. StackOK'
        BY <3>1, <4>2, <4>3 DEF StackOK
      <4>5. QED
        BY <2>1, <2>3, <3>1, <4>2, <4>4 DEF TypeOK, Data
    <3>3. BackendKnown' /\ IssuedMarked' /\ HitsAdmit'
      BY <2>1, <2>4, <2>6, <3>1 DEF BackendKnown, IssuedMarked, HitsAdmit, GetBackend,
                                    SelectHTTPHandler
    <3>4. QED
      BY <2>1, <3>1, <3>2, <3>3, NoOutcomeYet
  <2>7. QED
    BY <2>5, <2>6
<1>3. QED
  BY <1>1, <1>2

\* An answer of go-away's own, after ResponseHeaders.
LEMMA ResponseInv ==
    ASSUME Inv, pc \in {"rules", "handle", "page"}, DataStep, NEW kind \in AnswerKinds,
           Ends(<<Response(data', kind)>>)
    PROVE  Inv'
<1> DEFINE h == ResponseHeaders(header, data')
           a == Committed(data', kind, h, FALSE)
<1>1. data' \in Data /\ header \in HeaderType
  BY DEF Inv, TypeOK, HeaderType, DataStep
<1>2. h \in HeaderType /\ h.vary /\ (data'.modified => h.set)
  BY <1>1, HeadersType
<1>3. Ends(<<a>>)
  BY DEF Response
<1>4. FALSE \in BOOLEAN
  OBVIOUS
<1> HIDE DEF h
<1>5. a \in Answer /\ a.set = h.set /\ (a.vary \/ a.private)
  BY <1>1, <1>2, <1>4, CommittedType
<1> HIDE DEF a
<1>6. QED
  BY <1>2, <1>3, <1>5, EndsInv

\* While the rules are evaluated the host has a backend.
LEMMA BackendOfHost ==
    ASSUME Inv, pc \in {"rules", "handle"}
    PROVE  GetBackend(host) # NoBackend /\ getBackend \in Backends /\ getBackend # NoBackend
<1>1. GetBackend(host) # NoBackend
  BY DEF Inv, BackendKnown
<1>2. GetBackend(host) \in Backends
  BY <1>1 DEF GetBackend, SelectHTTPHandler
<1>3. QED
  BY <1>1, <1>2 DEF getBackend

LEMMA EvaluateInv == Inv /\ Evaluate => Inv'
<1> SUFFICES ASSUME Inv, Evaluate PROVE Inv'
  OBVIOUS
<1> USE DEF Inv
<1>0. pc = "rules"
  BY DEF Evaluate, EvaluateMiss, EvaluateHit, EvaluateError, EvaluateReturn, DefaultPass
<1>a. GetBackend(host) # NoBackend /\ getBackend \in Backends /\ getBackend # NoBackend
  BY <1>0, BackendOfHost
<1>b. \A i \in DOMAIN hits : Admits(hits[i])
  BY <1>0 DEF HitsAdmit
<1>c. stack \in Seq(Frame) /\ Len(stack) \in Nat \ {0}
  BY <1>0, LoopFacts DEF TypeOK
<1>1. CASE EvaluateMiss
  <2>1. /\ stack' = Advance /\ ~LoopEnded
        /\ UNCHANGED <<pc, handler, host, rule, run, at, data, page, backend, header, told,
                       answers, hits, issued>>
    BY <1>1 DEF EvaluateMiss
  <2>2. /\ stack' \in Seq(Frame) /\ Len(stack') = Len(stack) /\ stack'[1].rule = Root
        /\ stack'[1].next \in 2 .. (Len(Children[Root]) + 1)
    BY <1>0, <2>1, LoopFacts
  <2>3. StackOK' /\ stack' # <<>>
    <3>1. Len(Children[Root]) \in Nat
      BY RuleEngineAssumption
    <3>2. QED
      BY <1>c, <2>2, <3>1 DEF StackOK
  <2>4. TypeOK'
    BY <2>1, <2>2, <2>3 DEF TypeOK
  <2>5. BackendKnown' /\ IssuedMarked' /\ HitsAdmit'
    BY <2>1 DEF BackendKnown, IssuedMarked, HitsAdmit, Admits, GetBackend, SelectHTTPHandler
  <2>6. QED
    BY <1>0, <2>1, <2>4, <2>5, NoOutcomeYet
<1>2. CASE EvaluateHit
  <2>1. /\ stack' = Advance /\ ~LoopEnded /\ pc' = "handle" /\ at' = 0
        /\ rule' = NextRule /\ run' = handler[NextRule] /\ hits' = Append(hits, NextRule)
        /\ UNCHANGED <<handler, host, data, page, backend, header, told, answers, issued>>
    BY <1>2 DEF EvaluateHit
  <2>2. /\ stack' \in Seq(Frame) /\ Len(stack') = Len(stack) /\ stack'[1].rule = Root
        /\ stack'[1].next \in 2 .. (Len(Children[Root]) + 1) /\ NextRule \in Rules
    BY <1>0, <2>1, LoopFacts
  <2>3. StackOK' /\ stack' # <<>>
    <3>1. Len(Children[Root]) \in Nat
      BY RuleEngineAssumption
    <3>2. QED
      BY <1>c, <2>2, <3>1 DEF StackOK
  <2>4. run' \in Loadable /\ run' \in Handlers /\ rule' \in Rules
    BY <1>0, <2>1, <2>2 DEF TypeOK
  <2>5. hits \in Seq(Rules) /\ hits' \in Seq(Rules)
    BY <2>1, <2>2 DEF TypeOK
  <2>6. TypeOK'
    BY <1>0, <2>1, <2>2, <2>3, <2>4, <2>5 DEF TypeOK
  <2>7. BackendKnown' /\ IssuedMarked'
    BY <1>0, <2>1 DEF BackendKnown, IssuedMarked, GetBackend, SelectHTTPHandler
  <2>8. HitsAdmit'
    <3>1. /\ hits' # <<>> /\ Len(hits') = Len(hits) + 1 /\ hits'[Len(hits')] = rule'
          /\ \A i \in 1 .. (Len(hits') - 1) : i \in DOMAIN hits /\ hits'[i] = hits[i]
      BY <2>1, <2>2, <2>5
    <3>2. \A i \in 1 .. (Len(hits') - 1) : Admits(hits[i])'
      BY <1>b, <2>1, <3>1 DEF Admits
    <3>3. run' = handler'[rule']
      BY <2>1
    <3>4. QED
      BY <2>1, <3>1, <3>2, <3>3, Zenon DEF HitsAdmit
  <2>9. QED
    BY <1>0, <2>1, <2>6, <2>7, <2>8, NoOutcomeYet
<1>3. CASE EvaluateError
  <2>1. "error" \in Pages /\ Page("error") /\ UNCHANGED <<data, issued>>
    BY <1>3 DEF Pages, EvaluateError, Fails
  <2>2. QED
    BY <1>0, <2>1, SameData, PageInv
<1>4. CASE EvaluateReturn
  <2>1. /\ Len(stack) > 1 /\ stack' = SubSeq(stack, 1, Len(stack) - 1)
        /\ UNCHANGED <<pc, handler, host, rule, run, at, data, page, backend, header, told,
                       answers, hits, issued>>
    BY <1>4 DEF EvaluateReturn
  <2>2. stack' \in Seq(Frame) /\ stack' # <<>> /\ stack'[1] = stack[1]
    <3>1. \A i \in 1 .. (Len(stack) - 1) : stack[i] \in Frame
      BY <1>c
    <3>2. /\ stack' = [i \in 1 .. (Len(stack) - 1) |-> stack[i]]
          /\ stack' \in Seq(Frame) /\ Len(stack') = Len(stack) - 1
      BY <1>c, <2>1, <3>1
    <3>3. 1 \in 1 .. (Len(stack) - 1)
      BY <1>c, <2>1
    <3>4. stack'[1] = stack[1]
      BY <3>2, <3>3
    <3>5. Len(stack') # 0
      BY <1>c, <2>1, <3>2
    <3>6. stack' # <<>>
      BY <3>5
    <3>7. QED
      BY <3>2, <3>4, <3>6
  <2>3. StackOK'
    BY <1>0, <1>c, <2>1, <2>2 DEF TypeOK, StackOK
  <2>4. TypeOK'
    BY <2>1, <2>2, <2>3 DEF TypeOK
  <2>5. BackendKnown' /\ IssuedMarked' /\ HitsAdmit'
    BY <2>1 DEF BackendKnown, IssuedMarked, HitsAdmit, Admits, GetBackend, SelectHTTPHandler
  <2>6. QED
    BY <1>0, <2>1, <2>4, <2>5, NoOutcomeYet
<1>5. CASE DefaultPass
  <2> DEFINE tells == IF getBackend \in TransparentTo THEN ToldNothing
                      ELSE [rule |-> NoRule, action |-> "PASS", hash |-> NoRule]
  <2>1. tells \in ToldType
    BY DEF ToldType, ToldNothing, RuleActions
  <2>2. Hand(getBackend, tells) /\ answers' = answers
    BY <1>a, <1>5 DEF DefaultPass, HandOver
  <2> HIDE DEF tells
  <2>3. QED
    BY <1>0, <1>a, <1>b, <2>1, <2>2, HandInv
<1>6. QED
  BY <1>1, <1>2, <1>3, <1>4, <1>5 DEF Evaluate

\* The handlers that decide.
LEMMA DecidingInv == Inv /\ Deciding => Inv'
<1> SUFFICES ASSUME Inv, Deciding PROVE Inv'
  OBVIOUS
<1>0. pc = "handle"
  BY DEF Deciding, Pass, Proxy, ProxyError, Deny, Block, Code, Drop, Runs
<1>a. /\ getBackend \in Backends /\ getBackend # NoBackend /\ run \in Handlers
      /\ rule \in Rules /\ run \in Loadable /\ handler \in [Rules -> Handlers]
  BY <1>0, LoadableClosed, BackendOfHost DEF Inv, TypeOK
<1>b. ASSUME NEW b PROVE ToldOf(b) \in ToldType
  <2>1. OuterRule \in Rules
    BY <1>0, OuterRuleType DEF Inv
  <2>2. \A r \in Rules : Kind[handler[r]] \in RuleActions \cup {"unknown"}
    BY <1>a, RuleEngineAssumption
  <2>3. QED
    BY <1>a, <2>1, <2>2 DEF ToldOf, ToldType
<1>c. ASSUME Kind[run] \in {"PASS", "PROXY"}
      PROVE  \A i \in DOMAIN hits : Admits(hits[i])
  <2>1. Kind[run] \notin Refusing /\ Kind[run] \notin Asking
    BY <1>c DEF Refusing, Asking
  <2>2. run = handler[rule] => Admits(rule)
    BY <2>1 DEF Admits
  <2>3. Admits(rule)
    BY <1>0, <2>1, <2>2 DEF Inv, HitsAdmit
  <2>4. hits \in Seq(Rules) /\ hits[Len(hits)] = rule
    BY <1>0 DEF Inv, HitsAdmit, TypeOK
  <2>5. SUFFICES ASSUME NEW i \in DOMAIN hits PROVE Admits(hits[i])
    OBVIOUS
  <2>6. i = Len(hits) \/ i \in 1 .. (Len(hits) - 1)
    BY <2>4
  <2>7. QED
    BY <1>0, <2>3, <2>4, <2>6, Zenon DEF Inv, HitsAdmit
<1>d. ASSUME UNCHANGED <<data, issued>>, NEW kind \in AnswerKinds, Ends(<<Response(data, kind)>>)
      PROVE  Inv'
  BY <1>0, <1>d, SameData, ResponseInv
<1>e. ASSUME UNCHANGED <<data, issued>>, NEW kind \in Pages, Page(kind) PROVE Inv'
  BY <1>0, <1>e, SameData, PageInv
<1>f. {"error", "denied"} \subseteq Pages /\ {"blocked", "code", "dropped"} \subseteq AnswerKinds
  BY DEF Pages, AnswerKinds
<1>1. CASE Pass
  <2>1. Kind[run] = "PASS" /\ Hand(getBackend, ToldOf(getBackend)) /\ answers' = answers
    BY <1>a, <1>1 DEF Pass, Runs, HandOver
  <2>2. QED
    BY <1>0, <1>a, <1>b, <1>c, <2>1, HandInv
<1>2. CASE Proxy
  <2> DEFINE b == GetBackend(ProxyTo[run])
  <2>1. Kind[run] = "PROXY" /\ Hand(b, ToldOf(b)) /\ answers' = answers /\ b # NoBackend
    BY <1>a, <1>2 DEF Proxy, Runs
  <2>2. b \in Backends
    BY <2>1 DEF GetBackend, SelectHTTPHandler
  <2> HIDE DEF b
  <2>3. QED
    BY <1>0, <1>b, <1>c, <2>1, <2>2, HandInv
<1>3. CASE ProxyError
  BY <1>3, <1>e, <1>f DEF ProxyError, Fails
<1>4. CASE Deny
  BY <1>4, <1>e, <1>f DEF Deny
<1>5. CASE Block
  BY <1>5, <1>d, <1>f DEF Block
<1>6. CASE Code
  BY <1>6, <1>d, <1>f DEF Code
<1>7. CASE Drop
  <2> DEFINE a == Committed(data, "dropped", header, FALSE)
  <2>1. "Hijack" \notin WriterMethods
    BY DEF WriterMethods
  <2>2. Ends(<<a>>) /\ UNCHANGED <<data, issued>>
    BY <1>7, <2>1 DEF Drop
  <2>3. data \in Data /\ header \in HeaderType /\ (header.set => header.vary) /\ FALSE \in BOOLEAN
    BY DEF Inv, TypeOK, Data, HeaderType, Outcome, HeaderKept
  <2>4. a \in Answer /\ a.kind = "dropped" /\ (a.set => a.vary \/ a.private)
    BY <1>f, <2>3, CommittedType
  <2> HIDE DEF a
  <2>5. QED
    BY <1>0, <2>2, <2>4, SameData, EndsInv
<1>8. QED
  BY <1>1, <1>2, <1>3, <1>4, <1>5, <1>6, <1>7 DEF Deciding

\* What another server, or a page, is waited for.
LEMMA FinishingInv == Inv /\ Finishing => Inv'
<1> SUFFICES ASSUME Inv, Finishing PROVE Inv'
  OBVIOUS
<1>0. data \in Data /\ header \in HeaderType
  BY DEF Inv, TypeOK, Data, HeaderType
<1>1. CASE WritePage
  <2>1. pc = "page" /\ Ends(<<Response(data, page)>>) /\ UNCHANGED <<data, issued>>
    BY <1>1 DEF WritePage
  <2>2. page \in AnswerKinds
    BY <2>1 DEF Inv, TypeOK, AnswerKinds
  <2>3. QED
    BY <2>1, <2>2, SameData, ResponseInv
<1>2. CASE BackendInforms
  <2>1. /\ pc = "backend" /\ header' = [vary |-> FALSE, set |-> FALSE, informed |-> TRUE]
        /\ UNCHANGED <<pc, handler, host, stack, rule, run, at, data, page, backend, told, answers,
                       hits, issued>>
    BY <1>2 DEF BackendInforms
  <2>2. TypeOK'
    <3>1. StackOK'
      BY <2>1 DEF Inv, TypeOK, StackOK
    <3>2. header' \in [vary : BOOLEAN, set : BOOLEAN, informed : BOOLEAN]
      BY <2>1
    <3>3. QED
      BY <2>1, <3>1, <3>2 DEF Inv, TypeOK
  <2>3. BackendKnown' /\ HitsAdmit' /\ IssuedMarked'
    BY <2>1 DEF Inv, BackendKnown, HitsAdmit, IssuedMarked
  <2>4. Outcome'
    BY <2>1 DEF Inv, Outcome, AnsweredOnce, BackendNotRefused, Admits, HandedLast, HeaderKept,
                EarnedIsSent, CookieNotShared
  <2>5. QED
    BY <2>2, <2>3, <2>4 DEF Inv
<1>3. CASE BackendAnswers
  <2>1. pc = "backend" /\ UNCHANGED <<data, issued>> /\ "backend" \in AnswerKinds
    BY <1>3 DEF BackendAnswers, AnswerKinds
  <2>2. PICK media \in BOOLEAN : Ends(<<Committed(data, "backend", header, media)>>)
    BY <1>3 DEF BackendAnswers
  <2> DEFINE a == Committed(data, "backend", header, media)
  <2>3. /\ header.set => header.vary
        /\ header.informed \/ (data.modified => header.set)
    BY <2>1 DEF Inv, Outcome, HeaderKept
  <2>4. /\ a \in Answer /\ a.kind = "backend" /\ a.set = header.set /\ a.informed = header.informed
        /\ header.vary => a.vary \/ a.private
    BY <1>0, <2>1, CommittedType
  <2>5. Ends(<<a>>)
    BY <2>2
  <2> HIDE DEF a
  <2>6. QED
    BY <2>1, <2>3, <2>4, <2>5, SameData, EndsInv
<1>4. CASE BackendFails
  <2>1. /\ pc = "backend" /\ Page("bad-gateway") /\ UNCHANGED <<data, issued>>
        /\ "bad-gateway" \in Pages
    BY <1>4 DEF BackendFails, Pages
  <2>2. QED
    BY <2>1, SameData, PageInv
<1>5. QED
  BY <1>1, <1>2, <1>3, <1>4 DEF Finishing

\* NONE and CONTEXT.
LEMMA NextInv == Inv /\ (None \/ Context) => Inv'
<1> SUFFICES ASSUME Inv, None \/ Context PROVE Inv'
  OBVIOUS
<1> USE DEF Inv
<1>1. pc = "handle" /\ Kind[run] \in {"NONE", "CONTEXT"} /\ Continue /\ issued' = issued
  BY DEF None, Context, Runs
<1>2. Admits(rule)
  <2>1. Kind[run] \notin Refusing /\ Kind[run] \notin Asking
    BY <1>1 DEF Refusing, Asking
  <2>2. QED
    BY <1>1, <2>1 DEF HitsAdmit, Admits
<1>3. data \in Data /\ run \in Handlers
  BY <1>1, LoadableClosed DEF TypeOK, Data
<1>4. data' = data \/ data' = WithOpts(data, run)
  BY DEF None, Context
<1>5. DataStep
  <2>1. CASE data' = data
    BY <1>1, <2>1, SameData
  <2>2. CASE data' = WithOpts(data, run)
    <3>1. SetHost[run] \in Hosts \cup {NoHost}
      BY <1>3, RuleEngineAssumption
    <3>2. (SetTags[run] = "on" \/ (SetTags[run] = "leave" /\ data.tags)) \in BOOLEAN
      BY Zenon
    <3>3. data' \in Data /\ data'.verify = data.verify /\ data'.state = data.state
      BY <1>3, <2>2, <3>1, <3>2 DEF WithOpts, Data
    <3>4. QED
      BY <1>1, <3>3 DEF DataStep, IssuedMarked, TypeOK
  <2>3. QED
    BY <1>4, <2>1, <2>2
<1>6. QED
  BY <1>1, <1>2, <1>5, ContinueInv

\* Moving on in the list of challenges.
LEMMA RoundInv ==
    ASSUME Inv, pc = "handle", DataStep, at' \in Nat,
           UNCHANGED <<pc, handler, host, stack, rule, run, page, backend, header, told, answers, hits>>
    PROVE  Inv'
<1> USE DEF Inv
<1>1. TypeOK'
  <2>1. StackOK'
    BY DEF TypeOK, StackOK
  <2>2. QED
    BY <2>1 DEF TypeOK, DataStep, Data
<1>2. BackendKnown' /\ IssuedMarked'
  BY DEF BackendKnown, IssuedMarked, DataStep, GetBackend, SelectHTTPHandler
<1>3. HitsAdmit'
  <2>1. hits \in Seq(Rules) /\ hits # <<>> /\ hits[Len(hits)] = rule /\ rule \in Rules
    BY DEF HitsAdmit, TypeOK
  <2>2. Admits(rule) => Admits(rule)'
    BY <2>1, AdmitsStays
  <2>3. ASSUME NEW i \in 1 .. (Len(hits) - 1) PROVE Admits(hits[i])'
    <3>1. Admits(hits[i]) /\ hits[i] \in Rules
      BY <2>1 DEF HitsAdmit
    <3>2. QED
      BY <3>1, AdmitsStays
  <2>4. QED
    BY <2>1, <2>2, <2>3 DEF HitsAdmit, Admits
<1>4. QED
  BY <1>1, <1>2, <1>3, NoOutcomeYet

\* A handler that asks is the first of its rule, or the rule admits already.
LEMMA AskingRule ==
    ASSUME Inv, pc = "handle", Kind[run] \in Asking
    PROVE  /\ Kind[run] \notin Refusing
           /\ rule \in Rules /\ run \in Loadable /\ run \in Handlers
           /\ PassTo[run] \in Loadable /\ FailTo[run] \in Loadable
           /\ Admits(rule) \/ run = handler[rule]
<1>1. Kind[run] \notin Refusing
  BY DEF Refusing, Asking
<1>2. rule \in Rules /\ run \in Loadable
  BY DEF Inv, TypeOK
<1>3. QED
  BY <1>1, <1>2, LoadableClosed DEF Inv, HitsAdmit

\* One of the challenges is passed.
LEMMA PassedInv ==
    ASSUME Inv, pc = "handle", Kind[run] \in Asking, DataStep, Passed,
           NEW i \in DOMAIN Uses[run], data'.verify[Uses[run][i]] = "OK"
    PROVE  Inv'
<1>1. handler' = handler
  BY DEF Passed, Continue, Jump
<1>2. Admits(rule) \/ Admits(rule)'
  <2>1. CASE run = handler[rule]
    <3>1. rule' = rule
      BY DEF Passed, Continue, Jump
    <3>2. Kind[handler[rule]] \notin Refusing
            /\ \E j \in DOMAIN Uses[handler[rule]] : data'.verify[Uses[handler[rule]][j]] = "OK"
      BY <2>1, AskingRule
    <3>3. QED
      BY <1>1, <3>1, <3>2 DEF Admits
  <2>2. QED
    BY <2>1, AskingRule
<1>3. CASE Kind[run] = "CHECK"
  BY <1>2, <1>3, ContinueInv DEF Passed
<1>4. CASE Kind[run] # "CHECK"
  <2>1. Jump(PassTo[run]) /\ PassTo[run] \in Loadable
    BY <1>4, AskingRule DEF Passed
  <2>2. QED
    BY <1>2, <2>1, JumpInv
<1>5. QED
  BY <1>3, <1>4

\* None is: the fail action.
LEMMA FailedInv ==
    ASSUME Inv, pc = "handle", Kind[run] \in Asking, DataStep, Jump(FailTo[run])
    PROVE  Inv'
<1>1. Admits(rule) \/ Kind[FailTo[run]] \in Refusing
  <2>1. CASE run = handler[rule]
    BY <2>1, AskingRule DEF Admits
  <2>2. QED
    BY <2>1, AskingRule
<1>2. FailTo[run] \in Loadable
  BY AskingRule
<1>3. QED
  BY <1>1, <1>2, JumpInv

\* What IssueChallenge returns is a result.
LEMMA OutcomeType ==
    ASSUME NEW c \in Challenges, NEW res \in IssueResults(c)
    PROVE  res \in VerifyResult /\ StoresToken(c, res) \in BOOLEAN
<1>0. StoresToken(c, res) \in BOOLEAN
  BY Zenon DEF StoresToken
<1>1. CASE Runtime[c] \in {"dnsbl", "http"}
  BY <1>0, <1>1 DEF IssueResults, VerifyResult
<1>2. CASE Runtime[c] = "preload-link"
  BY <1>0, <1>2 DEF IssueResults, VerifyResult
<1>3. CASE Runtime[c] = "cookie"
  BY <1>0, <1>3 DEF IssueResults, VerifyResult
<1>4. CASE Runtime[c] = "page"
  BY <1>0, <1>4 DEF IssueResults, VerifyResult
<1>5. QED
  BY <1>1, <1>2, <1>3, <1>4, RuleEngineAssumption

\* Issuing a challenge that is not skipped counts it once and spoils no pass.
LEMMA IssueStep ==
    ASSUME Inv, NEW c \in Challenges, ~Skippable(c), NEW res \in VerifyResult, NEW token \in BOOLEAN,
           data' = Record(data, c, res, token), issued' = [issued EXCEPT ![c] = @ + 1]
    PROVE  DataStep
<1>1. data \in Data /\ issued \in [Challenges -> Nat]
  BY DEF Inv, TypeOK, Data
<1>2. data.verify[c] # "OK" /\ data.state[c] # "Pass"
  BY DEF Skippable
<1>3. data' \in Data
  <2>1. data.modified \/ token \in BOOLEAN
    BY <1>1, Zenon
  <2>2. [data.verify EXCEPT ![c] = res] \in [Challenges -> VerifyResult]
    BY <1>1 DEF Data
  <2>3. [data.state EXCEPT ![c] = "Pass"] \in [Challenges -> VerifyState]
    BY <1>1 DEF Data, VerifyState
  <2>4. /\ (data.modified \/ token) \in BOOLEAN /\ data.opt \in Hosts \cup {NoHost}
        /\ data.tags \in BOOLEAN
    BY <1>1 DEF Data
  <2>5. QED
    BY <2>2, <2>3, <2>4 DEF Record, Data
<1>4. /\ data'.verify = [data.verify EXCEPT ![c] = res]
      /\ data'.state = [data.state EXCEPT ![c] = "Pass"]
  BY DEF Record
<1>5. \A e \in Challenges : data.verify[e] = "OK" => data'.verify[e] = "OK"
  BY <1>1, <1>2, <1>4 DEF Data
<1>6. issued[c] = 0
  BY <1>2 DEF Inv, IssuedMarked
<1>7. ASSUME NEW e \in Challenges
      PROVE  issued'[e] = 0 \/ (issued'[e] = 1 /\ data'.state[e] = "Pass")
  <2>1. CASE e = c
    BY <1>1, <1>4, <1>6, <2>1 DEF Data
  <2>2. CASE e # c
    BY <1>1, <1>4, <2>2 DEF Data, Inv, IssuedMarked
  <2>3. QED
    BY <2>1, <2>2
<1>8. QED
  BY <1>1, <1>3, <1>5, <1>7 DEF DataStep

LEMMA ChallengeInv == Inv /\ ChallengeHandle => Inv'
<1> SUFFICES ASSUME Inv, ChallengeHandle PROVE Inv'
  OBVIOUS
<1>0. pc = "handle" /\ Kind[run] \in Asking
  BY DEF ChallengeHandle, ChallengeValid, ChallengeNoneValid, ChallengeSkip, ChallengeIssue,
         ChallengeDefault, AtChallenge, Runs
<1>a. at \in Nat
  BY DEF Inv, TypeOK
<1>1. CASE ChallengeValid
  <2>1. PICK i \in DOMAIN Uses[run] : data.verify[Uses[run][i]] = "OK"
    BY <1>1 DEF ChallengeValid, SomeValid, Challenge
  <2>2. Passed /\ UNCHANGED <<data, issued>>
    BY <1>1 DEF ChallengeValid
  <2>3. DataStep
    BY <2>2, SameData
  <2>4. data'.verify[Uses[run][i]] = "OK"
    BY <2>1, <2>2
  <2>5. QED
    BY <1>0, <2>2, <2>3, <2>4, PassedInv
<1>2. CASE ChallengeNoneValid \/ ChallengeSkip
  <2>1. /\ UNCHANGED <<pc, handler, host, stack, rule, run, page, backend, header, told, answers,
                       hits>>
        /\ UNCHANGED <<data, issued>> /\ at' \in Nat
    BY <1>2, <1>a DEF ChallengeNoneValid, ChallengeSkip
  <2>2. DataStep
    BY <2>1, SameData
  <2>3. QED
    BY <1>0, <2>1, <2>2, RoundInv
<1>3. CASE ChallengeIssue
  <2> DEFINE c == Challenge(at)
  <2>1. c \in Challenges /\ at \in DOMAIN Uses[run] /\ c = Uses[run][at] /\ ~Skippable(c)
    BY <1>0, <1>3, AskingRule, UsesRegistered DEF ChallengeIssue, AtChallenge, Challenge
  <2>2. PICK res \in IssueResults(c) :
          /\ data' = Record(data, c, res, StoresToken(c, res))
          /\ issued' = [issued EXCEPT ![c] = @ + 1]
          /\ CASE StopsPassed(c, res) -> Passed
               [] StopsFailed(c, res) -> Jump(FailTo[run])
               [] StopsIssued(c, res) ->
                     IF Runtime[c] = "cookie"
                     THEN Ends(<<Response(Record(data, c, res, StoresToken(c, res)), "challenge")>>)
                     ELSE Page("challenge")
               [] OTHER ->
                     /\ at' = at + 1
                     /\ UNCHANGED <<pc, handler, host, stack, rule, run, page, backend, header, told,
                                    answers, hits>>
    BY <1>3 DEF ChallengeIssue
  <2> HIDE DEF c
  <2>3. res \in VerifyResult /\ StoresToken(c, res) \in BOOLEAN
    BY <2>1, <2>2, OutcomeType
  <2>4. DataStep
    BY <2>1, <2>2, <2>3, IssueStep
  <2>5. CASE StopsPassed(c, res)
    <3>1. res = "OK" /\ Passed
      BY <2>2, <2>5 DEF StopsPassed, StopsFailed, StopsIssued
    <3>2. data'.verify[c] = "OK"
      <4>1. data.verify \in [Challenges -> VerifyResult]
        BY DEF Inv, TypeOK
      <4>2. QED
        BY <2>1, <2>2, <3>1, <4>1 DEF Record
    <3>3. QED
      BY <1>0, <2>1, <2>4, <3>1, <3>2, PassedInv
  <2>6. CASE StopsFailed(c, res)
    <3>1. ~StopsPassed(c, res) /\ ~StopsIssued(c, res)
      BY <2>6 DEF StopsPassed, StopsFailed, StopsIssued
    <3>2. Jump(FailTo[run])
      BY <2>2, <2>6, <3>1
    <3>3. QED
      BY <1>0, <2>4, <3>2, FailedInv
  <2>7. CASE StopsIssued(c, res)
    <3>1. ~StopsPassed(c, res) /\ ~StopsFailed(c, res)
      BY <2>7 DEF StopsPassed, StopsFailed, StopsIssued
    <3>2. Ends(<<Response(data', "challenge")>>) \/ Page("challenge")
      BY <2>2, <2>7, <3>1
    <3>3. "challenge" \in AnswerKinds /\ "challenge" \in Pages
      BY DEF AnswerKinds, Pages
    <3>4. QED
      BY <1>0, <2>4, <3>2, <3>3, ResponseInv, PageInv
  <2>8. CASE ~StopsPassed(c, res) /\ ~StopsFailed(c, res) /\ ~StopsIssued(c, res)
    <3>1. /\ at' = at + 1
          /\ UNCHANGED <<pc, handler, host, stack, rule, run, page, backend, header, told, answers,
                         hits>>
      BY <2>2, <2>8
    <3>2. QED
      BY <1>0, <1>a, <2>4, <3>1, RoundInv
  <2>9. QED
    BY <2>5, <2>6, <2>7, <2>8
<1>4. CASE ChallengeDefault
  <2>1. Jump(FailTo[run]) /\ UNCHANGED <<data, issued>>
    BY <1>4 DEF ChallengeDefault
  <2>2. QED
    BY <1>0, <2>1, SameData, FailedInv
<1>5. QED
  BY <1>1, <1>2, <1>3, <1>4 DEF ChallengeHandle

LEMMA StepInv == Inv /\ [Next]_vars => Inv'
<1> SUFFICES ASSUME Inv, [Next]_vars PROVE Inv'
  OBVIOUS
<1>1. CASE UNCHANGED vars
  BY <1>1 DEF vars, Inv, TypeOK, StackOK, BackendKnown, IssuedMarked, HitsAdmit, Outcome,
              AnsweredOnce, BackendNotRefused, Admits, HandedLast, HeaderKept, EarnedIsSent,
              CookieNotShared, GetBackend, SelectHTTPHandler
<1>2. QED
  BY <1>1, StartInv, EvaluateInv, DecidingInv, FinishingInv, NextInv, ChallengeInv DEF Next

LEMMA Invariance == Spec => []Inv
BY InitInv, StepInv, PTL DEF Spec

---------------------------------------------------------------------------
(* What follows *)

\* Every state is type correct, for any tree of rules: in particular the
\* handler that runs was accepted by NewRuleState, so the challenges it names
\* are registered when Challenge.Handle looks them up.
THEOREM TypeCorrect == Spec => []TypeOK
<1>1. Inv => TypeOK
  BY DEF Inv
<1>2. QED
  BY <1>1, Invariance, PTL

\* handleRequest answers once, whatever actions of whatever nested
\* rules it runs.
THEOREM OneAnswer == Spec => []AnsweredOnce
<1>1. Inv => AnsweredOnce
  BY DEF Inv, Outcome
<1>2. QED
  BY <1>1, Invariance, PTL

\* The backend only sees a request that every rule it hit admits: Evaluate
\* stops at the first refusal, and no later rule undoes a passed challenge.
THEOREM RefusalsHold == Spec => []BackendNotRefused
<1>1. Inv => BackendNotRefused
  BY DEF Inv, Outcome
<1>2. QED
  BY <1>1, Invariance, PTL

\* Challenge.Handle gives a request the same challenge at most once, however
\* many rules name it.
THEOREM ChallengedOnce == Spec => []IssuedOnce
<1>1. Inv => IssuedOnce
  BY DEF Inv, IssuedMarked, IssuedOnce
<1>2. QED
  BY <1>1, Invariance, PTL

\* Whatever ends the request, the proofs it earned go out with the final
\* response, except by DROP and after a backend's informational response,
\* with which ReverseProxy clears the header map.
THEOREM ProofsAreSent == Spec => []EarnedIsSent
<1>1. Inv => EarnedIsSent
  BY DEF Inv, Outcome
<1>2. QED
  BY <1>1, Invariance, PTL

\* A response that carries the state cookie varies with the cookie or is
\* private, whatever the backend sent before it and whoever wrote it.
THEOREM CookieStaysPrivate == Spec => []CookieNotShared
<1>1. Inv => CookieNotShared
  BY DEF Inv, Outcome
<1>2. QED
  BY <1>1, Invariance, PTL

---------------------------------------------------------------------------
(* Who decided *)

\* The loops that run are nested as the rules are: each is over the rules of
\* a rule that the loop around it is at, and so is the rule that is handled.
Nested ==
    pc \in {"rules", "handle"} =>
      /\ \A i \in 2 .. Len(stack) : /\ stack[i].rule \in Rules
                                    /\ Parent(stack[i].rule) = stack[i - 1].rule
      /\ Len(stack) > 1 => stack[2].rule = OuterRule
      /\ pc = "handle" => /\ Parent(rule) = stack[Len(stack)].rule
                          /\ Len(stack) = 1 => rule = OuterRule

\* Arithmetic on the length of a stack of more than one loop.
LEMMA Counting ==
    \A n \in Nat \ {0} : n # 1 =>
        /\ n > 1 /\ 2 \in 1 .. n /\ 2 \in 2 .. n /\ n \in 2 .. n
        /\ \A i \in 2 .. n : i = 2 \/ i - 1 \in 2 .. n
OBVIOUS

\* A rule has one parent.
LEMMA ParentOf ==
    ASSUME NEW p \in Rules \cup {Root}, NEW i \in DOMAIN Children[p]
    PROVE  Parent(Children[p][i]) = p
<1> DEFINE r == Children[p][i]
           P(x) == \E j \in DOMAIN Children[x] : Children[x][j] = r
<1>1. P(p)
  OBVIOUS
<1>2. \A x \in Rules \cup {Root} : P(x) => x = p
  BY TreeAssumption
<1>3. Parent(r) = CHOOSE x \in Rules \cup {Root} : P(x)
  BY DEF Parent
<1> HIDE DEF P
<1>4. (CHOOSE x \in Rules \cup {Root} : P(x)) = p
  BY <1>1, <1>2
<1>5. QED
  BY <1>3, <1>4

\* Moving on changes the innermost loop's position only.
LEMMA AdvanceFacts ==
    ASSUME TypeOK, pc = "rules", ~LoopEnded
    PROVE  /\ Len(Advance) = Len(stack)
           /\ \A i \in 1 .. Len(stack) : Advance[i].rule = stack[i].rule
           /\ \A i \in 1 .. Len(stack) :
                 i # Len(stack) => Advance[i].next = stack[i].next
           /\ Advance[Len(stack)].next = Loop.next + 1 /\ Loop.next \in Nat
           /\ Len(stack) > 1 => Advance[1] = stack[1]
           /\ Len(stack) = 1 => Advance[1].next = Loop.next + 1
           /\ Parent(NextRule) = Loop.rule
<1>1. stack \in Seq(Frame) /\ Len(stack) \in Nat \ {0} /\ Loop \in Frame
      /\ Len(Advance) = Len(stack)
  BY LoopFacts DEF TypeOK
<1>2. DOMAIN stack = 1 .. Len(stack)
  BY <1>1
<1> DEFINE f == [rule |-> Loop.rule, next |-> Loop.next + 1]
<1>3. \A i \in 1 .. Len(stack) : Advance[i] = IF i = Len(stack) THEN f ELSE stack[i]
  BY <1>2 DEF Advance
<1>4. \A i \in 1 .. Len(stack) : Advance[i].rule = stack[i].rule
  BY <1>3 DEF Loop
<1>5. Loop.rule \in Rules \cup {Root} /\ Loop.next \in Nat \ {0}
  BY <1>1 DEF Frame
<1>6. Children[Loop.rule] \in Seq(Rules)
  BY <1>5, RuleEngineAssumption
<1>7. Loop.next \in DOMAIN Children[Loop.rule]
  BY <1>5, <1>6 DEF LoopEnded
<1>8. Parent(NextRule) = Loop.rule
  BY <1>5, <1>7, ParentOf DEF NextRule
<1>9. QED
  BY <1>1, <1>3, <1>4, <1>5, <1>8

LEMMA EvaluateNested == Inv /\ Nested /\ (EvaluateMiss \/ EvaluateHit) => Nested'
<1> SUFFICES ASSUME Inv, Nested, EvaluateMiss \/ EvaluateHit PROVE Nested'
  OBVIOUS
<1>1. pc = "rules" /\ ~LoopEnded /\ stack' = Advance /\ TypeOK
  BY DEF EvaluateMiss, EvaluateHit, Inv
<1>2. stack \in Seq(Frame) /\ Len(stack) \in Nat \ {0}
  BY <1>1, LoopFacts DEF TypeOK
<1>3. /\ Len(stack') = Len(stack)
      /\ \A i \in 1 .. Len(stack) : stack'[i].rule = stack[i].rule
      /\ Len(stack) > 1 => stack'[1] = stack[1]
      /\ Len(stack) = 1 => stack'[1].next = Loop.next + 1
      /\ Parent(NextRule) = Loop.rule
  BY <1>1, AdvanceFacts
<1>4. ASSUME NEW i \in 2 .. Len(stack')
      PROVE  stack'[i].rule \in Rules /\ Parent(stack'[i].rule) = stack'[i - 1].rule
  <2>1. i \in 2 .. Len(stack) /\ i \in 1 .. Len(stack) /\ i - 1 \in 1 .. Len(stack)
    BY <1>2, <1>3
  <2>2. stack[i].rule \in Rules /\ Parent(stack[i].rule) = stack[i - 1].rule
    BY <1>1, <2>1 DEF Nested
  <2>3. QED
    BY <1>3, <2>1, <2>2
<1>5. Len(stack') > 1 => stack'[2].rule = OuterRule'
  BY <1>1, <1>2, <1>3 DEF Nested, OuterRule
<1>6. ASSUME pc' = "handle"
      PROVE  /\ Parent(rule') = stack'[Len(stack')].rule
             /\ Len(stack') = 1 => rule' = OuterRule'
  <2>1. rule' = NextRule
    BY <1>1, <1>6 DEF EvaluateMiss, EvaluateHit
  <2>2. Parent(rule') = stack'[Len(stack')].rule
    BY <1>2, <1>3, <2>1 DEF Loop
  <2>3. ASSUME Len(stack') = 1 PROVE rule' = OuterRule'
    <3>1. Loop = stack[1] /\ Loop.next \in Nat /\ Loop.rule = Root
      BY <1>1, <1>2, <1>3, <2>3, LoopFacts DEF Loop, TypeOK, StackOK, Frame
    <3>2. stack'[1].next - 1 = Loop.next
      BY <1>3, <2>3, <3>1
    <3>3. QED
      BY <2>1, <3>1, <3>2 DEF OuterRule, NextRule
  <2>4. QED
    BY <2>2, <2>3
<1>7. QED
  BY <1>4, <1>5, <1>6 DEF Nested, Parent

LEMMA ReturnNested == Inv /\ Nested /\ EvaluateReturn => Nested'
<1> SUFFICES ASSUME Inv, Nested, EvaluateReturn PROVE Nested'
  OBVIOUS
<1>1. /\ pc = "rules" /\ pc' = pc /\ Len(stack) > 1
      /\ stack' = SubSeq(stack, 1, Len(stack) - 1) /\ TypeOK
  BY DEF EvaluateReturn, Inv
<1>2. stack \in Seq(Frame) /\ Len(stack) \in Nat \ {0}
  BY <1>1, LoopFacts DEF TypeOK
<1>3. /\ Len(stack') = Len(stack) - 1
      /\ \A i \in 1 .. (Len(stack) - 1) : stack'[i] = stack[i]
  BY <1>1, <1>2
<1>4. ASSUME NEW i \in 2 .. Len(stack')
      PROVE  stack'[i].rule \in Rules /\ Parent(stack'[i].rule) = stack'[i - 1].rule
  <2>1. /\ i \in 2 .. Len(stack) /\ i \in 1 .. (Len(stack) - 1)
        /\ i - 1 \in 1 .. (Len(stack) - 1)
    BY <1>2, <1>3
  <2>2. stack[i].rule \in Rules /\ Parent(stack[i].rule) = stack[i - 1].rule
    BY <1>1, <2>1 DEF Nested
  <2>3. QED
    BY <1>3, <2>1, <2>2
<1>5. Len(stack') > 1 => stack'[2].rule = OuterRule'
  BY <1>1, <1>2, <1>3 DEF Nested, OuterRule
<1>6. QED
  BY <1>1, <1>4, <1>5 DEF Nested, Parent

LEMMA ContinueNested == Inv /\ Nested /\ pc = "handle" /\ Continue => Nested'
<1> SUFFICES ASSUME Inv, Nested, pc = "handle", Continue PROVE Nested'
  OBVIOUS
<1> DEFINE f == [rule |-> rule, next |-> 1]
<1>1. pc' = "rules" /\ stack' = Append(stack, f) /\ TypeOK /\ rule \in Rules
  BY DEF Continue, Inv, TypeOK
<1>2. stack \in Seq(Frame) /\ Len(stack) \in Nat \ {0}
  BY <1>1 DEF TypeOK
<1>3. f.rule = rule
  OBVIOUS
<1> HIDE DEF f
<1>4. /\ Len(stack') = Len(stack) + 1 /\ stack'[Len(stack) + 1].rule = rule
      /\ \A i \in 1 .. Len(stack) : stack'[i] = stack[i]
  BY <1>1, <1>2, <1>3
<1>5. ASSUME NEW i \in 2 .. Len(stack')
      PROVE  stack'[i].rule \in Rules /\ Parent(stack'[i].rule) = stack'[i - 1].rule
  <2>1. CASE i = Len(stack) + 1
    <3>1. i - 1 = Len(stack) /\ Len(stack) \in 1 .. Len(stack)
      BY <1>2, <2>1
    <3>2. Parent(rule) = stack[Len(stack)].rule
      BY DEF Nested
    <3>3. QED
      BY <1>1, <1>4, <2>1, <3>1, <3>2
  <2>2. CASE i # Len(stack) + 1
    <3>1. i \in 2 .. Len(stack) /\ i \in 1 .. Len(stack) /\ i - 1 \in 1 .. Len(stack)
      BY <1>2, <1>4, <2>2
    <3>2. stack[i].rule \in Rules /\ Parent(stack[i].rule) = stack[i - 1].rule
      BY <3>1 DEF Nested
    <3>3. QED
      BY <1>4, <3>1, <3>2
  <2>3. QED
    BY <2>1, <2>2
<1>6. stack'[2].rule = OuterRule'
  <2>1. stack'[1] = stack[1]
    BY <1>2, <1>4
  <2>2. CASE Len(stack) = 1
    <3>1. stack'[2].rule = rule
      BY <1>4, <2>2
    <3>2. QED
      BY <2>1, <2>2, <3>1 DEF Nested, OuterRule
  <2>3. CASE Len(stack) # 1
    <3>1. Len(stack) > 1 /\ 2 \in 1 .. Len(stack)
      BY <1>2, <2>3, Counting, Zenon
    <3>2. QED
      BY <1>4, <2>1, <3>1 DEF Nested, OuterRule
  <2>4. QED
    BY <2>2, <2>3
<1>7. QED
  BY <1>1, <1>5, <1>6 DEF Nested, Parent

\* What done() tells the backend: the rule that is handled lies within the
\* rule of state.rules that is evaluated.
LEMMA ToldOfWithin ==
    ASSUME Inv, Nested, pc = "handle"
    PROVE  /\ OuterRule \in Rules /\ Parent(OuterRule) = Root
           /\ Within(rule, OuterRule) /\ rule = hits[Len(hits)]
<1>1. /\ TypeOK /\ rule \in Rules /\ stack \in Seq(Frame) /\ stack # <<>>
      /\ Len(stack) \in Nat \ {0} /\ stack[1] \in Frame
  BY DEF Inv, TypeOK
<1>2. OuterRule \in Rules
  BY <1>1, OuterRuleType
<1>3. Parent(OuterRule) = Root
  <2>1. stack[1].next \in Nat /\ stack[1].next >= 2 /\ stack[1].next <= Len(Children[Root]) + 1
    BY <1>1 DEF TypeOK, StackOK, Frame
  <2>2. Children[Root] \in Seq(Rules)
    BY RuleEngineAssumption
  <2>3. stack[1].next - 1 \in DOMAIN Children[Root]
    BY <2>1, <2>2
  <2>4. QED
    BY <2>3, ParentOf DEF OuterRule
<1>4. Within(rule, OuterRule)
  <2>1. CASE Len(stack) = 1
    <3>1. rule = OuterRule
      BY <2>1 DEF Nested
    <3>2. {rule} \in SUBSET Rules /\ \A x \in {rule} \ {OuterRule} : Parent(x) \in {rule}
      BY <1>1, <3>1
    <3>3. QED
      BY <3>1, <3>2 DEF Within
  <2>2. CASE Len(stack) # 1
    <3> DEFINE S == {stack[i].rule : i \in 2 .. Len(stack)} \cup {rule}
    <3>1. /\ Len(stack) > 1 /\ 2 \in 2 .. Len(stack) /\ Len(stack) \in 2 .. Len(stack)
          /\ \A i \in 2 .. Len(stack) : i = 2 \/ i - 1 \in 2 .. Len(stack)
      BY <1>1, <2>2, Counting, Zenon
    <3>2. /\ \A i \in 2 .. Len(stack) : /\ stack[i].rule \in Rules
                                         /\ Parent(stack[i].rule) = stack[i - 1].rule
          /\ stack[2].rule = OuterRule /\ Parent(rule) = stack[Len(stack)].rule
      BY <3>1 DEF Nested
    <3>3. S \in SUBSET Rules /\ rule \in S /\ OuterRule \in S
      BY <1>1, <3>1, <3>2
    <3>4. ASSUME NEW x \in S, x # OuterRule PROVE Parent(x) \in S
      <4>1. CASE x = rule
        BY <3>1, <3>2, <4>1
      <4>2. CASE x # rule
        <5>1. PICK i \in 2 .. Len(stack) : x = stack[i].rule
          BY <4>2
        <5>2. i # 2
          BY <3>2, <3>4, <5>1
        <5>3. i - 1 \in 2 .. Len(stack) /\ Parent(x) = stack[i - 1].rule
          BY <3>1, <3>2, <5>1, <5>2
        <5>4. QED
          BY <5>3
      <4>3. QED
        BY <4>1, <4>2
    <3> HIDE DEF S
    <3>5. QED
      BY <3>3, <3>4 DEF Within
  <2>3. QED
    BY <2>1, <2>2
<1>5. rule = hits[Len(hits)]
  BY DEF Inv, HitsAdmit
<1>6. QED
  BY <1>2, <1>3, <1>4, <1>5

\* A handler hands the request over with done(), which tells the backend.
LEMMA TellsWho ==
    ASSUME Inv, Nested, pc = "handle", NEW b, Hand(b, ToldOf(b))
    PROVE  ToldWhoDecided'
<1>1. /\ OuterRule \in Rules /\ Parent(OuterRule) = Root
      /\ Within(rule, OuterRule) /\ rule = hits[Len(hits)]
  BY ToldOfWithin
<1>2. UNCHANGED <<handler, hits>> /\ told' = ToldOf(b) /\ backend' = b
  BY DEF Hand
<1>3. CASE b \in TransparentTo
  <2>1. told'.rule = rule /\ told'.action = Kind[handler[rule]] /\ told'.hash = rule
    BY <1>2, <1>3 DEF ToldOf
  <2>2. QED
    BY <1>1, <1>2, <1>3, <2>1 DEF ToldWhoDecided
<1>4. CASE b \notin TransparentTo
  <2>1. /\ told'.rule = OuterRule /\ told'.action = Kind[handler[OuterRule]]
        /\ told'.hash = rule
    BY <1>2, <1>4 DEF ToldOf
  <2>2. QED
    BY <1>1, <1>2, <1>4, <2>1 DEF ToldWhoDecided, Within, Parent
<1>5. QED
  BY <1>3, <1>4

LEMMA StepTold ==
    Inv /\ Nested /\ ToldWhoDecided /\ [Next]_vars => Nested' /\ ToldWhoDecided'
<1> SUFFICES ASSUME Inv, Nested, ToldWhoDecided, [Next]_vars PROVE Nested' /\ ToldWhoDecided'
  OBVIOUS
\* Nothing is told before the request is handed over, nor changed after.
<1>a. ASSUME backend' = backend, pc \in {"load", "start", "rules", "handle"} PROVE ToldWhoDecided'
  BY <1>a DEF ToldWhoDecided, Inv, Outcome, HandedLast
<1>b. ASSUME pc' \notin {"rules", "handle"} PROVE Nested'
  BY <1>b DEF Nested
<1>c. ASSUME backend' = backend, pc \in {"rules", "handle"}, pc' \in {"page", "ended"}
      PROVE  Nested' /\ ToldWhoDecided'
  BY <1>a, <1>b, <1>c
<1>d. ASSUME pc = "handle", UNCHANGED <<pc, stack, rule, backend>> PROVE Nested' /\ ToldWhoDecided'
  BY <1>a, <1>d DEF Nested, OuterRule, Parent
<1>e. ASSUME pc = "handle", NEW h, Jump(h) PROVE Nested' /\ ToldWhoDecided'
  BY <1>d, <1>e DEF Jump
<1>f. ASSUME pc = "handle", Continue PROVE Nested' /\ ToldWhoDecided'
  BY <1>a, <1>f, ContinueNested DEF Continue
<1>g. ASSUME pc = "handle", Passed PROVE Nested' /\ ToldWhoDecided'
  BY <1>e, <1>f, <1>g DEF Passed
<1>h. ASSUME pc \in {"rules", "handle"}, NEW lines, Ends(lines) PROVE Nested' /\ ToldWhoDecided'
  BY <1>c, <1>h DEF Ends
<1>i. ASSUME pc \in {"rules", "handle"}, NEW kind, Page(kind) PROVE Nested' /\ ToldWhoDecided'
  BY <1>c, <1>i DEF Page
<1>j. ASSUME UNCHANGED <<backend, told, hits, handler>> PROVE ToldWhoDecided'
  BY <1>j DEF ToldWhoDecided, Parent, Within
<1>1. CASE UNCHANGED vars
  <2>1. UNCHANGED <<pc, stack, rule, backend, told, hits, handler>>
    BY <1>1 DEF vars
  <2>2. Nested'
    BY <2>1 DEF Nested, OuterRule, Parent
  <2>3. QED
    BY <1>j, <2>1, <2>2
<1>2. CASE NewRuleState
  BY <1>2, <1>a DEF NewRuleState, Nested
<1>3. CASE HandleRequest
  <2>1. pc = "start" /\ backend' = backend
    BY <1>3 DEF HandleRequest
  <2>2. pc' = "ended" \/ (pc' = "rules" /\ stack' = <<[rule |-> Root, next |-> 1]>>)
    BY <1>3 DEF HandleRequest
  <2>3. QED
    BY <1>a, <2>1, <2>2 DEF Nested
<1>4. CASE Evaluate
  <2>1. CASE EvaluateMiss \/ EvaluateHit \/ EvaluateReturn
    <3>1. pc = "rules" /\ backend' = backend
      BY <2>1 DEF EvaluateMiss, EvaluateHit, EvaluateReturn
    <3>2. QED
      BY <1>a, <2>1, <3>1, EvaluateNested, ReturnNested
  <2>2. CASE EvaluateError
    BY <1>i, <2>2 DEF EvaluateError, Fails
  <2>3. CASE DefaultPass
    <3>1. pc = "rules" /\ getBackend # NoBackend
      BY <2>3, BackendOfHost DEF DefaultPass
    <3>2. told'.hash = NoRule /\ pc' = "backend"
      BY <2>3, <3>1 DEF DefaultPass, HandOver, Hand, ToldNothing
    <3>3. QED
      BY <1>b, <3>2 DEF ToldWhoDecided
  <2>4. QED
    BY <1>4, <2>1, <2>2, <2>3 DEF Evaluate
<1>5. CASE None \/ Context
  BY <1>5, <1>f DEF None, Context, Runs
<1>6. CASE Deciding
  <2>1. CASE Pass \/ Proxy
    <3>1. pc = "handle"
      BY <2>1 DEF Pass, Proxy, Runs
    <3>2. \E b : Hand(b, ToldOf(b))
      BY <2>1, <3>1, BackendOfHost DEF Pass, Proxy, HandOver
    <3>3. pc' = "backend"
      BY <3>2 DEF Hand
    <3>4. QED
      BY <1>b, <3>1, <3>2, <3>3, TellsWho
  <2>2. CASE ProxyError \/ Deny \/ Block \/ Code \/ Drop
    <3>1. pc = "handle" /\ ((\E lines : Ends(lines)) \/ (\E kind : Page(kind)))
      BY <2>2 DEF ProxyError, Deny, Block, Code, Drop, Fails, Runs
    <3>2. QED
      BY <1>h, <1>i, <3>1
  <2>3. QED
    BY <1>6, <2>1, <2>2 DEF Deciding
<1>7. CASE Finishing
  <2>1. /\ UNCHANGED <<backend, told, hits, handler>> /\ pc' \notin {"rules", "handle"}
    BY <1>7 DEF Finishing, WritePage, BackendInforms, BackendAnswers, BackendFails, Ends, Page
  <2>2. QED
    BY <1>b, <1>j, <2>1
<1>8. CASE ChallengeHandle
  <2>1. pc = "handle"
    BY <1>8 DEF ChallengeHandle, ChallengeValid, ChallengeNoneValid, ChallengeSkip,
           ChallengeIssue, ChallengeDefault, AtChallenge, Runs
  <2>2. CASE ChallengeValid
    BY <1>g, <2>1, <2>2 DEF ChallengeValid
  <2>3. CASE ChallengeNoneValid \/ ChallengeSkip
    BY <1>d, <2>1, <2>3 DEF ChallengeNoneValid, ChallengeSkip
  <2>4. CASE ChallengeIssue
    <3>1. \/ Passed \/ Jump(FailTo[run])
          \/ (\E lines : Ends(lines)) \/ (\E kind : Page(kind))
          \/ UNCHANGED <<pc, stack, rule, backend>>
      BY <2>4 DEF ChallengeIssue
    <3>2. QED
      BY <1>d, <1>e, <1>g, <1>h, <1>i, <2>1, <3>1
  <2>5. CASE ChallengeDefault
    BY <1>e, <2>1, <2>5 DEF ChallengeDefault
  <2>6. QED
    BY <1>8, <2>2, <2>3, <2>4, <2>5 DEF ChallengeHandle
<1>9. QED
  BY <1>1, <1>2, <1>3, <1>4, <1>5, <1>6, <1>7, <1>8 DEF Next

\* The backend is told the hash of the rule that was hit last, which decided,
\* and the name and action of the rule of state.rules it is nested in, however
\* deep the rules are nested; a transparent backend is told the name and
\* action of the rule that decided.
THEOREM DeciderTold == Spec => []ToldWhoDecided
<1>1. Init => Nested /\ ToldWhoDecided
  BY DEF Init, Nested, ToldWhoDecided
<1>2. QED
  BY <1>1, Invariance, StepTold, PTL DEF Spec

---------------------------------------------------------------------------
(* The order of the rules *)

\* A rule has one place.
LEMMA PlaceOf ==
    ASSUME NEW p \in Rules \cup {Root}, NEW i \in DOMAIN Children[p]
    PROVE  Place(Children[p][i]) = i
<1> DEFINE r == Children[p][i]
           P(x) == Children[p][x] = r
<1>1. Parent(r) = p
  BY ParentOf
<1>2. P(i)
  OBVIOUS
<1>3. \A x \in DOMAIN Children[p] : P(x) => x = i
  BY TreeAssumption
<1>4. Place(r) = CHOOSE x \in DOMAIN Children[p] : P(x)
  BY <1>1 DEF Place
<1> HIDE DEF P
<1>5. (CHOOSE x \in DOMAIN Children[p] : P(x)) = i
  BY <1>2, <1>3
<1>6. QED
  BY <1>4, <1>5

\* The loops that run belong to different rules, which were hit, and each is
\* past every rule of its list that was hit.
LoopsPast ==
    /\ \A i \in 2 .. Len(stack) : \E k \in DOMAIN hits : hits[k] = stack[i].rule
    /\ \A i, j \in 1 .. Len(stack) : stack[i].rule = stack[j].rule => i = j
    /\ \A i \in 1 .. Len(stack) : \A k \in DOMAIN hits :
          Parent(hits[k]) = stack[i].rule => Place(hits[k]) < stack[i].next

\* Of the rule that is handled, no nested one was hit and no loop runs yet.
RuleFresh ==
    /\ \A i \in 1 .. Len(stack) : stack[i].rule # rule
    /\ \A k \in DOMAIN hits : Parent(hits[k]) # rule

Ordered ==
    /\ RulesInOrder
    /\ \A k \in DOMAIN hits : Place(hits[k]) \in Nat
    /\ pc \in {"rules", "handle"} => LoopsPast
    /\ pc = "handle" => RuleFresh

\* The next rule of the innermost loop was not hit, and neither was a rule
\* nested in it.
LEMMA NextRuleNew ==
    ASSUME Inv, Ordered, pc = "rules", ~LoopEnded
    PROVE  /\ Parent(NextRule) = Loop.rule /\ Place(NextRule) = Loop.next
           /\ \A k \in DOMAIN hits : hits[k] # NextRule /\ Parent(hits[k]) # NextRule
           /\ \A i \in 1 .. Len(stack) : stack[i].rule # NextRule
<1>1. /\ stack \in Seq(Frame) /\ Len(stack) \in Nat \ {0} /\ Loop \in Frame /\ NextRule \in Rules
      /\ stack[1].rule = Root /\ hits \in Seq(Rules)
  BY LoopFacts DEF Inv, TypeOK, StackOK
<1>2. Loop.rule \in Rules \cup {Root} /\ Loop.next \in Nat \ {0}
  BY <1>1 DEF Frame
<1>3. Children[Loop.rule] \in Seq(Rules)
  BY <1>2, RuleEngineAssumption
<1>4. Loop.next \in DOMAIN Children[Loop.rule]
  BY <1>2, <1>3 DEF LoopEnded
<1>5. Parent(NextRule) = Loop.rule /\ Place(NextRule) = Loop.next
  BY <1>2, <1>4, ParentOf, PlaceOf DEF NextRule
<1>6. ASSUME NEW k \in DOMAIN hits PROVE hits[k] # NextRule
  <2>1. SUFFICES ASSUME hits[k] = NextRule PROVE FALSE
    OBVIOUS
  <2>2. Loop = stack[Len(stack)] /\ Len(stack) \in 1 .. Len(stack) /\ LoopsPast
    BY <1>1 DEF Loop, Ordered
  <2>3. Place(NextRule) < Loop.next
    BY <1>5, <2>1, <2>2 DEF LoopsPast
  <2>4. QED
    BY <1>2, <1>5, <2>3
<1>7. ASSUME NEW i \in 1 .. Len(stack) PROVE stack[i].rule # NextRule
  <2>1. CASE i = 1
    BY <1>1, <2>1, RuleEngineAssumption
  <2>2. CASE i # 1
    <3>1. i \in 2 .. Len(stack)
      BY <1>1, <2>2
    <3>2. \E k \in DOMAIN hits : hits[k] = stack[i].rule
      BY <3>1 DEF Ordered, LoopsPast
    <3>3. QED
      BY <1>6, <3>2
  <2>3. QED
    BY <2>1, <2>2
<1>8. ASSUME NEW k \in DOMAIN hits PROVE Parent(hits[k]) # NextRule
  <2>1. Parent(hits[k]) = Root \/ \E i \in 1 .. (k - 1) : hits[i] = Parent(hits[k])
    BY DEF Ordered, RulesInOrder
  <2>2. \A i \in 1 .. (k - 1) : i \in DOMAIN hits
    BY <1>1
  <2>3. QED
    BY <1>1, <1>6, <2>1, <2>2, RuleEngineAssumption
<1>9. QED
  BY <1>5, <1>6, <1>7, <1>8

\* The innermost loop moves on past the rules it is at.
LEMMA AdvancePast ==
    ASSUME Inv, Ordered, pc = "rules", ~LoopEnded, stack' = Advance
    PROVE  /\ Len(stack') = Len(stack)
           /\ \A i \in 1 .. Len(stack) : stack'[i].rule = stack[i].rule
           /\ \A i \in 1 .. Len(stack) : \A k \in DOMAIN hits :
                 Parent(hits[k]) = stack[i].rule => Place(hits[k]) < stack'[i].next
           /\ stack'[Len(stack)].next = Loop.next + 1
<1>1. /\ Len(stack') = Len(stack)
      /\ \A i \in 1 .. Len(stack) : stack'[i].rule = stack[i].rule
      /\ \A i \in 1 .. Len(stack) : i # Len(stack) => stack'[i].next = stack[i].next
      /\ stack'[Len(stack)].next = Loop.next + 1 /\ Loop.next \in Nat
  BY AdvanceFacts DEF Inv
<1>2. ASSUME NEW i \in 1 .. Len(stack), NEW k \in DOMAIN hits, Parent(hits[k]) = stack[i].rule
      PROVE  Place(hits[k]) < stack'[i].next
  <2>1. Place(hits[k]) \in Nat /\ Place(hits[k]) < stack[i].next
    BY <1>2 DEF Ordered, LoopsPast
  <2>2. CASE i = Len(stack)
    <3>1. stack[i] = Loop
      BY <2>2 DEF Loop
    <3>2. QED
      BY <1>1, <2>1, <2>2, <3>1
  <2>3. CASE i # Len(stack)
    BY <1>1, <2>1, <2>3
  <2>4. QED
    BY <2>2, <2>3
<1>3. QED
  BY <1>1, <1>2

\* What is said of the rules that were hit does not change with them.
LEMMA SameHits ==
    ASSUME Ordered, hits' = hits
    PROVE  RulesInOrder' /\ \A k \in DOMAIN hits' : Place(hits'[k]) \in Nat
<1>1. /\ \A j \in DOMAIN hits' :
            /\ Parent(hits'[j]) = Root \/ \E i \in 1 .. (j - 1) : hits'[i] = Parent(hits'[j])
            /\ \A i \in 1 .. (j - 1) :
                  Parent(hits'[i]) = Parent(hits'[j]) => Place(hits'[i]) < Place(hits'[j])
      /\ \A k \in DOMAIN hits' : Place(hits'[k]) \in Nat
  BY Zenon DEF Ordered, RulesInOrder
<1>2. QED
  BY <1>1 DEF RulesInOrder, Parent, Place

LEMMA MissOrdered == Inv /\ Ordered /\ EvaluateMiss => Ordered'
<1> SUFFICES ASSUME Inv, Ordered, EvaluateMiss PROVE Ordered'
  OBVIOUS
<1>1. pc = "rules" /\ pc' = "rules" /\ ~LoopEnded /\ stack' = Advance /\ hits' = hits
  BY DEF EvaluateMiss
<1>2. LoopsPast
  BY <1>1 DEF Ordered
<1>3. LoopsPast'
  <2>1. stack \in Seq(Frame) /\ Len(stack) \in Nat
    BY DEF Inv, TypeOK
  <2>2. \A i \in 2 .. Len(stack) : i \in 1 .. Len(stack)
    BY <2>1
  <2>3. \A i \in 2 .. Len(stack') : \E k \in DOMAIN hits' : hits'[k] = stack'[i].rule
    BY <1>1, <1>2, <2>2, AdvancePast DEF LoopsPast
  <2>4. \A i, j \in 1 .. Len(stack') : stack'[i].rule = stack'[j].rule => i = j
    BY <1>1, <1>2, AdvancePast DEF LoopsPast
  <2>5. \A i \in 1 .. Len(stack') : \A k \in DOMAIN hits' :
          Parent(hits'[k]) = stack'[i].rule => Place(hits'[k]) < stack'[i].next
    BY <1>1, AdvancePast
  <2>6. QED
    BY <2>3, <2>4, <2>5 DEF LoopsPast, Parent, Place
<1>4. QED
  BY <1>1, <1>3, SameHits DEF Ordered, Place, Parent

LEMMA HitOrdered == Inv /\ Ordered /\ EvaluateHit => Ordered'
<1> SUFFICES ASSUME Inv, Ordered, EvaluateHit PROVE Ordered'
  OBVIOUS
<1>1. /\ pc = "rules" /\ pc' = "handle" /\ ~LoopEnded /\ stack' = Advance
      /\ hits' = Append(hits, NextRule) /\ rule' = NextRule
  BY DEF EvaluateHit
<1>2. /\ stack \in Seq(Frame) /\ Len(stack) \in Nat \ {0} /\ hits \in Seq(Rules)
      /\ NextRule \in Rules /\ stack[1].rule = Root /\ Loop = stack[Len(stack)]
      /\ Loop \in Frame /\ Loop.next \in Nat
  BY <1>1, LoopFacts DEF Inv, TypeOK, StackOK, Loop, Frame
<1> DEFINE n == Len(hits) + 1
<1>3. /\ n \in Nat \ {0} /\ DOMAIN hits' = 1 .. n /\ DOMAIN hits = 1 .. (n - 1)
      /\ hits'[n] = NextRule /\ \A k \in 1 .. (n - 1) : hits'[k] = hits[k]
  BY <1>1, <1>2
<1> HIDE DEF n
<1>4. \A k \in 1 .. n : k = n \/ (k \in DOMAIN hits /\ 1 .. (k - 1) \subseteq DOMAIN hits)
  BY <1>3
<1>5. LoopsPast
  BY <1>1 DEF Ordered
<1>6. /\ Parent(NextRule) = Loop.rule /\ Place(NextRule) = Loop.next
      /\ \A k \in DOMAIN hits : hits[k] # NextRule /\ Parent(hits[k]) # NextRule
      /\ \A i \in 1 .. Len(stack) : stack[i].rule # NextRule
  BY <1>1, NextRuleNew
<1>7. /\ Len(stack') = Len(stack)
      /\ \A i \in 1 .. Len(stack) : stack'[i].rule = stack[i].rule
      /\ \A i \in 1 .. Len(stack) : \A k \in DOMAIN hits :
            Parent(hits[k]) = stack[i].rule => Place(hits[k]) < stack'[i].next
      /\ stack'[Len(stack)].next = Loop.next + 1
  BY <1>1, AdvancePast
<1>8. ASSUME NEW k \in DOMAIN hits'
      PROVE  /\ Place(hits'[k]) \in Nat
             /\ Parent(hits'[k]) = Root \/ \E i \in 1 .. (k - 1) : hits'[i] = Parent(hits'[k])
             /\ \A i \in 1 .. (k - 1) :
                   Parent(hits'[i]) = Parent(hits'[k]) => Place(hits'[i]) < Place(hits'[k])
  <2>1. CASE k = n
    <3>1. Parent(NextRule) = Root \/ \E i \in DOMAIN hits : hits[i] = Parent(NextRule)
      <4>1. CASE Len(stack) = 1
        BY <1>2, <1>6, <4>1
      <4>2. CASE Len(stack) # 1
        <5>1. Len(stack) \in 2 .. Len(stack)
          BY <1>2, <4>2, Counting, Zenon
        <5>2. QED
          BY <1>2, <1>5, <1>6, <5>1 DEF LoopsPast
      <4>3. QED
        BY <4>1, <4>2
    <3>2. Len(stack) \in 1 .. Len(stack)
      BY <1>2
    <3>3. \A i \in DOMAIN hits : Parent(hits[i]) = Parent(NextRule) => Place(hits[i]) < Place(NextRule)
      BY <1>2, <1>5, <1>6, <3>2 DEF LoopsPast
    <3>4. QED
      BY <1>2, <1>3, <1>6, <2>1, <3>1, <3>3
  <2>2. CASE k # n
    <3>1. k \in DOMAIN hits /\ 1 .. (k - 1) \subseteq DOMAIN hits
      BY <1>3, <1>4, <2>2
    <3>2. /\ Place(hits[k]) \in Nat
          /\ Parent(hits[k]) = Root \/ \E i \in 1 .. (k - 1) : hits[i] = Parent(hits[k])
          /\ \A i \in 1 .. (k - 1) :
                Parent(hits[i]) = Parent(hits[k]) => Place(hits[i]) < Place(hits[k])
      BY <3>1 DEF Ordered, RulesInOrder
    <3>3. hits'[k] = hits[k] /\ \A i \in 1 .. (k - 1) : hits'[i] = hits[i]
      BY <1>3, <3>1
    <3>4. QED
      BY <3>2, <3>3
  <2>3. QED
    BY <2>1, <2>2
<1>9. RulesInOrder' /\ \A k \in DOMAIN hits' : Place(hits'[k]) \in Nat
  BY <1>8 DEF RulesInOrder, Parent, Place
<1>10. LoopsPast'
  <2>1. ASSUME NEW i \in 2 .. Len(stack')
        PROVE  \E k \in DOMAIN hits' : hits'[k] = stack'[i].rule
    <3>1. i \in 2 .. Len(stack) /\ i \in 1 .. Len(stack)
      BY <1>2, <1>7
    <3>2. PICK k \in DOMAIN hits : hits[k] = stack[i].rule
      BY <1>5, <3>1 DEF LoopsPast
    <3>3. k \in DOMAIN hits' /\ hits'[k] = hits[k]
      BY <1>3, <3>2
    <3>4. QED
      BY <1>7, <3>1, <3>2, <3>3
  <2>2. \A i, j \in 1 .. Len(stack') : stack'[i].rule = stack'[j].rule => i = j
    BY <1>5, <1>7 DEF LoopsPast
  <2>3. ASSUME NEW i \in 1 .. Len(stack'), NEW k \in DOMAIN hits',
               Parent(hits'[k]) = stack'[i].rule
        PROVE  Place(hits'[k]) < stack'[i].next
    <3>0. i \in 1 .. Len(stack) /\ Len(stack) \in 1 .. Len(stack)
      BY <1>2, <1>7
    <3>1. CASE k = n
      <4>1. stack[Len(stack)].rule = stack[i].rule
        BY <1>2, <1>3, <1>6, <1>7, <2>3, <3>0, <3>1
      <4>2. i = Len(stack)
        BY <1>5, <3>0, <4>1 DEF LoopsPast
      <4>3. QED
        BY <1>2, <1>3, <1>6, <1>7, <3>1, <4>2
    <3>2. CASE k # n
      <4>1. k \in DOMAIN hits /\ hits'[k] = hits[k]
        BY <1>3, <1>4, <3>2
      <4>2. QED
        BY <1>7, <2>3, <3>0, <4>1
    <3>3. QED
      BY <3>1, <3>2
  <2>4. QED
    BY <2>1, <2>2, <2>3 DEF LoopsPast, Parent, Place
<1>11. RuleFresh'
  <2>1. \A i \in 1 .. Len(stack') : stack'[i].rule # rule'
    BY <1>1, <1>6, <1>7
  <2>2. ASSUME NEW k \in DOMAIN hits' PROVE Parent(hits'[k]) # rule'
    <3>1. CASE k = n
      <4>1. Len(stack) \in 1 .. Len(stack)
        BY <1>2
      <4>2. QED
        BY <1>1, <1>2, <1>3, <1>6, <3>1, <4>1
    <3>2. CASE k # n
      BY <1>1, <1>3, <1>4, <1>6, <3>2
    <3>3. QED
      BY <3>1, <3>2
  <2>3. QED
    BY <2>1, <2>2 DEF RuleFresh, Parent
<1>12. QED
  BY <1>1, <1>9, <1>10, <1>11 DEF Ordered, Place, Parent

LEMMA ReturnOrdered == Inv /\ Ordered /\ EvaluateReturn => Ordered'
<1> SUFFICES ASSUME Inv, Ordered, EvaluateReturn PROVE Ordered'
  OBVIOUS
<1>1. /\ pc = "rules" /\ pc' = "rules" /\ Len(stack) > 1 /\ hits' = hits
      /\ stack' = SubSeq(stack, 1, Len(stack) - 1)
  BY DEF EvaluateReturn
<1>2. stack \in Seq(Frame) /\ Len(stack) \in Nat
  BY DEF Inv, TypeOK
<1>3. /\ Len(stack') = Len(stack) - 1
      /\ \A i \in 1 .. (Len(stack) - 1) : stack'[i] = stack[i] /\ i \in 1 .. Len(stack)
      /\ \A i \in 2 .. (Len(stack) - 1) : stack'[i] = stack[i] /\ i \in 2 .. Len(stack)
  BY <1>1, <1>2
<1>4. LoopsPast'
  <2>1. LoopsPast
    BY <1>1 DEF Ordered
  <2>2. /\ \A i \in 2 .. Len(stack') : \E k \in DOMAIN hits' : hits'[k] = stack'[i].rule
        /\ \A i, j \in 1 .. Len(stack') : stack'[i].rule = stack'[j].rule => i = j
    BY <1>1, <1>3, <2>1 DEF LoopsPast
  <2>3. \A i \in 1 .. Len(stack') : \A k \in DOMAIN hits' :
          Parent(hits'[k]) = stack'[i].rule => Place(hits'[k]) < stack'[i].next
    BY <1>1, <1>3, <2>1 DEF LoopsPast
  <2>4. QED
    BY <2>2, <2>3 DEF LoopsPast, Parent, Place
<1>5. QED
  BY <1>1, <1>4, SameHits DEF Ordered, Place, Parent

\* The children of the rule that is handled come next.
LEMMA ContinueOrdered == Inv /\ Ordered /\ pc = "handle" /\ Continue => Ordered'
<1> SUFFICES ASSUME Inv, Ordered, pc = "handle", Continue PROVE Ordered'
  OBVIOUS
<1> DEFINE f == [rule |-> rule, next |-> 1]
<1>1. pc' = "rules" /\ stack' = Append(stack, f) /\ hits' = hits
  BY DEF Continue
<1>2. f.rule = rule
  OBVIOUS
<1> HIDE DEF f
<1>3. /\ stack \in Seq(Frame) /\ Len(stack) \in Nat /\ hits \in Seq(Rules)
      /\ hits # <<>> /\ hits[Len(hits)] = rule
  BY DEF Inv, TypeOK, HitsAdmit
<1>4. /\ Len(stack') = Len(stack) + 1 /\ stack'[Len(stack) + 1].rule = rule
      /\ \A i \in 1 .. Len(stack) : stack'[i] = stack[i]
  BY <1>1, <1>2, <1>3
<1>5. /\ \A i \in 1 .. Len(stack') : i = Len(stack') \/ i \in 1 .. Len(stack)
      /\ \A i \in 2 .. Len(stack') : i = Len(stack') \/ (i \in 2 .. Len(stack) /\ i \in 1 .. Len(stack))
  BY <1>3, <1>4
<1>6. LoopsPast /\ RuleFresh
  BY DEF Ordered
<1>7. LoopsPast'
  <2>1. Len(hits) \in DOMAIN hits
    BY <1>3
  <2>2. \A i \in 2 .. Len(stack') : \E k \in DOMAIN hits' : hits'[k] = stack'[i].rule
    BY <1>1, <1>3, <1>4, <1>5, <1>6, <2>1 DEF LoopsPast
  <2>3. \A i, j \in 1 .. Len(stack') : stack'[i].rule = stack'[j].rule => i = j
    BY <1>4, <1>5, <1>6 DEF LoopsPast, RuleFresh
  <2>4. \A i \in 1 .. Len(stack') : \A k \in DOMAIN hits' :
          Parent(hits'[k]) = stack'[i].rule => Place(hits'[k]) < stack'[i].next
    BY <1>1, <1>4, <1>5, <1>6 DEF LoopsPast, RuleFresh
  <2>5. QED
    BY <2>2, <2>3, <2>4 DEF LoopsPast, Parent, Place
<1>8. QED
  BY <1>1, <1>7, SameHits DEF Ordered, Place, Parent

LEMMA StepOrdered == Inv /\ Ordered /\ [Next]_vars => Ordered'
<1> SUFFICES ASSUME Inv, Ordered, [Next]_vars PROVE Ordered'
  OBVIOUS
<1>a. ASSUME hits' = hits, pc' \notin {"rules", "handle"} PROVE Ordered'
  BY <1>a, SameHits DEF Ordered, Place, Parent
<1>b. ASSUME UNCHANGED <<pc, stack, rule, hits>> PROVE Ordered'
  <2>1. ASSUME LoopsPast PROVE LoopsPast'
    <3>1. /\ \A i \in 2 .. Len(stack') : \E k \in DOMAIN hits' : hits'[k] = stack'[i].rule
          /\ \A i, j \in 1 .. Len(stack') : stack'[i].rule = stack'[j].rule => i = j
          /\ \A i \in 1 .. Len(stack') : \A k \in DOMAIN hits' :
                Parent(hits'[k]) = stack'[i].rule => Place(hits'[k]) < stack'[i].next
      BY <1>b, <2>1, Zenon DEF LoopsPast
    <3>2. QED
      BY <3>1 DEF LoopsPast, Parent, Place
  <2>2. ASSUME RuleFresh PROVE RuleFresh'
    <3>1. /\ \A i \in 1 .. Len(stack') : stack'[i].rule # rule'
          /\ \A k \in DOMAIN hits' : Parent(hits'[k]) # rule'
      BY <1>b, <2>2, Zenon DEF RuleFresh
    <3>2. QED
      BY <3>1 DEF RuleFresh, Parent
  <2>3. QED
    BY <1>b, <2>1, <2>2, SameHits DEF Ordered, Place, Parent
<1>c. ASSUME pc = "handle", NEW h, Jump(h) PROVE Ordered'
  BY <1>b, <1>c DEF Jump
<1>d. ASSUME pc = "handle", Passed PROVE Ordered'
  BY <1>c, <1>d, ContinueOrdered DEF Passed
<1>1. CASE UNCHANGED vars
  BY <1>1, <1>b DEF vars
<1>2. CASE NewRuleState
  BY <1>2, <1>a DEF NewRuleState
<1>3. CASE HandleRequest
  <2>1. /\ pc = "start" /\ hits' = hits
        /\ pc' = "ended" \/ (pc' = "rules" /\ stack' = <<[rule |-> Root, next |-> 1]>>)
    BY <1>3 DEF HandleRequest
  <2>2. CASE pc' = "rules"
    <3>1. hits' = <<>>
      BY <2>1 DEF Inv, HitsAdmit
    <3>2. Len(stack') = 1
      BY <2>1, <2>2
    <3>3. LoopsPast'
      <4>1. DOMAIN hits' = {} /\ 2 .. Len(stack') = {} /\ 1 .. Len(stack') = {1}
        BY <3>1, <3>2
      <4>2. QED
        BY <4>1 DEF LoopsPast
    <3>4. QED
      BY <2>1, <2>2, <3>3, SameHits DEF Ordered, Place, Parent
  <2>3. QED
    BY <1>a, <2>1, <2>2
<1>4. CASE Evaluate
  <2>1. CASE EvaluateError \/ DefaultPass
    BY <1>a, <2>1 DEF EvaluateError, Fails, Page, DefaultPass, HandOver, Ends, Hand
  <2>2. QED
    BY <1>4, <2>1, MissOrdered, HitOrdered, ReturnOrdered DEF Evaluate
<1>5. CASE None \/ Context
  BY <1>5, ContinueOrdered DEF None, Context, Runs
<1>6. CASE Deciding
  BY <1>6, <1>a DEF Deciding, Pass, Proxy, ProxyError, Deny, Block, Code, Drop, HandOver, Hand,
                    Fails, Page, Ends
<1>7. CASE Finishing
  BY <1>7, <1>a DEF Finishing, WritePage, BackendInforms, BackendAnswers, BackendFails, Ends, Page
<1>8. CASE ChallengeHandle
  <2>1. pc = "handle"
    BY <1>8 DEF ChallengeHandle, ChallengeValid, ChallengeNoneValid, ChallengeSkip,
           ChallengeIssue, ChallengeDefault, AtChallenge, Runs
  <2>2. CASE ChallengeIssue
    <3>1. \/ Passed \/ Jump(FailTo[run])
          \/ (\E lines : Ends(lines)) \/ (\E kind : Page(kind))
          \/ UNCHANGED <<pc, stack, rule, hits>>
      BY <2>2 DEF ChallengeIssue
    <3>2. QED
      BY <1>a, <1>b, <1>c, <1>d, <2>1, <3>1 DEF Ends, Page
  <2>3. QED
    BY <1>8, <1>b, <1>c, <1>d, <2>1, <2>2
    DEF ChallengeHandle, ChallengeValid, ChallengeNoneValid, ChallengeSkip, ChallengeDefault
<1>9. QED
  BY <1>1, <1>2, <1>3, <1>4, <1>5, <1>6, <1>7, <1>8 DEF Next

\* For any tree of rules, Evaluate hits them in the order of the policy: a
\* nested rule after its parent, siblings in turn, none twice.
THEOREM PolicyOrder == Spec => []RulesInOrder
<1>1. Init => Ordered
  BY DEF Init, Ordered, RulesInOrder
<1>2. Ordered => RulesInOrder
  BY DEF Ordered
<1>3. QED
  BY <1>1, <1>2, Invariance, StepOrdered, PTL DEF Spec
===========================================================================
