------------------------------ MODULE Service ------------------------------
(***************************************************************************)
(* Requests inside the States that Reload swaps and closes.  A request     *)
(* keeps the State it loaded from the handler pointer; its proof of work   *)
(* is verified by the State's WebAssembly runtime, whose instances share   *)
(* one name and whose verifications share one error variable; a backend    *)
(* that fails calls the ErrorHandler the first State has installed.  Close *)
(* goes through the objects of a State one by one.                         *)
(***************************************************************************)
EXTENDS Reload

CONSTANT Requests

VARIABLES
    objects,      \* objects[s][o]: "none", "open" or "closed"
    closing,      \* inside oldHandler.Close(): "no", "begun" or "failed"
    request,      \* request[r]: where r is
    err,          \* err[s]: the error variable of the State's js registration is set
    errorHandler, \* the State whose ErrorHandler the backends call, or Nil
    dropped,      \* the States main forgot when a reload failed (history)
    unclosed      \* the States whose Close stopped at an error (history)

serviceVars == <<objects, closing, request, err, errorHandler, dropped, unclosed>>
allVars == <<vars, serviceVars>>

\* The tag cache's ticker and the Objects of the challenges: the runner of js
\* and the ticker of dnsbl.  Only the runner's Close can fail.
Runtimes == {"js", "dnsbl"}
Objects == Runtimes \cup {"tags"}
NoObjects == [o \in Objects |-> "none"]

\* What runs the module: make-challenge, and the verification of a proof that
\* solves the challenge or does not.
Kinds == {"make", "proof", "forged"}

\* lone: no other run of the module in the State, and no Close of it, since
\* the verification of a proof began (history).
Request == [at : {"out", "in", "run", "ended", "assigned"},
            state : StateIds \cup {Nil, Direct}, kind : Kinds \cup {"none"},
            own : {"none", "ok", "fail", "error"}, lone : BOOLEAN,
            answer : {"none", "ok", "fail", "error", "backend", "error page", "panic"}]

NoRequest == [at |-> "out", state |-> Nil, kind |-> "none", own |-> "none",
              lone |-> FALSE, answer |-> "none"]

\* From Instantiate to the decision.
InModule(r) == request[r].at \in {"run", "ended", "assigned"}

ServiceInit ==
    /\ Init
    /\ objects = [s \in StateIds |-> NoObjects]
    /\ closing = "no"
    /\ request = [r \in Requests |-> NoRequest]
    /\ err = [s \in StateIds |-> FALSE]
    /\ errorHandler = Nil
    /\ dropped = {} /\ unclosed = {}

---------------------------------------------------------------------------
(* The loading goroutine, with the objects of the States *)

\* Mutation: every State installs its own ErrorHandler.
InstallAlways(s) == errorHandler' = s

\* A backend without an ErrorHandler gets one, early in NewState.
Install(s) == errorHandler' = IF errorHandler = Nil THEN s ELSE errorHandler

\* NewState makes the challenges in any order, then the rules, and the tag
\* cache last; what there is when it fails stays.
MakeObjects(s) ==
    \E made \in SUBSET Objects :
        /\ states'[s].built => made = Objects
        /\ ~states'[s].built => "tags" \notin made
        /\ states'[s].open = (made # {})
        /\ objects' = [objects EXCEPT ![s] =
               [o \in Objects |-> IF o \in made THEN "open" ELSE "none"]]

\* main's handler variable is overwritten with the nil of a failed reload.
Drops == dropped' = IF proc = "running" /\ handler' = Nil THEN dropped \cup ({handler} \ {Nil})
                                                         ELSE dropped

BuildState ==
    /\ NewState \/ NewStateHangs
    /\ Install(loads + 1) /\ MakeObjects(loads + 1) /\ Drops
    /\ UNCHANGED <<closing, request, err, unclosed>>

ReadFile ==
    /\ ReadPolicy
    /\ Drops
    /\ UNCHANGED <<objects, closing, request, err, errorHandler, unclosed>>

\* Mutation: the old State is closed before the new one is swapped in.
CloseChannelEarly ==
    /\ proc = "running" /\ loop \in {"swap", "close"} /\ oldHandler # Nil /\ closing = "no"
    /\ closing' = "begun"
    /\ objects' = [objects EXCEPT ![oldHandler]["tags"] = "closed"]
    /\ UNCHANGED <<vars, request, err, errorHandler, dropped, unclosed>>

\* Close: the channel first, which ends the ticker of the tag cache.
CloseChannel ==
    /\ proc = "running" /\ loop = "close" /\ oldHandler # Nil /\ closing = "no"
    /\ closing' = "begun"
    /\ objects' = [objects EXCEPT ![oldHandler]["tags"] = "closed"]
    /\ UNCHANGED <<vars, request, err, errorHandler, dropped, unclosed>>

\* The next challenge's Object, in the order of a map.
CloseObject(o) ==
    /\ loop = "close" /\ closing = "begun" /\ o \in Runtimes
    /\ objects[oldHandler][o] = "open"
    /\ objects' = [objects EXCEPT ![oldHandler][o] = "closed"]
    /\ request' = [r \in Requests |->
           [request[r] EXCEPT !.lone = @ /\ ~(o = "js" /\ request[r].state = oldHandler)]]
    /\ UNCHANGED <<vars, closing, err, errorHandler, dropped, unclosed>>

\* The runner fails to close its module or its runtime: Close returns.
CloseFails ==
    /\ loop = "close" /\ closing = "begun" /\ objects[oldHandler]["js"] = "open"
    /\ closing' = "failed"
    /\ unclosed' = unclosed \cup {oldHandler}
    /\ UNCHANGED <<vars, objects, request, err, errorHandler, dropped>>

\* Mutation: Close returns after the first Object.
CloseReturnsEarly ==
    /\ CloseOld
    /\ oldHandler # Nil /\ closing # "failed" =>
          /\ closing = "begun"
          /\ \E o \in Runtimes : objects[oldHandler][o] = "closed"
    /\ closing' = "no"
    /\ UNCHANGED <<objects, request, err, errorHandler, dropped, unclosed>>

CloseReturns ==
    /\ CloseOld
    /\ oldHandler # Nil /\ closing # "failed" =>
          /\ closing = "begun"
          /\ \A o \in Runtimes : objects[oldHandler][o] # "open"
    /\ closing' = "no"
    /\ UNCHANGED <<objects, request, err, errorHandler, dropped, unclosed>>

ServiceLoader ==
    \/ BuildState \/ ReadFile
    \/ (TakeSignal \/ Swap \/ Notify) /\ UNCHANGED serviceVars
    \/ CloseChannel \/ CloseFails \/ CloseReturns
    \/ \E o \in Objects : CloseObject(o)

---------------------------------------------------------------------------
(* Requests *)

Step(r, f) == request' = [request EXCEPT ![r] = f]

Answer(r, answer) == Step(r, [NoRequest EXCEPT !.answer = answer])

\* The connection loads the pointer; without a handler it is answered with 502.
Enter(r) ==
    /\ proc # "dead" /\ request[r].at = "out" /\ pointer # Nil
    /\ Step(r, [NoRequest EXCEPT !.at = "in", !.state = pointer])
    /\ UNCHANGED <<vars, objects, closing, err, errorHandler, dropped, unclosed>>

\* The other requests that run the module of the State r is in.
Others(r) == {q \in Requests \ {r} : InModule(q) /\ request[q].state = request[r].state}

\* Instantiate is refused by a runtime that is closed, and by one that has an
\* instance, since all of them are named "runtime".
Refused(r) == \/ objects[request[r].state]["js"] # "open"
              \/ \E q \in Others(r) : request[q].at = "run"

Instantiate(r, kind) ==
    /\ proc # "dead" /\ request[r].at = "in" /\ request[r].state # Direct
    /\ kind = "make" => ~Refused(r)
    /\ LET begun == [request[r] EXCEPT
               !.kind = kind,
               !.at = IF Refused(r) THEN "ended" ELSE "run",
               !.own = IF Refused(r) THEN "error" ELSE "none",
               !.lone = kind = "proof" /\ Others(r) = {} /\ objects[request[r].state]["js"] = "open"]
       IN request' = [q \in Requests |->
              CASE q = r -> begun
                [] q \in Others(r) -> [request[q] EXCEPT !.lone = FALSE]
                [] OTHER -> request[q]]
    /\ UNCHANGED <<vars, objects, closing, err, errorHandler, dropped, unclosed>>

\* What the module says to a proof.  A call during which the runtime was
\* closed may also fail.
Outcomes(r) == (IF request[r].kind = "forged" THEN {"fail", "error"} ELSE {"ok"})
               \cup (IF objects[request[r].state]["js"] = "open" THEN {} ELSE {"error"})

\* Verify: the call returns and the instance is closed.
EndRun(r) ==
    /\ proc # "dead" /\ request[r].at = "run" /\ request[r].kind # "make"
    /\ \E own \in Outcomes(r) : Step(r, [request[r] EXCEPT !.at = "ended", !.own = own])
    /\ UNCHANGED <<vars, objects, closing, err, errorHandler, dropped, unclosed>>

\* make-challenge, which has an error variable of its own: it is refused the
\* instance, or answers from it.
MakeChallenge(r) ==
    /\ proc # "dead"
    /\ \/ /\ request[r].at = "in" /\ request[r].state # Direct /\ Refused(r)
          /\ Answer(r, "error")
       \/ /\ request[r].at = "run" /\ request[r].kind = "make"
          /\ \E own \in Outcomes(r) : Answer(r, own)
    /\ UNCHANGED <<vars, objects, closing, err, errorHandler, dropped, unclosed>>

\* Mutation: an error that was met is kept.
AssignFailures(r) ==
    /\ proc # "dead" /\ request[r].at = "ended"
    /\ err' = [err EXCEPT ![request[r].state] = @ \/ request[r].own = "error"]
    /\ Step(r, [request[r] EXCEPT !.at = "assigned"])
    /\ UNCHANGED <<vars, objects, closing, errorHandler, dropped, unclosed>>

\* Verify: what Instantiate returned goes into the registration's variable.
Assign(r) ==
    /\ proc # "dead" /\ request[r].at = "ended"
    /\ err' = [err EXCEPT ![request[r].state] = request[r].own = "error"]
    /\ Step(r, [request[r] EXCEPT !.at = "assigned"])
    /\ UNCHANGED <<vars, objects, closing, errorHandler, dropped, unclosed>>

\* The variable is looked at again; ok is the request's own.
Verdict(r) == IF ~err[request[r].state] /\ request[r].own = "ok" THEN "ok" ELSE "fail"

Decide(r) ==
    /\ proc # "dead" /\ request[r].at = "assigned"
    /\ Answer(r, Verdict(r))
    /\ UNCHANGED <<vars, objects, closing, err, errorHandler, dropped, unclosed>>

\* A backend that fails calls its ErrorHandler, which shows the error page of
\* the State that installed it.  The page needs the RequestData that ServeHTTP
\* of some State has made, and the templates and the tag cache of its own.
Failure(r) ==
    CASE errorHandler = Nil -> "error"
      [] errorHandler # Nil /\ request[r].state # Direct /\ states[errorHandler].built -> "error page"
      [] OTHER -> "panic"

Backend(r) ==
    /\ proc # "dead" /\ request[r].at = "in"
    /\ \E answer \in {"backend", Failure(r)} : Answer(r, answer)
    /\ UNCHANGED <<vars, objects, closing, err, errorHandler, dropped, unclosed>>

RequestStep(r) == Enter(r) \/ EndRun(r) \/ MakeChallenge(r) \/ Assign(r) \/ Decide(r) \/ Backend(r)
                  \/ \E kind \in Kinds : Instantiate(r, kind)

ServiceNext ==
    \/ (Edit \/ Sighup) /\ UNCHANGED serviceVars
    \/ ServiceLoader
    \/ \E r \in Requests : RequestStep(r)

ServiceSpec == ServiceInit /\ [][ServiceNext]_allVars

---------------------------------------------------------------------------
\* Every variable has its type.
ServiceTypeOK ==
    /\ TypeOK
    /\ objects \in [StateIds -> [Objects -> {"none", "open", "closed"}]]
    /\ closing \in {"no", "begun", "failed"}
    /\ request \in [Requests -> Request]
    /\ err \in [StateIds -> BOOLEAN]
    /\ errorHandler \in StateIds \cup {Nil}
    /\ dropped \subseteq StateIds /\ unclosed \subseteq StateIds

Live(s) == \E o \in Objects : objects[s][o] = "open"

\* main can still reach s to close it.
Reachable(s) == s = handler \/ (s = oldHandler /\ loop # "wait")

\* Goroutines and runtimes of a State that no longer serves are left behind
\* only by a build or a reload that failed, or by a Close that met an error.
LeakOnlyAfterFailure ==
    \A s \in StateIds : Live(s) =>
        Reachable(s) \/ ~states[s].built \/ s \in dropped \/ s \in unclosed

\* The objects of the State that new requests get are all there.
ServedObjectsOpen ==
    pointer \in StateIds => \A o \in Objects : objects[pointer][o] = "open"

\* Whoever else runs the module at the time, only a proof that solves the
\* challenge passes; and it does pass when no other run overlaps with its own
\* and its State is not closed under it.
Decides(r) ==
    request[r].at = "assigned" /\ request'[r].at = "out" =>
        /\ request'[r].answer = "ok" => request[r].kind = "proof"
        /\ request[r].lone => request'[r].answer = "ok"
VerdictIsOwn == [][\A r \in Requests : Decides(r)]_allVars

\* A request in a State always gets its error page from a State that was
\* built: the first one, whatever became of it and of the later ones.
ErrorPageComplete ==
    [][\A r \in Requests : request'[r].answer = "panic" =>
            request[r].answer = "panic" \/ request[r].state = Direct]_allVars
===========================================================================
