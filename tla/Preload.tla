------------------------------ MODULE Preload ------------------------------
(***************************************************************************)
(* The preload-link runtime on top of Awaiter.  A page request sends an    *)
(* early hint whose link carries the request's key as token and waits for  *)
(* the browser to fetch it.  The verify handler computes its own request's *)
(* key, which differs when the browser changed network or an expiry window *)
(* passed, and solves under it.                                            *)
(*                                                                         *)
(* The waiters are the page requests, the solvers the verify requests.     *)
(***************************************************************************)
EXTENDS Awaiter

CONSTANT IPv4Keys      \* the keys that carry the IPv4 flag

VARIABLES page,        \* page[w]: "new", "waiting", or IssueChallenge's result
          verify,      \* verify[s]: the verify handler's step, key, token and result
          present,     \* present[s]: the waiter under the token when s arrived
          told,        \* told[w]: the key and token of each fetch that took w's callback (history)
          expired      \* expired[w]: its deadline passed or its client went away (history)

vars == <<callbacks, wait, waitKey, done, result, returned, solve,
          page, verify, present, told, expired>>

ASSUME PreloadAssumption ==
    /\ IPv4Keys \subseteq Keys
    /\ Results = {"OK", "Fail"}
    /\ Keys \cap {"new", "waiting", "OK", "Fail", "Skip"} = {}

NoVerify == [at |-> "idle", key |-> NoKey, token |-> NoKey, res |-> NoResult]

\* The handler of s moves on, with the same key, token and result.
VerifyAt(s, at) == [at |-> at, key |-> verify[s].key, token |-> verify[s].token,
                    res |-> verify[s].res]

Init ==
    /\ AwaiterInit
    /\ page = [w \in Waiters |-> "new"]
    /\ verify = [s \in Solvers |-> NoVerify]
    /\ present = [s \in Solvers |-> Nobody]
    /\ told = [w \in Waiters |-> {}]
    /\ expired = [w \in Waiters |-> FALSE]

\* A request over HTTP/1 whose writer is no Pusher skips the challenge.
IssueSkip(w) ==
    /\ page[w] = "new"
    /\ page' = [page EXCEPT ![w] = "Skip"]
    /\ UNCHANGED <<awaiterVars, verify, present, told, expired>>

\* VerifyUrl cannot parse the URL to come back to: nothing is hinted.
IssueError(w) ==
    /\ page[w] = "new"
    /\ page' = [page EXCEPT ![w] = "Fail"]
    /\ UNCHANGED <<awaiterVars, verify, present, told, expired>>

\* IssueChallenge: the early hint goes out first, then Await stores the
\* callback; the browser may fetch the link in between.
IssueHint(w, k) ==
    /\ page[w] = "new"
    /\ page' = [page EXCEPT ![w] = k]
    /\ UNCHANGED <<awaiterVars, verify, present, told, expired>>

IssueAwait(w) ==
    /\ page[w] \in Keys
    /\ Await(w, page[w])
    /\ page' = [page EXCEPT ![w] = "waiting"]
    /\ UNCHANGED <<verify, present, told, expired>>

IssueTimeout(w) ==
    /\ Timeout(w)
    /\ expired' = [expired EXCEPT ![w] = TRUE]
    /\ UNCHANGED <<page, verify, present, told>>

IssueWake(w) == Wake(w) /\ UNCHANGED <<page, verify, present, told, expired>>
IssueLeave(w) == Leave(w) /\ UNCHANGED <<page, verify, present, told, expired>>

\* A result of None means that the deadline was hit.
IssueReturn(w) ==
    /\ page[w] = "waiting" /\ wait[w] = "returned"
    /\ page' = [page EXCEPT ![w] = IF returned[w] = NoResult THEN "Fail" ELSE returned[w]]
    /\ UNCHANGED <<awaiterVars, verify, present, told, expired>>

---------------------------------------------------------------------------
\* Mutation: any token passes.
VerifierAny(key, token) == IF token # NoKey THEN "OK" ELSE "Fail"

\* NewKeyVerifier, with the error dropped: an IPv4 token on another network
\* counts as passed.  A request without its arguments has no token.
Verifier(key, token) ==
    IF token = key \/ (key \notin IPv4Keys /\ token \in IPv4Keys) THEN "OK" ELSE "Fail"

\* The verify handler up to its first Solve.  The token is whatever the
\* client sends, or missing when the request is malformed.
VerifyArrive(s, key, token) ==
    /\ verify[s].at = "idle"
    /\ verify' = [verify EXCEPT ![s] = [at |-> "solve-key", key |-> key, token |-> token,
                                        res |-> Verifier(key, token)]]
    /\ present' = [present EXCEPT ![s] = IF token = NoKey THEN Nobody ELSE callbacks[token]]
    /\ UNCHANGED <<awaiterVars, page, told, expired>>

Brings(s, k) ==
    told' = IF callbacks[k] = Nobody THEN told
            ELSE [told EXCEPT ![callbacks[k]] = @ \cup {<<verify[s].key, verify[s].token>>}]

\* ob.Solve(issuerKey, verifyResult): begins, with the callback in hand or not.
SolveKey(s) ==
    /\ verify[s].at = "solve-key"
    /\ GetAndDel(s, verify[s].key, verify[s].res)
    /\ Brings(s, verify[s].key)
    /\ verify' = [verify EXCEPT ![s] = VerifyAt(s, "key-solving")]
    /\ UNCHANGED <<page, present, expired>>

\* Mutation: the waiter under the token is not told of a mismatch.
NextWithoutToken(s) ==
    /\ verify[s].at = "key-solving" /\ solve[s].at = "idle"
    /\ verify' = [verify EXCEPT ![s] = VerifyAt(s, "finished")]
    /\ UNCHANGED <<awaiterVars, page, present, told, expired>>

\* The first Solve has returned: a failure is also brought to the token's waiter.
SolveNext(s) ==
    /\ verify[s].at = "key-solving" /\ solve[s].at = "idle"
    /\ IF verify[s].res # "OK" /\ verify[s].token # NoKey
       THEN /\ GetAndDel(s, verify[s].token, verify[s].res)
            /\ Brings(s, verify[s].token)
            /\ verify' = [verify EXCEPT ![s] = VerifyAt(s, "token-solving")]
       ELSE /\ verify' = [verify EXCEPT ![s] = VerifyAt(s, "finished")]
            /\ UNCHANGED <<awaiterVars, told>>
    /\ UNCHANGED <<page, present, expired>>

SolveDone(s) ==
    /\ verify[s].at = "token-solving" /\ solve[s].at = "idle"
    /\ verify' = [verify EXCEPT ![s] = VerifyAt(s, "finished")]
    /\ UNCHANGED <<awaiterVars, page, present, told, expired>>

RunStore(s) == Store(s) /\ UNCHANGED <<page, verify, present, told, expired>>
RunCancel(s) == Cancel(s) /\ UNCHANGED <<page, verify, present, told, expired>>

PageStep(w) == IssueAwait(w) \/ IssueWake(w) \/ IssueLeave(w) \/ IssueReturn(w)

VerifyStep(s) == SolveKey(s) \/ SolveNext(s) \/ SolveDone(s) \/ RunStore(s) \/ RunCancel(s)

Next ==
    \/ \E w \in Waiters : \/ IssueSkip(w) \/ IssueError(w)
                          \/ \E k \in Keys : IssueHint(w, k)
                          \/ IssueTimeout(w) \/ PageStep(w)
    \/ \E s \in Solvers : \/ \E k \in Keys, t \in Keys \cup {NoKey} : VerifyArrive(s, k, t)
                          \/ VerifyStep(s)

Spec == Init /\ [][Next]_vars

\* A page request runs to its end and its deadline passes; at most one of its
\* steps is enabled at a time.  Nothing is assumed of the verify requests.
FairSpec == Spec /\ \A w \in Waiters : WF_vars(PageStep(w) \/ IssueTimeout(w))

---------------------------------------------------------------------------
\* A verify request whose own key is the key w waits under reached w, and it
\* brought that key, or an IPv4 token.
Fetched(w) ==
    /\ wait[w] # "before"
    /\ \E b \in told[w] : b[1] = waitKey[w] /\ (b[2] = b[1] \/ b[2] \in IPv4Keys)

\* A page is passed only when a verify request of the same client, whose own
\* key is the key the page waits under, brought that key, or an IPv4 token.
PassNeedsFetch ==
    \A w \in Waiters : page[w] = "OK" => Fetched(w)

\* A page that was hinted fails only when its deadline passed, its client went
\* away, or a fetch that took its callback did not verify: one that was
\* fetched well and in time is never turned down, whoever else waits, replaces
\* callbacks and solves under the same key.
FailHasCause ==
    \A w \in Waiters : page[w] = "Fail" /\ wait[w] # "before" =>
        expired[w] \/ \E b \in told[w] : Verifier(b[1], b[2]) = "Fail"

\* Once the browser has fetched the link of a waiting page, the handler never
\* ends with that page still waiting in the map, whatever key the fetch has,
\* unless an IPv4 link was fetched over IPv6.
FetchEndsWait ==
    \A s \in Solvers : (verify[s].at = "finished" /\ present[s] # Nobody) =>
        \/ callbacks[verify[s].token] # present[s]
        \/ verify[s].key \notin IPv4Keys /\ verify[s].token \in IPv4Keys

\* Every page request that was hinted gets its result: none waits for ever.
EveryPageReturns ==
    <>[](\A w \in Waiters : page[w] \notin Keys \cup {"waiting"})
===========================================================================
