--------------------------- MODULE PreloadProofs ---------------------------
(***************************************************************************)
(* Proofs about Preload: it uses its Awaiter as specified, so everything   *)
(* proved of the Awaiter holds for the page and verify handlers, and a     *)
(* page is passed only by a fetch of the same client.                      *)
(***************************************************************************)
EXTENDS Preload, AwaiterProofs

Steps == {"idle", "solve-key", "key-solving", "token-solving", "finished"}

Verifying == [at : Steps, key : Keys \cup {NoKey}, token : Keys \cup {NoKey},
              res : Results \cup {NoResult}]

\* A verify handler that has begun has a key, and its result is the verdict.
PreloadTypeOK ==
    /\ page \in [Waiters -> Keys \cup {"new", "waiting", "OK", "Fail", "Skip"}]
    /\ verify \in [Solvers -> Verifying]
    /\ \A s \in Solvers : verify[s].at # "idle" =>
          verify[s].key \in Keys /\ verify[s].res = Verifier(verify[s].key, verify[s].token)
    /\ told \in [Waiters -> SUBSET (Keys \X (Keys \cup {NoKey}))]
    /\ expired \in [Waiters -> BOOLEAN]

\* A positive result is only ever on its way to a waiter that was fetched.
ResultsFetched ==
    /\ \A s \in Solvers, w \in Waiters : solve[s].res = "OK" /\ solve[s].cb = w => Fetched(w)
    /\ \A w \in Waiters : result[w] = "OK" => Fetched(w)
    /\ \A w \in Waiters : returned[w] = "OK" => Fetched(w)

PreloadInv == AwaiterInv /\ PreloadTypeOK /\ ResultsFetched /\ PassNeedsFetch

\* Every step of the handlers is one step of the Awaiter, or none.
LEMMA StepUsesAwaiter ==
  PreloadTypeOK /\ [Next]_vars => [AwaiterNext]_awaiterVars
<1> SUFFICES ASSUME PreloadTypeOK, [Next]_vars PROVE [AwaiterNext]_awaiterVars
  OBVIOUS
<1>1. ASSUME NEW w \in Waiters,
             \/ IssueSkip(w) \/ IssueError(w) \/ IssueReturn(w) \/ \E k \in Keys : IssueHint(w, k)
      PROVE  UNCHANGED awaiterVars
  BY <1>1 DEF IssueSkip, IssueError, IssueReturn, IssueHint
<1>2. ASSUME NEW w \in Waiters,
             IssueAwait(w) \/ IssueTimeout(w) \/ IssueWake(w) \/ IssueLeave(w)
      PROVE  AwaiterNext
  BY <1>2 DEF IssueAwait, IssueTimeout, IssueWake, IssueLeave, AwaiterNext
<1>3. ASSUME NEW s \in Solvers,
             \/ \E k \in Keys, t \in Keys \cup {NoKey} : VerifyArrive(s, k, t)
             \/ SolveDone(s)
      PROVE  UNCHANGED awaiterVars
  BY <1>3 DEF VerifyArrive, SolveDone
<1>4. ASSUME NEW s \in Solvers, verify[s].at # "idle"
      PROVE  verify[s].key \in Keys /\ verify[s].res \in Results
  BY <1>4, PreloadAssumption DEF PreloadTypeOK, Verifier
<1>5. ASSUME NEW s \in Solvers, SolveKey(s) PROVE AwaiterNext
  BY <1>4, <1>5 DEF SolveKey, AwaiterNext
<1>6. ASSUME NEW s \in Solvers, SolveNext(s) PROVE AwaiterNext \/ UNCHANGED awaiterVars
  <2>1. verify[s].token \in Keys \cup {NoKey}
    BY DEF PreloadTypeOK, Verifying
  <2>2. QED
    BY <1>4, <1>6, <2>1 DEF SolveNext, AwaiterNext
<1>7. ASSUME NEW s \in Solvers, RunStore(s) \/ RunCancel(s) PROVE AwaiterNext
  BY <1>7 DEF RunStore, RunCancel, AwaiterNext
<1>8. CASE UNCHANGED vars
  BY <1>8 DEF vars, awaiterVars
<1>9. QED
  BY <1>1, <1>2, <1>3, <1>5, <1>6, <1>7, <1>8 DEF Next, PageStep, VerifyStep

\* The handlers keep their own types.
LEMMA StepTypes == AwaiterInv /\ PreloadTypeOK /\ [Next]_vars => PreloadTypeOK'
<1> SUFFICES ASSUME AwaiterInv, PreloadTypeOK, [Next]_vars PROVE PreloadTypeOK'
  OBVIOUS
<1> USE AwaiterAssumption, PreloadAssumption
<1>1. ASSUME NEW w \in Waiters,
             \/ IssueSkip(w) \/ IssueError(w) \/ IssueReturn(w) \/ \E k \in Keys : IssueHint(w, k)
             \/ IssueAwait(w) \/ IssueTimeout(w) \/ IssueWake(w) \/ IssueLeave(w)
      PROVE  PreloadTypeOK'
  <2>1. returned[w] \in {"OK", "Fail"} \cup {NoResult}
    BY DEF AwaiterInv, AwaiterTypeOK
  <2>2. verify' = verify /\ told' = told /\ expired' \in [Waiters -> BOOLEAN]
    BY <1>1 DEF IssueSkip, IssueError, IssueReturn, IssueHint, IssueAwait, IssueTimeout, IssueWake,
                IssueLeave, PreloadTypeOK
  <2>3. page' \in [Waiters -> Keys \cup {"new", "waiting", "OK", "Fail", "Skip"}]
    BY <1>1, <2>1 DEF IssueSkip, IssueError, IssueReturn, IssueHint, IssueAwait, IssueTimeout, IssueWake,
                IssueLeave, PreloadTypeOK
  <2>4. QED
    BY <2>2, <2>3 DEF PreloadTypeOK
<1>2. ASSUME NEW s \in Solvers, NEW k \in Keys, NEW t \in Keys \cup {NoKey},
             VerifyArrive(s, k, t)
      PROVE  PreloadTypeOK'
  <2> DEFINE begun == [at |-> "solve-key", key |-> k, token |-> t, res |-> Verifier(k, t)]
  <2>1. /\ begun \in Verifying /\ begun.key = k /\ begun.token = t
        /\ begun.res = Verifier(k, t)
    BY DEF PreloadTypeOK, Verifying, Steps, Verifier
  <2>2. verify' = [verify EXCEPT ![s] = begun] /\ UNCHANGED <<page, told, expired>>
    BY <1>2 DEF VerifyArrive
  <2> HIDE DEF begun
  <2>3. QED
    BY <2>1, <2>2 DEF PreloadTypeOK
<1>3. ASSUME NEW s \in Solvers, NEW at \in Steps \ {"idle"}, verify[s].at # "idle",
             verify' = [verify EXCEPT ![s] = VerifyAt(s, at)],
             told' \in [Waiters -> SUBSET (Keys \X (Keys \cup {NoKey}))],
             UNCHANGED <<page, expired>>
      PROVE  PreloadTypeOK'
  <2>1. verify[s] \in Verifying
    BY DEF PreloadTypeOK
  <2>2. /\ VerifyAt(s, at) \in Verifying
        /\ VerifyAt(s, at).key = verify[s].key
        /\ VerifyAt(s, at).token = verify[s].token
        /\ VerifyAt(s, at).res = verify[s].res
    BY <2>1 DEF VerifyAt, Verifying
  <2>3. QED
    BY <1>3, <2>2 DEF PreloadTypeOK
<1>4. ASSUME NEW s \in Solvers, NEW k \in Keys, Brings(s, k), verify[s].at # "idle"
      PROVE  told' \in [Waiters -> SUBSET (Keys \X (Keys \cup {NoKey}))]
  <2>1. verify[s].key \in Keys /\ verify[s].token \in Keys \cup {NoKey}
    BY <1>4 DEF PreloadTypeOK, Verifying
  <2>2. <<verify[s].key, verify[s].token>> \in Keys \X (Keys \cup {NoKey})
    BY <2>1
  <2>3. callbacks[k] \in Waiters \cup {Nobody}
    BY DEF AwaiterInv, AwaiterTypeOK
  <2>4. QED
    BY <1>4, <2>2, <2>3 DEF Brings, PreloadTypeOK
<1>5. ASSUME NEW s \in Solvers, SolveKey(s) PROVE PreloadTypeOK'
  <2>1. verify[s].key \in Keys
    BY <1>5 DEF SolveKey, PreloadTypeOK
  <2>2. told' \in [Waiters -> SUBSET (Keys \X (Keys \cup {NoKey}))]
    BY <1>4, <1>5, <2>1 DEF SolveKey
  <2>3. QED
    BY <1>3, <1>5, <2>2 DEF SolveKey, Steps
<1>6. ASSUME NEW s \in Solvers, SolveNext(s) PROVE PreloadTypeOK'
  <2>1. CASE verify[s].res # "OK" /\ verify[s].token # NoKey
    <3>1. verify[s].token \in Keys
      BY <2>1 DEF PreloadTypeOK, Verifying
    <3>2. told' \in [Waiters -> SUBSET (Keys \X (Keys \cup {NoKey}))]
      BY <1>4, <1>6, <2>1, <3>1 DEF SolveNext
    <3>3. QED
      BY <1>3, <1>6, <2>1, <3>2 DEF SolveNext, Steps
  <2>2. CASE ~(verify[s].res # "OK" /\ verify[s].token # NoKey)
    <3>1. told' = told
      BY <1>6, <2>2 DEF SolveNext
    <3>2. told' \in [Waiters -> SUBSET (Keys \X (Keys \cup {NoKey}))]
      BY <3>1 DEF PreloadTypeOK
    <3>3. QED
      BY <1>3, <1>6, <2>2, <3>2 DEF SolveNext, Steps
  <2>3. QED
    BY <2>1, <2>2
<1>7. ASSUME NEW s \in Solvers, SolveDone(s) PROVE PreloadTypeOK'
  <2>1. told' \in [Waiters -> SUBSET (Keys \X (Keys \cup {NoKey}))]
    BY <1>7 DEF SolveDone, PreloadTypeOK
  <2>2. QED
    BY <1>3, <1>7, <2>1 DEF SolveDone, Steps
<1>8. ASSUME NEW s \in Solvers, RunStore(s) \/ RunCancel(s) PROVE PreloadTypeOK'
  BY <1>8 DEF RunStore, RunCancel, PreloadTypeOK
<1>9. CASE UNCHANGED vars
  BY <1>9 DEF vars, PreloadTypeOK
<1>10. QED
  BY <1>1, <1>2, <1>5, <1>6, <1>7, <1>8, <1>9 DEF Next, PageStep, VerifyStep

\* Nothing that was brought to a waiter is forgotten.
LEMMA ToldGrows ==
  ASSUME PreloadTypeOK, [Next]_vars, NEW w \in Waiters
  PROVE  told[w] \subseteq told'[w]
<1>1. ASSUME NEW s \in Solvers, NEW k \in Keys, Brings(s, k)
      PROVE  told[w] \subseteq told'[w]
  BY <1>1 DEF Brings, PreloadTypeOK
<1>2. ASSUME NEW s \in Solvers, SolveKey(s) PROVE told[w] \subseteq told'[w]
  <2>1. verify[s].key \in Keys
    BY <1>2 DEF SolveKey, PreloadTypeOK
  <2>2. QED
    BY <1>1, <1>2, <2>1 DEF SolveKey
<1>3. ASSUME NEW s \in Solvers, SolveNext(s) PROVE told[w] \subseteq told'[w]
  <2>1. verify[s].token \in Keys \cup {NoKey}
    BY DEF PreloadTypeOK, Verifying
  <2>2. QED
    BY <1>1, <1>3, <2>1 DEF SolveNext
<1>4. QED
  BY <1>2, <1>3 DEF Next, PageStep, VerifyStep, IssueSkip, IssueError, IssueHint, IssueAwait,
       IssueTimeout, IssueWake, IssueLeave, IssueReturn, VerifyArrive, SolveDone, RunStore,
       RunCancel, vars

\* What has reached a waiter stays: its key does not change once it waits,
\* and nothing that was brought is forgotten.
LEMMA FetchedStays ==
  ASSUME AwaiterInv, PreloadTypeOK, [Next]_vars, NEW w \in Waiters, Fetched(w)
  PROVE  Fetched(w)'
<1>1. wait'[w] # "before" /\ waitKey'[w] = waitKey[w]
  <2>1. wait[w] # "before"
    BY DEF Fetched
  <2>2. [AwaiterNext]_awaiterVars
    BY StepUsesAwaiter
  <2>3. QED
    BY <2>1, <2>2 DEF AwaiterInv, AwaiterTypeOK, AwaiterNext, awaiterVars, Await, Timeout,
                      Wake, Leave, GetAndDel, Store, Cancel
<1>2. told[w] \subseteq told'[w]
  BY ToldGrows
<1>3. QED
  BY <1>1, <1>2 DEF Fetched

\* A positive result reaches only waiters that were fetched: it is taken to
\* a waiter by the first Solve, under the verify request's own key, and the
\* second Solve only brings failures.
LEMMA StepResults ==
  AwaiterInv /\ PreloadTypeOK /\ ResultsFetched /\ [Next]_vars => ResultsFetched'
<1> SUFFICES ASSUME AwaiterInv, PreloadTypeOK, ResultsFetched, [Next]_vars
             PROVE  ResultsFetched'
  OBVIOUS
<1> USE AwaiterAssumption, PreloadAssumption
<1>1. \A w \in Waiters : Fetched(w) => Fetched(w)'
  BY FetchedStays
<1>2. ASSUME NEW s \in Solvers, NEW w \in Waiters, solve'[s].res = "OK", solve'[s].cb = w
      PROVE  Fetched(w)'
  <2>1. CASE solve'[s].res = solve[s].res /\ solve'[s].cb = solve[s].cb
    BY <1>1, <1>2, <2>1 DEF ResultsFetched
  <2>2. CASE ~(solve'[s].res = solve[s].res /\ solve'[s].cb = solve[s].cb)
    <3>1. Idle.cb = Nobody
      BY DEF Idle
    <3>2. ASSUME NEW t \in Solvers, Store(t) PROVE FALSE
      BY <2>2, <3>2 DEF Store, AwaiterInv, AwaiterTypeOK
    <3>3. ASSUME NEW t \in Solvers, Cancel(t) PROVE FALSE
      BY <1>2, <2>2, <3>1, <3>3 DEF Cancel, AwaiterInv, AwaiterTypeOK
    <3>4. ASSUME NEW t \in Solvers, NEW k \in Keys, NEW r \in Results, GetAndDel(t, k, r)
          PROVE  t = s /\ r = "OK" /\ solve'[s].cb = callbacks[k] /\ callbacks[k] # Nobody
      BY <1>2, <2>2, <3>1, <3>4 DEF GetAndDel, AwaiterInv, AwaiterTypeOK
    <3>5. ASSUME NEW t \in Solvers, SolveNext(t) PROVE FALSE
      <4>1. verify[t].token \in Keys \cup {NoKey} /\ verify[t].res \in Results
        BY <3>5 DEF SolveNext, PreloadTypeOK, Verifying, Verifier
      <4>2. CASE verify[t].res # "OK" /\ verify[t].token # NoKey
        BY <3>4, <3>5, <4>1, <4>2 DEF SolveNext
      <4>3. CASE ~(verify[t].res # "OK" /\ verify[t].token # NoKey)
        BY <2>2, <3>5, <4>3 DEF SolveNext, awaiterVars
      <4>4. QED
        BY <4>2, <4>3
    <3>6. SolveKey(s)
      <4>1. ASSUME NEW t \in Solvers, SolveKey(t) PROVE t = s
        <5>1. verify[t].key \in Keys /\ verify[t].res \in Results
          BY <4>1 DEF SolveKey, PreloadTypeOK, Verifier
        <5>2. QED
          BY <3>4, <4>1, <5>1 DEF SolveKey
      <4>2. \E t \in Solvers : SolveKey(t)
        BY <2>2, <3>2, <3>3, <3>5 DEF Next, PageStep, VerifyStep, IssueSkip, IssueError, IssueHint,
             IssueAwait, IssueTimeout, IssueWake, IssueLeave, IssueReturn, VerifyArrive,
             SolveDone, RunStore, RunCancel, vars, awaiterVars, Await, Timeout, Wake, Leave
      <4>3. QED
        BY <4>1, <4>2
    <3> DEFINE key == verify[s].key
               token == verify[s].token
    <3>7. key \in Keys /\ verify[s].res = Verifier(key, token)
      BY <3>6 DEF SolveKey, PreloadTypeOK
    <3>8. verify[s].res = "OK" /\ callbacks[key] = w
      BY <1>2, <3>4, <3>6, <3>7 DEF SolveKey, Verifier
    <3>9. waitKey[w] = key /\ wait[w] # "before"
      BY <3>7, <3>8 DEF AwaiterInv, AwaiterTypeOK, NoLeakedCallback
    <3>10. <<key, token>> \in told'[w] /\ waitKey' = waitKey /\ wait' = wait
      BY <3>6, <3>8, <3>9 DEF SolveKey, Brings, PreloadTypeOK, GetAndDel
    <3>11. token = key \/ token \in IPv4Keys
      BY <3>7, <3>8 DEF Verifier
    <3> HIDE DEF key, token
    <3>12. QED
      BY <3>9, <3>10, <3>11 DEF Fetched
  <2>3. QED
    BY <2>1, <2>2
<1>3. ASSUME NEW w \in Waiters, result'[w] = "OK" PROVE Fetched(w)'
  <2>1. CASE result'[w] = result[w]
    BY <1>1, <1>3, <2>1 DEF ResultsFetched
  <2>2. CASE result'[w] # result[w]
    <3>1. [AwaiterNext]_awaiterVars
      BY StepUsesAwaiter
    <3>2. PICK s \in Solvers : Store(s)
      BY <2>2, <3>1 DEF AwaiterNext, awaiterVars, Await, Timeout, Wake, Leave, GetAndDel,
                        Cancel
    <3>3. solve[s].cb = w /\ solve[s].res = "OK"
      BY <1>3, <2>2, <3>2 DEF Store, AwaiterInv, AwaiterTypeOK
    <3>4. QED
      BY <1>1, <3>3 DEF ResultsFetched
  <2>3. QED
    BY <2>1, <2>2
<1>4. ASSUME NEW w \in Waiters, returned'[w] = "OK" PROVE Fetched(w)'
  <2>1. CASE returned'[w] = returned[w]
    BY <1>1, <1>4, <2>1 DEF ResultsFetched
  <2>2. CASE returned'[w] # returned[w]
    <3>1. [AwaiterNext]_awaiterVars
      BY StepUsesAwaiter
    <3>2. result[w] = "OK"
      BY <1>4, <2>2, <3>1 DEF AwaiterNext, awaiterVars, Await, Timeout, Wake, Leave,
                        GetAndDel, Store, Cancel, AwaiterInv, AwaiterTypeOK
    <3>3. QED
      BY <1>1, <3>2 DEF ResultsFetched
  <2>3. QED
    BY <2>1, <2>2
<1>5. QED
  BY <1>2, <1>3, <1>4 DEF ResultsFetched

\* A page is passed with the result that Await returned.
LEMMA StepPages ==
  PreloadInv /\ [Next]_vars => PassNeedsFetch'
<1> SUFFICES ASSUME PreloadInv, [Next]_vars, NEW w \in Waiters, page'[w] = "OK"
             PROVE  Fetched(w)'
  BY DEF PassNeedsFetch
<1> USE AwaiterAssumption, PreloadAssumption DEF PreloadInv
<1>1. Fetched(w) => Fetched(w)'
  BY FetchedStays
<1>2. CASE page[w] = "OK"
  BY <1>1, <1>2 DEF PassNeedsFetch
<1>3. CASE page[w] # "OK"
  <2>1. \E v \in Waiters : IssueReturn(v)
    BY <1>3 DEF Next, PageStep, VerifyStep, IssueSkip, IssueError, IssueHint, IssueAwait, IssueTimeout,
         IssueWake, IssueLeave, VerifyArrive, SolveKey, SolveNext, SolveDone, RunStore,
         RunCancel, vars, PreloadTypeOK
  <2>2. returned[w] = "OK"
    BY <1>3, <2>1 DEF IssueReturn, PreloadTypeOK
  <2>3. QED
    BY <1>1, <2>2 DEF ResultsFetched
<1>4. QED
  BY <1>2, <1>3

LEMMA PreloadInitInv == Init => PreloadInv
<1> SUFFICES ASSUME Init PROVE PreloadInv
  OBVIOUS
<1> USE AwaiterAssumption, PreloadAssumption DEF Init
<1>1. AwaiterInv
  BY AwaiterInitInv
<1>2. NoVerify \in Verifying /\ NoVerify.at = "idle"
  BY DEF NoVerify, Verifying, Steps
<1>3. PreloadTypeOK
  BY <1>2 DEF PreloadTypeOK
<1>4. Idle.cb = Nobody
  BY DEF Idle
<1>5. ResultsFetched
  BY <1>4 DEF ResultsFetched, AwaiterInit
<1>6. PassNeedsFetch
  BY DEF PassNeedsFetch
<1>7. QED
  BY <1>1, <1>3, <1>5, <1>6 DEF PreloadInv

LEMMA PreloadStepInv == PreloadInv /\ [Next]_vars => PreloadInv'
<1> SUFFICES ASSUME PreloadInv, [Next]_vars PROVE PreloadInv'
  OBVIOUS
<1>1. AwaiterInv'
  BY StepUsesAwaiter, AwaiterStepInv DEF PreloadInv
<1>2. PreloadTypeOK'
  BY StepTypes DEF PreloadInv
<1>3. ResultsFetched'
  BY StepResults DEF PreloadInv
<1>4. PassNeedsFetch'
  BY StepPages
<1>5. QED
  BY <1>1, <1>2, <1>3, <1>4 DEF PreloadInv

\* The invariant of the page and verify handlers.
THEOREM PreloadInvariance == Spec => []PreloadInv
BY PreloadInitInv, PreloadStepInv, PTL DEF Spec

\* A page request is passed only after a verify request whose own key is the
\* one the page waits under brought that key or an IPv4 token.
THEOREM PassesAreFetched == Spec => []PassNeedsFetch
BY PreloadInvariance, PTL DEF PreloadInv

\* What is proved of every use of an Awaiter holds of the runtime's.
COROLLARY PreloadUsesAwaiter == Spec => AwaiterSpec
<1>1. Init => AwaiterInit
  BY DEF Init
<1>2. PreloadInv /\ [Next]_vars => [AwaiterNext]_awaiterVars
  BY StepUsesAwaiter DEF PreloadInv
<1>3. QED
  BY <1>1, <1>2, PreloadInvariance, PTL DEF Spec, AwaiterSpec

---------------------------------------------------------------------------
(* Why a page fails *)

\* A fetch that did not verify took the callback of w.
Refused(w) == \E b \in told[w] : Verifier(b[1], b[2]) = "Fail"

\* A wait ends with a result or after its deadline: the result is stored
\* before the context is cancelled, and it is never the zero value.
ResultsCaused ==
    /\ \A s \in Solvers : solve[s].at # "idle" => solve[s].res \in Results
    /\ \A s \in Solvers, w \in Waiters : solve[s].cb = w /\ solve[s].res = "Fail" => Refused(w)
    /\ \A s \in Solvers : solve[s].at = "cancel" => result[solve[s].cb] # NoResult
    /\ \A w \in Waiters : result[w] = "Fail" => Refused(w)
    /\ \A w \in Waiters : returned[w] = "Fail" => Refused(w)
    /\ \A w \in Waiters : done[w] => expired[w] \/ result[w] # NoResult
    /\ \A w \in Waiters : wait[w] \in {"leaving", "returned"} /\ returned[w] = NoResult => expired[w]

PagesCaused == FailHasCause /\ \A w \in Waiters : page[w] = "new" => wait[w] = "before"

\* A result that is brought to a waiter comes with the fetch it is from.
LEMMA BroughtCaused ==
  ASSUME AwaiterInv, PreloadTypeOK, NEW s \in Solvers, NEW k \in Keys, verify[s].at # "idle",
         GetAndDel(s, k, verify[s].res), Brings(s, k)
  PROVE  /\ solve'[s].at # "idle" => solve'[s].res \in Results
         /\ \A w \in Waiters : solve'[s].cb = w /\ solve'[s].res = "Fail" => Refused(w)'
         /\ solve'[s].at # "cancel" /\ \A t \in Solvers \ {s} : solve'[t] = solve[t]
         /\ UNCHANGED <<wait, done, result, returned>>
<1> USE AwaiterAssumption, PreloadAssumption
<1> DEFINE taken == [at |-> "store", key |-> k, res |-> verify[s].res, cb |-> callbacks[k]]
<1>1. /\ Idle.at = "idle" /\ Idle.cb = Nobody
      /\ taken.at = "store" /\ taken.res = verify[s].res /\ taken.cb = callbacks[k]
  BY DEF Idle
<1>2. /\ solve' = [solve EXCEPT ![s] = IF callbacks[k] = Nobody THEN Idle ELSE taken]
      /\ UNCHANGED <<wait, done, result, returned>>
  BY DEF GetAndDel
<1> HIDE DEF taken
<1>3. /\ solve'[s] = IF callbacks[k] = Nobody THEN Idle ELSE taken
      /\ \A t \in Solvers \ {s} : solve'[t] = solve[t]
  BY <1>2 DEF AwaiterInv, AwaiterTypeOK
<1>4. /\ verify[s].key \in Keys /\ verify[s].res = Verifier(verify[s].key, verify[s].token)
      /\ verify[s].res \in Results
  BY DEF PreloadTypeOK, Verifier
<1>5. ASSUME NEW w \in Waiters, solve'[s].cb = w, solve'[s].res = "Fail" PROVE Refused(w)'
  <2>1. callbacks[k] = w /\ verify[s].res = "Fail" /\ w # Nobody
    BY <1>1, <1>3, <1>5
  <2> DEFINE b == <<verify[s].key, verify[s].token>>
  <2>2. b \in told'[w]
    BY <2>1 DEF Brings, PreloadTypeOK
  <2>3. Verifier(b[1], b[2]) = "Fail"
    BY <1>4, <2>1
  <2> HIDE DEF b
  <2>4. QED
    BY <2>2, <2>3 DEF Refused, Verifier
<1>6. QED
  BY <1>1, <1>2, <1>3, <1>4, <1>5

LEMMA StepCaused == PreloadInv /\ ResultsCaused /\ [Next]_vars => ResultsCaused'
<1> SUFFICES ASSUME PreloadInv, ResultsCaused, [Next]_vars PROVE ResultsCaused'
  OBVIOUS
<1> USE AwaiterAssumption, PreloadAssumption
<1>1. /\ AwaiterInv /\ PreloadTypeOK /\ AwaiterTypeOK
  BY DEF PreloadInv, AwaiterInv
<1>2. \A w \in Waiters : Refused(w) => Refused(w)'
  <2>1. \A w \in Waiters : told[w] \subseteq told'[w]
    BY <1>1, ToldGrows
  <2>2. QED
    BY <2>1 DEF Refused, Verifier
<1>3. \A w \in Waiters : expired[w] => expired'[w]
  BY <1>1 DEF PreloadTypeOK, Next, PageStep, VerifyStep, IssueSkip, IssueError, IssueHint,
     IssueAwait, IssueTimeout, IssueWake, IssueLeave, IssueReturn, VerifyArrive, SolveKey,
     SolveNext, SolveDone, RunStore, RunCancel, vars
<1> HIDE DEF Refused
<1>4. ASSUME UNCHANGED awaiterVars PROVE ResultsCaused'
  BY <1>2, <1>3, <1>4 DEF awaiterVars, ResultsCaused
<1>5. ASSUME NEW w \in Waiters, IssueAwait(w) \/ IssueLeave(w) PROVE ResultsCaused'
  <2>1. UNCHANGED <<done, result, returned, solve>>
    BY <1>5 DEF IssueAwait, IssueLeave, Await, Leave
  <2>2. \A v \in Waiters : wait'[v] \in {"leaving", "returned"} => wait[v] \in {"leaving", "returned"}
    BY <1>1, <1>5 DEF IssueAwait, IssueLeave, Await, Leave, AwaiterTypeOK
  <2>3. QED
    BY <1>2, <1>3, <2>1, <2>2 DEF ResultsCaused
<1>6. ASSUME NEW w \in Waiters, IssueTimeout(w) PROVE ResultsCaused'
  <2>1. /\ UNCHANGED <<wait, result, returned, solve>>
        /\ \A v \in Waiters : done'[v] => done[v] \/ v = w
        /\ expired'[w]
    BY <1>1, <1>6 DEF IssueTimeout, Timeout, AwaiterTypeOK, PreloadTypeOK
  <2>2. QED
    BY <1>2, <1>3, <2>1 DEF ResultsCaused
<1>7. ASSUME NEW w \in Waiters, IssueWake(w) PROVE ResultsCaused'
  <2>1. /\ UNCHANGED <<done, result, solve>> /\ done[w] /\ returned'[w] = result[w]
        /\ \A v \in Waiters \ {w} : returned'[v] = returned[v] /\ wait'[v] = wait[v]
    BY <1>1, <1>7 DEF IssueWake, Wake, AwaiterTypeOK
  <2>2. QED
    BY <1>2, <1>3, <2>1 DEF ResultsCaused
<1>8. ASSUME NEW s \in Solvers, NEW k \in Keys, verify[s].at # "idle",
             GetAndDel(s, k, verify[s].res), Brings(s, k)
      PROVE  ResultsCaused'
  <2>1. /\ solve'[s].at # "idle" => solve'[s].res \in Results
        /\ \A w \in Waiters : solve'[s].cb = w /\ solve'[s].res = "Fail" => Refused(w)'
        /\ solve'[s].at # "cancel" /\ \A t \in Solvers \ {s} : solve'[t] = solve[t]
        /\ UNCHANGED <<wait, done, result, returned>>
    BY <1>1, <1>8, BroughtCaused
  <2>2. QED
    BY <1>2, <1>3, <2>1 DEF ResultsCaused
<1>9. ASSUME NEW s \in Solvers, SolveKey(s) PROVE ResultsCaused'
  <2>1. verify[s].key \in Keys /\ verify[s].at # "idle"
    BY <1>1, <1>9 DEF SolveKey, PreloadTypeOK
  <2>2. QED
    BY <1>8, <1>9, <2>1 DEF SolveKey
<1>10. ASSUME NEW s \in Solvers, SolveNext(s) PROVE ResultsCaused'
  <2>1. verify[s].token \in Keys \cup {NoKey} /\ verify[s].at # "idle"
    BY <1>1, <1>10 DEF SolveNext, PreloadTypeOK, Verifying
  <2>2. QED
    BY <1>4, <1>8, <1>10, <2>1 DEF SolveNext
<1>11. ASSUME NEW s \in Solvers, RunStore(s) PROVE ResultsCaused'
  <2> DEFINE next == [at |-> "cancel", key |-> solve[s].key, res |-> solve[s].res,
                      cb |-> solve[s].cb]
  <2>1. /\ solve[s].at = "store" /\ UNCHANGED <<wait, done, returned>>
        /\ result' = [result EXCEPT ![solve[s].cb] = solve[s].res]
        /\ solve' = [solve EXCEPT ![s] = next]
    BY <1>11 DEF RunStore, Store
  <2>2. solve[s].cb \in Waiters /\ solve[s].res \in Results
    BY <1>1, <2>1 DEF AwaiterTypeOK, ResultsCaused
  <2>3. next.at = "cancel" /\ next.res = solve[s].res /\ next.cb = solve[s].cb
    OBVIOUS
  <2> HIDE DEF next
  <2>4. /\ \A t \in Solvers : solve'[t].res = solve[t].res /\ solve'[t].cb = solve[t].cb
        /\ solve'[s].at = "cancel" /\ \A t \in Solvers \ {s} : solve'[t].at = solve[t].at
    BY <1>1, <2>1, <2>3 DEF AwaiterTypeOK
  <2>5. /\ result'[solve[s].cb] = solve[s].res /\ solve[s].res # NoResult
        /\ \A w \in Waiters : w # solve[s].cb => result'[w] = result[w]
    BY <1>1, <2>1, <2>2 DEF AwaiterTypeOK
  <2>6. \A t \in Solvers : solve'[t].at = "cancel" => result'[solve'[t].cb] # NoResult
    BY <1>1, <2>4, <2>5 DEF ResultsCaused, AwaiterTypeOK
  <2>7. QED
    BY <1>2, <1>3, <2>1, <2>2, <2>4, <2>5, <2>6 DEF ResultsCaused
<1>12. ASSUME NEW s \in Solvers, RunCancel(s) PROVE ResultsCaused'
  <2>1. /\ solve[s].at = "cancel" /\ UNCHANGED <<wait, result, returned>>
        /\ done' = [done EXCEPT ![solve[s].cb] = TRUE]
        /\ solve' = [solve EXCEPT ![s] = Idle]
    BY <1>12 DEF RunCancel, Cancel
  <2>2. Idle.at = "idle" /\ Idle.cb = Nobody
    BY DEF Idle
  <2>3. solve'[s] = Idle /\ \A t \in Solvers \ {s} : solve'[t] = solve[t]
    BY <1>1, <2>1 DEF AwaiterTypeOK
  <2>4. \A w \in Waiters : done'[w] => done[w] \/ w = solve[s].cb
    BY <1>1, <2>1 DEF AwaiterTypeOK
  <2>5. QED
    BY <1>2, <1>3, <2>1, <2>2, <2>3, <2>4 DEF ResultsCaused
<1>13. QED
  <2>1. ASSUME NEW w \in Waiters,
               \/ IssueSkip(w) \/ IssueError(w) \/ IssueReturn(w) \/ \E k \in Keys : IssueHint(w, k)
        PROVE  UNCHANGED awaiterVars
    BY <2>1 DEF IssueSkip, IssueError, IssueReturn, IssueHint
  <2>2. ASSUME NEW s \in Solvers,
               \/ \E k \in Keys, t \in Keys \cup {NoKey} : VerifyArrive(s, k, t)
               \/ SolveDone(s)
        PROVE  UNCHANGED awaiterVars
    BY <2>2 DEF VerifyArrive, SolveDone
  <2>3. CASE UNCHANGED vars
    BY <1>4, <2>3 DEF vars, awaiterVars
  <2>4. QED
    BY <1>4, <1>5, <1>6, <1>7, <1>9, <1>10, <1>11, <1>12, <2>1, <2>2, <2>3
    DEF Next, PageStep, VerifyStep

LEMMA StepPagesCaused ==
  PreloadInv /\ ResultsCaused /\ PagesCaused /\ [Next]_vars => PagesCaused'
<1> SUFFICES ASSUME PreloadInv, ResultsCaused, PagesCaused, [Next]_vars PROVE PagesCaused'
  OBVIOUS
<1> USE AwaiterAssumption, PreloadAssumption
<1>1. AwaiterTypeOK /\ PreloadTypeOK /\ ResultsCaused'
  BY StepCaused DEF PreloadInv, AwaiterInv
<1>2. \A w \in Waiters : told[w] \subseteq told'[w]
  BY <1>1, ToldGrows
<1>3. \A w \in Waiters : expired[w] => expired'[w]
  BY <1>1 DEF PreloadTypeOK, Next, PageStep, VerifyStep, IssueSkip, IssueError, IssueHint,
     IssueAwait, IssueTimeout, IssueWake, IssueLeave, IssueReturn, VerifyArrive, SolveKey,
     SolveNext, SolveDone, RunStore, RunCancel, vars
<1>4. ASSUME NEW w \in Waiters
      PROVE  \/ page'[w] = page[w] /\ wait'[w] = wait[w]
             \/ page'[w] = page[w] /\ wait[w] # "before" /\ wait'[w] # "before"
             \/ page[w] = "new" /\ page'[w] # "new" /\ wait'[w] = wait[w]
             \/ page'[w] = "waiting"
             \/ /\ wait[w] = "returned" /\ wait' = wait /\ UNCHANGED <<told, expired>>
                /\ page'[w] = IF returned[w] = NoResult THEN "Fail" ELSE returned[w]
  <2>1. CASE UNCHANGED vars
    BY <2>1 DEF vars
  <2>2. ASSUME NEW v \in Waiters, IssueSkip(v) \/ IssueError(v) \/ \E k \in Keys : IssueHint(v, k)
        PROVE  \/ page'[w] = page[w] /\ wait'[w] = wait[w]
               \/ page[w] = "new" /\ page'[w] # "new" /\ wait'[w] = wait[w]
    BY <1>1, <2>2 DEF IssueSkip, IssueError, IssueHint, awaiterVars, PreloadTypeOK
  <2>3. ASSUME NEW v \in Waiters, IssueAwait(v)
        PROVE  (page'[w] = page[w] /\ wait'[w] = wait[w]) \/ page'[w] = "waiting"
    BY <1>1, <2>3 DEF IssueAwait, Await, PreloadTypeOK, AwaiterTypeOK
  <2>4. ASSUME NEW v \in Waiters, IssueTimeout(v) \/ IssueWake(v) \/ IssueLeave(v)
        PROVE  /\ page' = page
               /\ wait'[w] = wait[w] \/ (wait[w] # "before" /\ wait'[w] # "before")
    BY <1>1, <2>4 DEF IssueTimeout, Timeout, IssueWake, Wake, IssueLeave, Leave, AwaiterTypeOK
  <2>5. ASSUME NEW v \in Waiters, IssueReturn(v)
        PROVE  \/ page'[w] = page[w] /\ wait'[w] = wait[w]
               \/ /\ wait[w] = "returned" /\ wait' = wait /\ UNCHANGED <<told, expired>>
                  /\ page'[w] = IF returned[w] = NoResult THEN "Fail" ELSE returned[w]
    BY <1>1, <2>5 DEF IssueReturn, awaiterVars, PreloadTypeOK
  <2>6. ASSUME NEW s \in Solvers,
               \/ \E k \in Keys, t \in Keys \cup {NoKey} : VerifyArrive(s, k, t)
               \/ VerifyStep(s)
        PROVE  page' = page /\ wait' = wait
    BY <2>6 DEF VerifyArrive, VerifyStep, SolveKey, SolveNext, SolveDone, RunStore, RunCancel,
                GetAndDel, Store, Cancel, awaiterVars
  <2>7. QED
    BY <2>1, <2>2, <2>3, <2>4, <2>5, <2>6 DEF Next, PageStep
<1>5. ASSUME NEW w \in Waiters, page'[w] = "Fail", wait'[w] # "before"
      PROVE  expired'[w] \/ \E b \in told'[w] : Verifier(b[1], b[2]) = "Fail"
  <2>1. CASE page[w] = "Fail" /\ wait[w] # "before"
    <3>1. expired[w] \/ \E b \in told[w] : Verifier(b[1], b[2]) = "Fail"
      BY <2>1 DEF PagesCaused, FailHasCause
    <3>2. QED
      BY <1>2, <1>3, <3>1
  <2>2. CASE ~(page[w] = "Fail" /\ wait[w] # "before")
    <3>1. /\ wait[w] = "returned" /\ UNCHANGED <<told, expired>>
          /\ returned[w] = NoResult \/ returned[w] = "Fail"
      BY <1>4, <1>5, <2>2 DEF PagesCaused
    <3>2. QED
      BY <3>1 DEF ResultsCaused, Refused
  <2>3. QED
    BY <2>1, <2>2
<1>6. FailHasCause'
  BY <1>5 DEF FailHasCause, Verifier
<1>7. ASSUME NEW w \in Waiters, page'[w] = "new" PROVE wait'[w] = "before"
  <2>1. page'[w] # "waiting" /\ (returned[w] = NoResult \/ returned[w] \in {"OK", "Fail"})
    BY <1>1, <1>7 DEF AwaiterTypeOK
  <2>2. QED
    BY <1>4, <1>7, <2>1 DEF PagesCaused
<1>8. QED
  BY <1>6, <1>7 DEF PagesCaused

\* A page that was fetched well and in time is never turned down: it fails
\* only after its deadline, or by a fetch that did not verify.
THEOREM FailuresHaveCauses == Spec => []FailHasCause
<1>1. Init => ResultsCaused /\ PagesCaused
  <2>1. Idle.at = "idle" /\ Idle.cb = Nobody
    BY DEF Idle
  <2>2. QED
    BY <2>1, AwaiterAssumption, PreloadAssumption
    DEF Init, AwaiterInit, ResultsCaused, PagesCaused, FailHasCause
<1>2. PagesCaused => FailHasCause
  BY DEF PagesCaused
<1>3. QED
  BY <1>1, <1>2, PreloadInvariance, StepCaused, StepPagesCaused, PTL DEF Spec

---------------------------------------------------------------------------
(* The end of a wait *)

\* A handler that found a page waiting under its token has ended that wait
\* once it is past the Solve that concerns the token: the first one when the
\* token is its own key, the second one otherwise.
EndsWait(s) ==
    present[s] # Nobody =>
      /\ verify[s].at # "idle" /\ verify[s].token \in Keys
      /\ wait[present[s]] # "before"
      /\ verify[s].at = "key-solving" /\ verify[s].token = verify[s].key =>
            callbacks[verify[s].token] # present[s]
      /\ verify[s].at \in {"token-solving", "finished"} =>
            \/ callbacks[verify[s].token] # present[s]
            \/ verify[s].key \notin IPv4Keys /\ verify[s].token \in IPv4Keys

WaitsEnd ==
    /\ present \in [Solvers -> Waiters \cup {Nobody}]
    /\ \A s \in Solvers : EndsWait(s)

\* A page stores its callback once: when it is out of the map it stays out.
LEMMA GoneStays ==
  ASSUME AwaiterInv, [AwaiterNext]_awaiterVars, NEW w \in Waiters, wait[w] # "before"
  PROVE  /\ wait'[w] # "before"
         /\ \A k \in Keys : callbacks[k] # w => callbacks'[k] # w
<1> USE AwaiterAssumption DEF AwaiterInv, AwaiterTypeOK
<1>1. CASE UNCHANGED awaiterVars
  BY <1>1 DEF awaiterVars
<1>2. ASSUME NEW v \in Waiters, NEW k \in Keys, Await(v, k)
      PROVE  /\ wait'[w] # "before"
             /\ \A j \in Keys : callbacks[j] # w => callbacks'[j] # w
  BY <1>2 DEF Await
<1>3. ASSUME NEW v \in Waiters, Timeout(v) \/ Wake(v)
      PROVE  wait'[w] # "before" /\ callbacks' = callbacks
  BY <1>3 DEF Timeout, Wake
<1>4. ASSUME NEW v \in Waiters, Leave(v)
      PROVE  /\ wait'[w] # "before"
             /\ \A j \in Keys : callbacks[j] # w => callbacks'[j] # w
  BY <1>4 DEF Leave
<1>5. ASSUME NEW s \in Solvers, NEW k \in Keys, NEW r \in Results, GetAndDel(s, k, r)
      PROVE  /\ wait'[w] # "before"
             /\ \A j \in Keys : callbacks[j] # w => callbacks'[j] # w
  BY <1>5 DEF GetAndDel
<1>6. ASSUME NEW s \in Solvers, Store(s) \/ Cancel(s)
      PROVE  wait'[w] # "before" /\ callbacks' = callbacks
  BY <1>6 DEF Store, Cancel
<1>7. QED
  BY <1>1, <1>2, <1>3, <1>4, <1>5, <1>6 DEF AwaiterNext

LEMMA StepWaitsEnd == PreloadInv /\ WaitsEnd /\ [Next]_vars => WaitsEnd'
<1> SUFFICES ASSUME PreloadInv, WaitsEnd, [Next]_vars PROVE WaitsEnd'
  OBVIOUS
<1> USE AwaiterAssumption, PreloadAssumption
<1>1. /\ AwaiterInv /\ PreloadTypeOK /\ [AwaiterNext]_awaiterVars
      /\ present \in [Solvers -> Waiters \cup {Nobody}]
      /\ callbacks \in [Keys -> Waiters \cup {Nobody}]
      /\ verify \in [Solvers -> Verifying]
  BY StepUsesAwaiter DEF PreloadInv, WaitsEnd, AwaiterInv, AwaiterTypeOK, PreloadTypeOK
<1>2. ASSUME NEW s \in Solvers, verify'[s] = verify[s], present'[s] = present[s]
      PROVE  EndsWait(s)'
  <2>1. CASE present[s] = Nobody
    BY <1>2, <2>1 DEF EndsWait
  <2>2. CASE present[s] # Nobody
    <3>1. present[s] \in Waiters /\ EndsWait(s)
      BY <1>1, <2>2 DEF WaitsEnd
    <3>2. /\ wait'[present[s]] # "before"
          /\ \A k \in Keys : callbacks[k] # present[s] => callbacks'[k] # present[s]
      BY <1>1, <2>2, <3>1, GoneStays DEF EndsWait
    <3>3. QED
      BY <1>2, <2>2, <3>1, <3>2 DEF EndsWait
  <2>3. QED
    BY <2>1, <2>2
\* A handler that moves on and keeps its key, its token and its waiter.
<1>3. ASSUME NEW s \in Solvers, NEW at \in Steps, verify' = [verify EXCEPT ![s] = VerifyAt(s, at)],
             present' = present,
             present[s] # Nobody =>
               /\ at # "idle" /\ verify[s].at # "idle"
               /\ at = "key-solving" /\ verify[s].token = verify[s].key =>
                     callbacks'[verify[s].token] # present[s]
               /\ at \in {"token-solving", "finished"} =>
                     \/ callbacks'[verify[s].token] # present[s]
                     \/ verify[s].key \notin IPv4Keys /\ verify[s].token \in IPv4Keys
      PROVE  WaitsEnd'
  <2>1. /\ verify'[s].at = at /\ verify'[s].key = verify[s].key
        /\ verify'[s].token = verify[s].token
    BY <1>1, <1>3 DEF VerifyAt
  <2>2. EndsWait(s)'
    <3>1. CASE present[s] = Nobody
      BY <1>3, <3>1 DEF EndsWait
    <3>2. CASE present[s] # Nobody
      <4>1. present[s] \in Waiters /\ EndsWait(s)
        BY <1>1, <3>2 DEF WaitsEnd
      <4>2. wait'[present[s]] # "before"
        BY <1>1, <3>2, <4>1, GoneStays DEF EndsWait
      <4>3. QED
        BY <1>3, <2>1, <3>2, <4>1, <4>2 DEF EndsWait
    <3>3. QED
      BY <3>1, <3>2
  <2>3. ASSUME NEW t \in Solvers, t # s PROVE EndsWait(t)'
    <3>1. verify'[t] = verify[t] /\ present'[t] = present[t]
      BY <1>1, <1>3, <2>3
    <3>2. QED
      BY <1>2, <3>1
  <2>4. QED
    BY <1>1, <1>3, <2>2, <2>3 DEF WaitsEnd
<1>4. ASSUME verify' = verify, present' = present PROVE WaitsEnd'
  BY <1>1, <1>2, <1>4 DEF WaitsEnd
\* The verifier only lets a foreign token pass when it is an IPv4 one.
<1>5. ASSUME NEW s \in Solvers, verify[s].at # "idle", verify[s].res = "OK"
      PROVE  \/ verify[s].token = verify[s].key
             \/ verify[s].key \notin IPv4Keys /\ verify[s].token \in IPv4Keys
  BY <1>1, <1>5 DEF PreloadTypeOK, Verifier
<1>6. ASSUME NEW s \in Solvers, NEW k \in Keys, NEW t \in Keys \cup {NoKey},
             VerifyArrive(s, k, t)
      PROVE  WaitsEnd'
  <2> DEFINE begun == [at |-> "solve-key", key |-> k, token |-> t, res |-> Verifier(k, t)]
             there == IF t = NoKey THEN Nobody ELSE callbacks[t]
  <2>1. /\ verify' = [verify EXCEPT ![s] = begun] /\ present' = [present EXCEPT ![s] = there]
        /\ UNCHANGED awaiterVars
    BY <1>6 DEF VerifyArrive
  <2>2. t \in Keys \cup {NoKey}
    BY <1>1 DEF PreloadTypeOK
  <2>3. there \in Waiters \cup {Nobody}
    BY <1>1, <2>2
  <2>4. there # Nobody => t \in Keys /\ wait[there] # "before"
    BY <1>1, <2>2 DEF AwaiterInv, NoLeakedCallback
  <2> HIDE DEF there
  <2>5. verify'[s].at = "solve-key" /\ verify'[s].token = t /\ present'[s] = there
    BY <1>1, <2>1
  <2>6. EndsWait(s)'
    BY <2>1, <2>4, <2>5 DEF EndsWait, awaiterVars
  <2>7. ASSUME NEW u \in Solvers, u # s PROVE EndsWait(u)'
    <3>1. verify'[u] = verify[u] /\ present'[u] = present[u]
      BY <1>1, <2>1, <2>7
    <3>2. QED
      BY <1>2, <3>1
  <2>8. QED
    BY <1>1, <2>1, <2>3, <2>6, <2>7 DEF WaitsEnd
<1>7. ASSUME NEW s \in Solvers, SolveKey(s) PROVE WaitsEnd'
  <2>1. /\ verify[s].at = "solve-key" /\ verify' = [verify EXCEPT ![s] = VerifyAt(s, "key-solving")]
        /\ present' = present /\ GetAndDel(s, verify[s].key, verify[s].res)
    BY <1>7 DEF SolveKey
  <2>2. verify[s].key \in Keys
    BY <1>1, <2>1 DEF PreloadTypeOK
  <2>3. callbacks'[verify[s].key] = Nobody
    BY <1>1, <2>1, <2>2 DEF GetAndDel
  <2>4. "key-solving" \in Steps
    BY DEF Steps
  <2>5. QED
    BY <1>3, <2>1, <2>3, <2>4
<1>8. ASSUME NEW s \in Solvers, SolveNext(s) PROVE WaitsEnd'
  <2>1. verify[s].at = "key-solving" /\ present' = present
    BY <1>8 DEF SolveNext
  <2>2. "token-solving" \in Steps /\ "finished" \in Steps
    BY DEF Steps
  <2>3. CASE verify[s].res # "OK" /\ verify[s].token # NoKey
    <3>1. /\ verify' = [verify EXCEPT ![s] = VerifyAt(s, "token-solving")]
          /\ GetAndDel(s, verify[s].token, verify[s].res)
      BY <1>8, <2>3 DEF SolveNext
    <3>2. verify[s].token \in Keys
      BY <1>1, <2>3 DEF Verifying
    <3>3. callbacks'[verify[s].token] = Nobody
      BY <1>1, <3>1, <3>2 DEF GetAndDel
    <3>4. QED
      BY <1>3, <2>1, <2>2, <3>1, <3>3
  <2>4. CASE ~(verify[s].res # "OK" /\ verify[s].token # NoKey)
    <3>1. /\ verify' = [verify EXCEPT ![s] = VerifyAt(s, "finished")]
          /\ UNCHANGED awaiterVars
      BY <1>8, <2>4 DEF SolveNext
    <3>2. ASSUME present[s] # Nobody
          PROVE  \/ callbacks'[verify[s].token] # present[s]
                 \/ verify[s].key \notin IPv4Keys /\ verify[s].token \in IPv4Keys
      <4>1. EndsWait(s)
        BY DEF WaitsEnd
      <4>2. verify[s].res = "OK"
        BY <2>4, <3>2, <4>1 DEF EndsWait
      <4>3. QED
        BY <1>5, <2>1, <3>1, <3>2, <4>1, <4>2 DEF EndsWait, awaiterVars
    <3>3. QED
      BY <1>3, <2>1, <2>2, <3>1, <3>2
  <2>5. QED
    BY <2>3, <2>4
<1>9. ASSUME NEW s \in Solvers, SolveDone(s) PROVE WaitsEnd'
  <2>1. /\ verify[s].at = "token-solving" /\ present' = present
        /\ verify' = [verify EXCEPT ![s] = VerifyAt(s, "finished")] /\ UNCHANGED awaiterVars
    BY <1>9 DEF SolveDone
  <2>2. EndsWait(s) /\ "finished" \in Steps
    BY DEF WaitsEnd, Steps
  <2>3. QED
    BY <1>3, <2>1, <2>2 DEF EndsWait, awaiterVars
<1>10. QED
  BY <1>4, <1>6, <1>7, <1>8, <1>9 DEF Next, PageStep, VerifyStep, IssueSkip, IssueError, IssueHint,
     IssueAwait, IssueTimeout, IssueWake, IssueLeave, IssueReturn, RunStore, RunCancel, vars

\* Once the browser has fetched the link of a waiting page, that page is no
\* longer in the map when the verify handler ends, whichever key the fetch
\* had, unless it fetched an IPv4 link over IPv6.
THEOREM FetchesEndWaits == Spec => []FetchEndsWait
<1>1. Init => WaitsEnd
  BY DEF Init, WaitsEnd, EndsWait
<1>2. WaitsEnd => FetchEndsWait
  BY DEF WaitsEnd, EndsWait, FetchEndsWait
<1>3. QED
  BY <1>1, <1>2, PreloadInvariance, StepWaitsEnd, PTL DEF Spec
============================================================================
