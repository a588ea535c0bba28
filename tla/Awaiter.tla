------------------------------ MODULE Awaiter ------------------------------
(***************************************************************************)
(* challenge.Awaiter: a page request waits under a key for the result that *)
(* another request of the same client will bring.  The map is a concurrent *)
(* one whose Set, Del and GetAndDel are each one step; nothing else is     *)
(* locked.                                                                 *)
(*                                                                         *)
(* Await's last lines run in the order Go gives them: the result is loaded *)
(* for the return statement, then the deferred Del runs, and it deletes    *)
(* whatever is under the key by then.                                      *)
(***************************************************************************)

CONSTANTS Waiters,    \* calls of Await
          Solvers,    \* calls of Solve
          Keys,       \* the keys, which the waiters' callbacks are stored under
          Results,    \* what a solver may bring
          NoResult,   \* the zero value of the result, VerifyResultNone
          Nobody, NoKey

VARIABLES callbacks,  \* callbacks[k]: the waiter whose callback is under k, or Nobody
          wait,       \* wait[w]: where w is inside Await
          waitKey,    \* waitKey[w]: the key it waits under
          done,       \* done[w]: its context is done
          result,     \* result[w]: the atomic its callback stores to
          returned,   \* returned[w]: what Await returned
          solve       \* solve[s]: the step a solver is at, its key, its result,
                      \* and the waiter whose callback it took

awaiterVars == <<callbacks, wait, waitKey, done, result, returned, solve>>

ASSUME AwaiterAssumption ==
    NoResult \notin Results /\ Nobody \notin Waiters /\ NoKey \notin Keys

\* A call of Solve: between two steps of it, and between two calls.
Solving == [at : {"idle", "store", "cancel"}, key : Keys \cup {NoKey},
            res : Results \cup {NoResult}, cb : Waiters \cup {Nobody}]

Idle == [at |-> "idle", key |-> NoKey, res |-> NoResult, cb |-> Nobody]

AwaiterInit ==
    /\ callbacks = [k \in Keys |-> Nobody]
    /\ wait = [w \in Waiters |-> "before"]
    /\ waitKey = [w \in Waiters |-> NoKey]
    /\ done = [w \in Waiters |-> FALSE]
    /\ result = [w \in Waiters |-> NoResult]
    /\ returned = [w \in Waiters |-> NoResult]
    /\ solve = [s \in Solvers |-> Idle]

\* Await stores its callback; one already under the key is replaced.
Await(w, k) ==
    /\ wait[w] = "before"
    /\ callbacks' = [callbacks EXCEPT ![k] = w]
    /\ wait' = [wait EXCEPT ![w] = "waiting"]
    /\ waitKey' = [waitKey EXCEPT ![w] = k]
    /\ UNCHANGED <<done, result, returned, solve>>

\* The deadline passes, or the client goes away.
Timeout(w) ==
    /\ wait[w] = "waiting" /\ ~done[w]
    /\ done' = [done EXCEPT ![w] = TRUE]
    /\ UNCHANGED <<callbacks, wait, waitKey, result, returned, solve>>

\* Mutation: only a result ends the wait.
WakeOnResult(w) ==
    /\ wait[w] = "waiting" /\ result[w] # NoResult
    /\ returned' = [returned EXCEPT ![w] = result[w]]
    /\ wait' = [wait EXCEPT ![w] = "leaving"]
    /\ UNCHANGED <<callbacks, waitKey, done, result, solve>>

\* <-ctx.Done() and the load of the return value.
Wake(w) ==
    /\ wait[w] = "waiting" /\ done[w]
    /\ returned' = [returned EXCEPT ![w] = result[w]]
    /\ wait' = [wait EXCEPT ![w] = "leaving"]
    /\ UNCHANGED <<callbacks, waitKey, done, result, solve>>

\* Mutation: the cleanup is forgotten.
LeaveWithoutDel(w) ==
    /\ wait[w] = "leaving"
    /\ wait' = [wait EXCEPT ![w] = "returned"]
    /\ UNCHANGED <<callbacks, waitKey, done, result, returned, solve>>

\* The deferred Del(key).
Leave(w) ==
    /\ wait[w] = "leaving"
    /\ callbacks' = [callbacks EXCEPT ![waitKey[w]] = Nobody]
    /\ wait' = [wait EXCEPT ![w] = "returned"]
    /\ UNCHANGED <<waitKey, done, result, returned, solve>>

\* Mutation: the callback is read and stays in the map.
GetAndKeep(s, k, r) ==
    /\ solve[s].at = "idle"
    /\ solve' = [solve EXCEPT ![s] =
          IF callbacks[k] = Nobody THEN Idle
          ELSE [at |-> "store", key |-> k, res |-> r, cb |-> callbacks[k]]]
    /\ UNCHANGED <<callbacks, wait, waitKey, done, result, returned>>

\* Mutation: Solve does not look at ok and calls what it got.
GetAndDelUnchecked(s, k, r) ==
    /\ solve[s].at = "idle"
    /\ solve' = [solve EXCEPT ![s] = [at |-> "store", key |-> k, res |-> r, cb |-> callbacks[k]]]
    /\ callbacks' = [callbacks EXCEPT ![k] = Nobody]
    /\ UNCHANGED <<wait, waitKey, done, result, returned>>

\* Solve takes the callback out of the map, or finds none and returns.
GetAndDel(s, k, r) ==
    /\ solve[s].at = "idle"
    /\ solve' = [solve EXCEPT ![s] =
          IF callbacks[k] = Nobody THEN Idle
          ELSE [at |-> "store", key |-> k, res |-> r, cb |-> callbacks[k]]]
    /\ callbacks' = [callbacks EXCEPT ![k] = Nobody]
    /\ UNCHANGED <<wait, waitKey, done, result, returned>>

\* The callback stores the result ...
Store(s) ==
    /\ solve[s].at = "store"
    /\ result' = [result EXCEPT ![solve[s].cb] = solve[s].res]
    /\ solve' = [solve EXCEPT ![s] = [at |-> "cancel", key |-> solve[s].key,
                                      res |-> solve[s].res, cb |-> solve[s].cb]]
    /\ UNCHANGED <<callbacks, wait, waitKey, done, returned>>

\* Mutation: the context may be cancelled before the result is stored.
CancelBeforeStore(s) ==
    /\ solve[s].at \in {"store", "cancel"}
    /\ done' = [done EXCEPT ![solve[s].cb] = TRUE]
    /\ solve' = IF solve[s].at = "store" THEN solve ELSE [solve EXCEPT ![s] = Idle]
    /\ UNCHANGED <<callbacks, wait, waitKey, result, returned>>

\* ... and cancels the waiter's context.
Cancel(s) ==
    /\ solve[s].at = "cancel"
    /\ done' = [done EXCEPT ![solve[s].cb] = TRUE]
    /\ solve' = [solve EXCEPT ![s] = Idle]
    /\ UNCHANGED <<callbacks, wait, waitKey, result, returned>>

AwaiterNext ==
    \/ \E w \in Waiters : \/ \E k \in Keys : Await(w, k)
                          \/ Timeout(w) \/ Wake(w) \/ Leave(w)
    \/ \E s \in Solvers : \/ \E k \in Keys, r \in Results : GetAndDel(s, k, r)
                          \/ Store(s) \/ Cancel(s)

AwaiterSpec == AwaiterInit /\ [][AwaiterNext]_awaiterVars

---------------------------------------------------------------------------
\* Every variable has its type, and a Solve that goes on has a callback to call.
AwaiterTypeOK ==
    /\ callbacks \in [Keys -> Waiters \cup {Nobody}]
    /\ wait \in [Waiters -> {"before", "waiting", "leaving", "returned"}]
    /\ waitKey \in [Waiters -> Keys \cup {NoKey}]
    /\ done \in [Waiters -> BOOLEAN]
    /\ result \in [Waiters -> Results \cup {NoResult}]
    /\ returned \in [Waiters -> Results \cup {NoResult}]
    /\ solve \in [Solvers -> Solving]
    /\ \A s \in Solvers : solve[s].at # "idle" => solve[s].cb \in Waiters

\* The map never leaks: a callback that is stored belongs to a call of Await
\* under that very key that has not returned yet, however calls under the
\* same key replace and delete each other's callbacks.
NoLeakedCallback ==
    \A k \in Keys : callbacks[k] # Nobody =>
        /\ wait[callbacks[k]] \in {"waiting", "leaving"}
        /\ waitKey[callbacks[k]] = k

\* A callback is called at most once: it is under a key, in the hands of one
\* solver, or gone.
CallbackOwnedOnce ==
    \A w \in Waiters :
        /\ \A s, t \in Solvers : solve[s].cb = w /\ solve[t].cb = w => s = t
        /\ \A s \in Solvers : solve[s].cb = w => \A k \in Keys : callbacks[k] # w

\* Where a callback can be: in the hands of a solver only once its call of
\* Await has stored it, under a key of the map.  With the invariants above this is
\* inductive.
CallbackPlaced ==
    /\ \A s \in Solvers : solve[s].cb \in Waiters => wait[solve[s].cb] # "before"
    /\ \A w \in Waiters : wait[w] \in {"waiting", "leaving"} => waitKey[w] \in Keys
===========================================================================
