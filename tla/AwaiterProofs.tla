--------------------------- MODULE AwaiterProofs ---------------------------
(***************************************************************************)
(* Proofs about Awaiter, for any number of calls and keys.                 *)
(***************************************************************************)
EXTENDS Awaiter, TLAPS

AwaiterInv == AwaiterTypeOK /\ NoLeakedCallback /\ CallbackOwnedOnce /\ CallbackPlaced

\* One callback is under one key only.
LEMMA OneKeyEach ==
  ASSUME NoLeakedCallback, Nobody \notin Waiters,
         NEW w \in Waiters, NEW k \in Keys, NEW j \in Keys,
         callbacks[k] = w, callbacks[j] = w
  PROVE  k = j
BY DEF NoLeakedCallback

LEMMA AwaiterInitInv == AwaiterInit => AwaiterInv
<1> SUFFICES ASSUME AwaiterInit PROVE AwaiterInv
  OBVIOUS
<1> USE AwaiterAssumption DEF AwaiterInit
<1>1. Idle \in Solving /\ Idle.cb = Nobody /\ Idle.at = "idle"
  BY DEF Idle, Solving
<1>2. AwaiterTypeOK
  BY <1>1 DEF AwaiterTypeOK
<1>3. NoLeakedCallback
  BY DEF NoLeakedCallback
<1>4. CallbackOwnedOnce
  BY <1>1 DEF CallbackOwnedOnce
<1>5. CallbackPlaced
  BY <1>1 DEF CallbackPlaced
<1>6. QED
  BY <1>2, <1>3, <1>4, <1>5 DEF AwaiterInv

LEMMA AwaiterStepInv == AwaiterInv /\ [AwaiterNext]_awaiterVars => AwaiterInv'
<1> SUFFICES ASSUME AwaiterInv, [AwaiterNext]_awaiterVars PROVE AwaiterInv'
  OBVIOUS
<1> USE AwaiterAssumption DEF AwaiterInv
<1>1. ASSUME NEW w \in Waiters, NEW k \in Keys, Await(w, k) PROVE AwaiterInv'
  <2>1. AwaiterTypeOK'
    BY <1>1 DEF Await, AwaiterTypeOK
  <2>2. NoLeakedCallback'
    BY <1>1 DEF Await, AwaiterTypeOK, NoLeakedCallback
  <2>3. CallbackOwnedOnce'
    BY <1>1 DEF Await, AwaiterTypeOK, CallbackOwnedOnce, CallbackPlaced
  <2>4. CallbackPlaced'
    BY <1>1 DEF Await, AwaiterTypeOK, CallbackPlaced
  <2>5. QED
    BY <2>1, <2>2, <2>3, <2>4
<1>2. ASSUME NEW w \in Waiters, Timeout(w) PROVE AwaiterInv'
  <2>1. AwaiterTypeOK'
    BY <1>2 DEF Timeout, AwaiterTypeOK
  <2>2. QED
    BY <1>2, <2>1 DEF Timeout, NoLeakedCallback, CallbackOwnedOnce, CallbackPlaced
<1>3. ASSUME NEW w \in Waiters, Wake(w) PROVE AwaiterInv'
  <2>1. AwaiterTypeOK'
    BY <1>3 DEF Wake, AwaiterTypeOK
  <2>2. NoLeakedCallback'
    BY <1>3 DEF Wake, AwaiterTypeOK, NoLeakedCallback
  <2>3. CallbackOwnedOnce'
    BY <1>3 DEF Wake, CallbackOwnedOnce
  <2>4. CallbackPlaced'
    BY <1>3 DEF Wake, AwaiterTypeOK, CallbackPlaced
  <2>5. QED
    BY <2>1, <2>2, <2>3, <2>4
<1>4. ASSUME NEW w \in Waiters, Leave(w) PROVE AwaiterInv'
  <2>1. waitKey[w] \in Keys
    BY <1>4 DEF Leave, CallbackPlaced
  <2>2. AwaiterTypeOK'
    BY <1>4, <2>1 DEF Leave, AwaiterTypeOK
  <2>3. NoLeakedCallback'
    \* A callback of w itself can only be under w's key, which is deleted.
    BY <1>4, <2>1 DEF Leave, AwaiterTypeOK, NoLeakedCallback
  <2>4. CallbackOwnedOnce'
    BY <1>4, <2>1 DEF Leave, AwaiterTypeOK, CallbackOwnedOnce
  <2>5. CallbackPlaced'
    BY <1>4 DEF Leave, AwaiterTypeOK, CallbackPlaced
  <2>6. QED
    BY <2>2, <2>3, <2>4, <2>5
<1>5. ASSUME NEW s \in Solvers, NEW k \in Keys, NEW r \in Results, GetAndDel(s, k, r)
      PROVE  AwaiterInv'
  <2> DEFINE taken == [at |-> "store", key |-> k, res |-> r, cb |-> callbacks[k]]
  <2>1. /\ Idle \in Solving /\ Idle.cb = Nobody /\ Idle.at = "idle"
        /\ taken \in Solving /\ taken.cb = callbacks[k]
    BY DEF Idle, Solving, AwaiterTypeOK
  <2>2. solve' = [solve EXCEPT ![s] = IF callbacks[k] = Nobody THEN Idle ELSE taken]
    BY <1>5 DEF GetAndDel
  <2>3. solve'[s].cb = callbacks[k] /\ \A t \in Solvers : t # s => solve'[t] = solve[t]
    BY <2>1, <2>2 DEF AwaiterTypeOK
  <2>4. AwaiterTypeOK'
    <3>1. ASSUME NEW t \in Solvers, solve'[t].at # "idle" PROVE solve'[t].cb \in Waiters
      BY <2>1, <2>2, <2>3, <3>1 DEF AwaiterTypeOK
    <3>2. QED
      BY <1>5, <2>1, <2>2, <3>1 DEF GetAndDel, AwaiterTypeOK
  <2>5. NoLeakedCallback'
    BY <1>5 DEF GetAndDel, AwaiterTypeOK, NoLeakedCallback
  <2>6. CallbackOwnedOnce'
    <3>1. ASSUME NEW w \in Waiters, NEW t \in Solvers, NEW u \in Solvers,
                 solve'[t].cb = w, solve'[u].cb = w
          PROVE  t = u
      BY <2>3, <3>1 DEF CallbackOwnedOnce
    <3>2. ASSUME NEW w \in Waiters, NEW t \in Solvers, NEW j \in Keys,
                 solve'[t].cb = w, callbacks'[j] = w
          PROVE  FALSE
      <4>1. callbacks[j] = w /\ j # k
        BY <1>5, <3>2 DEF GetAndDel, AwaiterTypeOK
      <4>2. CASE t = s
        BY <2>3, <3>2, <4>1, <4>2, OneKeyEach
      <4>3. CASE t # s
        BY <2>3, <3>2, <4>1, <4>3 DEF CallbackOwnedOnce
      <4>4. QED
        BY <4>2, <4>3
    <3>3. QED
      BY <3>1, <3>2 DEF CallbackOwnedOnce
  <2>7. CallbackPlaced'
    <3>1. ASSUME NEW t \in Solvers, solve'[t].cb \in Waiters
          PROVE  wait[solve'[t].cb] # "before"
      BY <2>3, <3>1 DEF CallbackPlaced, NoLeakedCallback
    <3>2. QED
      BY <1>5, <3>1 DEF GetAndDel, CallbackPlaced
  <2>8. QED
    BY <2>4, <2>5, <2>6, <2>7
<1>6. ASSUME NEW s \in Solvers, Store(s) PROVE AwaiterInv'
  <2>1. solve[s] \in Solving /\ solve[s].cb \in Waiters
    BY <1>6 DEF Store, AwaiterTypeOK
  <2> DEFINE next == [at |-> "cancel", key |-> solve[s].key, res |-> solve[s].res,
                      cb |-> solve[s].cb]
  <2>2. next \in Solving /\ next.cb = solve[s].cb
    BY <2>1 DEF Solving
  <2>3. \A t \in Solvers : solve'[t].cb = solve[t].cb
    BY <1>6, <2>2 DEF Store, AwaiterTypeOK
  <2>4. AwaiterTypeOK'
    BY <1>6, <2>1, <2>2 DEF Store, AwaiterTypeOK, Solving
  <2>5. NoLeakedCallback' /\ CallbackOwnedOnce'
    BY <1>6, <2>3 DEF Store, NoLeakedCallback, CallbackOwnedOnce
  <2>6. CallbackPlaced'
    BY <1>6, <2>1, <2>3 DEF Store, AwaiterTypeOK, CallbackPlaced
  <2>7. QED
    BY <2>4, <2>5, <2>6
<1>7. ASSUME NEW s \in Solvers, Cancel(s) PROVE AwaiterInv'
  <2>1. solve[s].cb \in Waiters
    BY <1>7 DEF Cancel, AwaiterTypeOK
  <2>2. Idle \in Solving /\ Idle.cb = Nobody /\ Idle.at = "idle"
    BY DEF Idle, Solving
  <2>3. \A t \in Solvers : solve'[t] = IF t = s THEN Idle ELSE solve[t]
    BY <1>7 DEF Cancel, AwaiterTypeOK
  <2>4. AwaiterTypeOK'
    BY <1>7, <2>1, <2>2 DEF Cancel, AwaiterTypeOK
  <2>5. NoLeakedCallback' /\ CallbackOwnedOnce'
    BY <1>7, <2>2, <2>3 DEF Cancel, NoLeakedCallback, CallbackOwnedOnce
  <2>6. CallbackPlaced'
    BY <1>7, <2>2, <2>3 DEF Cancel, CallbackPlaced
  <2>7. QED
    BY <2>4, <2>5, <2>6
<1>8. CASE UNCHANGED awaiterVars
  BY <1>8 DEF awaiterVars, AwaiterTypeOK, NoLeakedCallback, CallbackOwnedOnce, CallbackPlaced
<1>9. QED
  BY <1>1, <1>2, <1>3, <1>4, <1>5, <1>6, <1>7, <1>8 DEF AwaiterNext

\* The invariant of the Awaiter.
THEOREM AwaiterInvariance == AwaiterSpec => []AwaiterInv
BY AwaiterInitInv, AwaiterStepInv, PTL DEF AwaiterSpec

\* Every variable of the Awaiter keeps its type, for any waiters and solvers.
THEOREM AwaiterTypeCorrect == AwaiterSpec => []AwaiterTypeOK
BY AwaiterInvariance, PTL DEF AwaiterInv

\* No callback outlives its call of Await, whoever replaces, takes or deletes
\* callbacks under the same key in between.
THEOREM CallbacksDoNotLeak == AwaiterSpec => []NoLeakedCallback
BY AwaiterInvariance, PTL DEF AwaiterInv

\* No two calls of Solve ever hold the same callback, and none holds one that
\* another call could still find.
THEOREM CallbacksRunOnce == AwaiterSpec => []CallbackOwnedOnce
BY AwaiterInvariance, PTL DEF AwaiterInv
============================================================================
