-------------------------- MODULE ServiceProofs ---------------------------
(***************************************************************************)
(* Proofs about Service, for any set of requests and any number of edits,  *)
(* signals and loads.                                                      *)
(***************************************************************************)
EXTENDS Service, ReloadProofs

\* What main, Close and the requests do to the variables of Reload.
LEMMA ServiceStep == [ServiceNext]_allVars => [Next]_vars
<1> SUFFICES ASSUME [ServiceNext]_allVars PROVE [Next]_vars
  OBVIOUS
<1>1. CASE ServiceLoader
  BY <1>1 DEF ServiceLoader, BuildState, ReadFile, CloseChannel, CloseFails, CloseReturns,
              CloseObject, Next, Loader
<1>2. ASSUME NEW r \in Requests, RequestStep(r) PROVE UNCHANGED vars
  BY <1>2 DEF RequestStep, Enter, Instantiate, EndRun, MakeChallenge, Assign, Decide, Backend
<1>3. CASE (Edit \/ Sighup) /\ UNCHANGED serviceVars
  BY <1>3 DEF Next
<1>4. CASE UNCHANGED allVars
  BY <1>4 DEF allVars
<1>5. QED
  BY <1>1, <1>2, <1>3, <1>4 DEF ServiceNext

\* A service with requests in it loads, swaps and closes States as Reload
\* does: what is proved of Reload holds while requests run.
THEOREM ServiceUsesReload == ServiceSpec => Spec
BY ServiceStep, PTL DEF ServiceSpec, ServiceInit, Spec

\* The policy that requests meet is never older than the one before.
THEOREM ServiceRefines == ServiceSpec => ImplementsPolicyService
BY ServiceUsesReload, ReloadRefines, PTL

LEMMA StateIdsFacts ==
    /\ StateIds \subseteq Nat /\ Nil \notin StateIds /\ Direct \notin StateIds /\ Nil # Direct
BY ReloadAssumption DEF StateIds

---------------------------------------------------------------------------
(* Types *)

RequestTypeOK ==
    /\ request \in [Requests -> Request]
    /\ err \in [StateIds -> BOOLEAN]

ObjectsTypeOK ==
    /\ objects \in [StateIds -> [Objects -> {"none", "open", "closed"}]]
    /\ closing \in {"no", "begun", "failed"}
    /\ errorHandler \in StateIds \cup {Nil}
    /\ dropped \subseteq StateIds /\ unclosed \subseteq StateIds

\* Building a State, in NewState or up to the point where it hangs.
LEMMA BuildFacts ==
  ASSUME Inv, ObjectsTypeOK, BuildState
  PROVE  /\ loads + 1 \in StateIds /\ loads' = loads + 1
         /\ \A s \in StateIds \ {loads + 1} : states'[s] = states[s] /\ objects'[s] = objects[s]
         /\ objects'[loads + 1] \in [Objects -> {"none", "open"}]
         /\ states'[loads + 1].built => \A o \in Objects : objects'[loads + 1][o] = "open"
<1> USE ReloadAssumption DEF Inv, TypeOK, ObjectsTypeOK
<1>1. loads < MaxLoads /\ loads' = loads + 1
  BY DEF BuildState, NewState, NewStateHangs, LoaderInv
<1>2. loads + 1 \in StateIds
  BY <1>1 DEF StateIds
<1>3. \A s \in StateIds \ {loads + 1} : states'[s] = states[s]
  BY DEF BuildState, NewState, NewStateHangs
<1>4. PICK made \in SUBSET Objects :
        /\ states'[loads + 1].built => made = Objects
        /\ objects' = [objects EXCEPT ![loads + 1] =
               [o \in Objects |-> IF o \in made THEN "open" ELSE "none"]]
  BY DEF BuildState, MakeObjects
<1>5. QED
  BY <1>1, <1>2, <1>3, <1>4

---------------------------------------------------------------------------
(* The objects of the States *)

\* What main still has of the first load and of the State a reload replaces.
MainInv ==
    /\ proc = "starting" => pointer \notin StateIds
    /\ proc = "loaded" => loop = "wait"
    /\ proc = "starting" =>
          /\ loop \in {"read", "build", "hung", "swap"} /\ oldHandler = Nil
          /\ loop # "swap" => handler = Nil
          /\ loop \in {"read", "build"} => loads = 0 /\ errorHandler = Nil
    /\ proc = "running" /\ loop \in {"read", "build", "hung"} => oldHandler = handler
    /\ loop = "swap" => states[handler].built
    /\ loop = "swap" \/ proc \in {"loaded", "running"} =>
          errorHandler \in StateIds /\ errorHandler <= loads /\ states[errorHandler].built

\* How far Close is, and what there is of every State.
ObjectsInv ==
    /\ closing # "no" =>
          /\ loop = "close" /\ oldHandler \in StateIds /\ proc = "running"
          /\ objects[oldHandler]["tags"] = "closed"
    /\ closing = "failed" => oldHandler \in unclosed
    /\ loop = "swap" => \A o \in Objects : objects[handler][o] = "open"
    /\ \A s \in StateIds : s > loads => ~Live(s)

MainAll == Inv /\ ObjectsTypeOK /\ MainInv /\ ObjectsInv /\ ServedObjectsOpen /\ LeakOnlyAfterFailure

LEMMA MainInit == ServiceInit => MainAll
<1> SUFFICES ASSUME ServiceInit PROVE MainAll
  OBVIOUS
<1> USE StateIdsFacts DEF ServiceInit
<1>1. Inv
  BY InitInv
<1>2. ObjectsTypeOK
  BY DEF ObjectsTypeOK, NoObjects
<1>3. \A s \in StateIds : ~Live(s)
  BY DEF Live, NoObjects
<1>4. pointer \notin StateIds /\ proc = "starting" /\ loop = "read"
  BY DEF Init
<1>5. MainInv /\ ObjectsInv
  BY <1>3, <1>4 DEF MainInv, ObjectsInv, Init
<1>6. QED
  BY <1>1, <1>2, <1>3, <1>4, <1>5 DEF MainAll, ServedObjectsOpen, LeakOnlyAfterFailure

LEMMA ObjectsTypeStep == MainAll /\ [ServiceNext]_allVars => ObjectsTypeOK'
<1> SUFFICES ASSUME MainAll, [ServiceNext]_allVars PROVE ObjectsTypeOK'
  OBVIOUS
<1> USE StateIdsFacts DEF MainAll
<1>1. CASE BuildState
  <2>1. objects' \in [StateIds -> [Objects -> {"none", "open", "closed"}]]
    <3>1. PICK made \in SUBSET Objects :
            objects' = [objects EXCEPT ![loads + 1] =
               [o \in Objects |-> IF o \in made THEN "open" ELSE "none"]]
      BY <1>1 DEF BuildState, MakeObjects
    <3>2. QED
      BY <3>1 DEF ObjectsTypeOK
  <2>2. loads + 1 \in StateIds
    BY <1>1, BuildFacts
  <2>3. dropped' \subseteq StateIds
    BY <1>1 DEF BuildState, Drops, ObjectsTypeOK, Inv, TypeOK
  <2>4. QED
    BY <1>1, <2>1, <2>2, <2>3 DEF BuildState, Install, ObjectsTypeOK
<1>2. CASE ReadFile
  BY <1>2 DEF ReadFile, Drops, ObjectsTypeOK, Inv, TypeOK
<1>3. CASE CloseChannel
  BY <1>3 DEF CloseChannel, ObjectsTypeOK
<1>f. CASE CloseFails
  BY <1>f DEF CloseFails, ObjectsTypeOK, ObjectsInv
<1>c. CASE CloseReturns
  BY <1>c DEF CloseReturns, ObjectsTypeOK
<1>4. ASSUME NEW o \in Objects, CloseObject(o) PROVE ObjectsTypeOK'
  BY <1>4 DEF CloseObject, ObjectsTypeOK
<1>5. ASSUME NEW r \in Requests, RequestStep(r) PROVE ObjectsTypeOK'
  BY <1>5 DEF RequestStep, Enter, Instantiate, EndRun, MakeChallenge, Assign, Decide, Backend,
              ObjectsTypeOK
<1>6. CASE UNCHANGED serviceVars
  BY <1>6 DEF serviceVars, ObjectsTypeOK
<1>7. QED
  BY <1>1, <1>2, <1>3, <1>f, <1>c, <1>4, <1>5, <1>6 DEF ServiceNext, ServiceLoader, allVars

LEMMA MainStep == MainAll /\ [ServiceNext]_allVars => MainInv'
<1> SUFFICES ASSUME MainAll, [ServiceNext]_allVars PROVE MainInv'
  OBVIOUS
<1> USE StateIdsFacts DEF MainAll
<1>0. \A s \in StateIds : states[s] \in StateRecord /\ s \in Nat
  BY DEF Inv, TypeOK
<1>1. CASE BuildState
  <2>1. /\ loads + 1 \in StateIds /\ loads' = loads + 1 /\ loads \in Nat
        /\ \A s \in StateIds \ {loads + 1} : states'[s] = states[s]
    BY <1>1, BuildFacts DEF Inv, TypeOK
  <2>2. errorHandler' = IF errorHandler = Nil THEN loads + 1 ELSE errorHandler
    BY <1>1 DEF BuildState, Install
  <2>3. errorHandler \in StateIds /\ errorHandler <= loads => errorHandler # loads + 1 /\ errorHandler <= loads + 1
    BY <1>0, <2>1
  <2>4. CASE NewState
    <3>1. states'[loads + 1].built = (read.kind = "good")
      BY <2>1, <2>4 DEF NewState, Built, Inv, TypeOK
    <3>2. CASE read.kind = "good"
      <4>1. /\ handler' = loads + 1 /\ loop' = "swap" /\ proc' = proc /\ proc # "dead"
            /\ UNCHANGED <<pointer, oldHandler>> /\ loop = "build"
        BY <2>4, <3>2 DEF NewState
      <4>2. /\ errorHandler' \in StateIds /\ errorHandler' <= loads + 1
            /\ states'[errorHandler'].built
        <5>1. CASE proc = "starting"
          <6>1. errorHandler = Nil
            BY <4>1, <5>1 DEF MainInv
          <6>2. errorHandler' = loads + 1
            BY <2>2, <6>1
          <6>3. states'[loads + 1].built
            BY <3>1, <3>2
          <6>4. QED
            BY <2>1, <6>2, <6>3
        <5>2. CASE proc = "running"
          <6>1. errorHandler \in StateIds /\ errorHandler <= loads /\ states[errorHandler].built
            BY <5>2 DEF MainInv
          <6>2. errorHandler' = errorHandler
            BY <2>2, <6>1
          <6>3. QED
            BY <2>1, <2>3, <6>1, <6>2
        <5>3. QED
          BY <4>1, <5>1, <5>2 DEF Inv, TypeOK, MainInv
      <4>3. QED
        BY <2>1, <3>1, <3>2, <4>1, <4>2 DEF MainInv
    <3>3. CASE read.kind # "good"
      BY <1>1, <2>1, <2>2, <2>3, <2>4, <3>1, <3>3 DEF MainInv, NewState, Failed
    <3>4. QED
      BY <3>2, <3>3
  <2>5. CASE NewStateHangs
    BY <1>1, <2>1, <2>2, <2>3, <2>5 DEF MainInv, NewStateHangs
  <2>6. QED
    BY <1>1, <2>4, <2>5 DEF BuildState
<1>2. CASE ReadFile
  BY <1>2 DEF ReadFile, ReadPolicy, Failed, MainInv
<1>3. CASE CloseReturns
  <2>1. \A s \in StateIds : states'[s].built = states[s].built
    BY <1>0, <1>3 DEF CloseReturns, CloseOld, Closed, Inv, TypeOK
  <2>2. QED
    BY <1>3, <2>1 DEF CloseReturns, CloseOld, MainInv
<1>4. CASE Swap /\ UNCHANGED serviceVars
  BY <1>4 DEF Swap, serviceVars, MainInv, Inv, TypeOK, LoaderInv
<1>5. CASE (TakeSignal \/ Edit \/ Sighup) /\ UNCHANGED serviceVars
  BY <1>5 DEF TakeSignal, Edit, Sighup, serviceVars, MainInv
<1>n. CASE Notify /\ UNCHANGED serviceVars
  BY <1>n DEF Notify, serviceVars, MainInv
<1>6. CASE UNCHANGED <<vars, errorHandler>>
  BY <1>6 DEF vars, MainInv
<1>7. QED
  BY <1>1, <1>2, <1>3, <1>4, <1>5, <1>n, <1>6 DEF ServiceNext, ServiceLoader, allVars, serviceVars,
      CloseChannel, CloseFails, CloseObject, RequestStep, Enter, Instantiate, EndRun,
      MakeChallenge, Assign, Decide, Backend

\* A step that is none of the loading goroutine's about objects.
Outside == UNCHANGED <<vars, objects, closing, dropped, unclosed>>

LEMMA OutsideSteps ==
  ASSUME NEW r \in Requests, RequestStep(r)
  PROVE  Outside
BY DEF RequestStep, Enter, Instantiate, EndRun, MakeChallenge, Assign, Decide, Backend, Outside

LEMMA ObjectsStep == MainAll /\ [ServiceNext]_allVars => ObjectsInv'
<1> SUFFICES ASSUME MainAll, [ServiceNext]_allVars PROVE ObjectsInv'
  OBVIOUS
<1> USE StateIdsFacts DEF MainAll
<1>0. loads \in Nat /\ \A s \in StateIds : s \in Nat
  BY DEF Inv, TypeOK
<1>1. CASE BuildState
  <2>1. /\ loads + 1 \in StateIds /\ loads' = loads + 1
        /\ \A s \in StateIds \ {loads + 1} : objects'[s] = objects[s]
        /\ states'[loads + 1].built => \A o \in Objects : objects'[loads + 1][o] = "open"
    BY <1>1, BuildFacts
  <2>2. \A s \in StateIds : s > loads' => ~Live(s)'
    <3> SUFFICES ASSUME NEW s \in StateIds, s > loads + 1 PROVE ~Live(s)'
      BY <2>1
    <3>1. s > loads /\ s # loads + 1
      BY <1>0
    <3>2. objects'[s] = objects[s]
      BY <2>1, <3>1
    <3>3. QED
      BY <3>1, <3>2 DEF ObjectsInv, Live
  <2>3. closing' = closing /\ unclosed' = unclosed /\ loop = "build" /\ closing = "no"
    BY <1>1 DEF BuildState, NewState, NewStateHangs, ObjectsInv
  <2>4. loop' = "swap" => handler' = loads + 1 /\ states'[loads + 1].built
    <3>1. CASE NewState
      BY <2>1, <3>1 DEF NewState, Failed, Built, Inv, TypeOK
    <3>2. CASE NewStateHangs
      BY <3>2 DEF NewStateHangs
    <3>3. QED
      BY <1>1, <3>1, <3>2 DEF BuildState
  <2>5. QED
    BY <2>1, <2>2, <2>3, <2>4 DEF ObjectsInv
<1>2. CASE ReadFile
  <2>1. /\ UNCHANGED <<objects, closing, unclosed, loads>> /\ loop = "read" /\ loop' # "swap"
        /\ closing = "no"
    BY <1>2 DEF ReadFile, ReadPolicy, Failed, ObjectsInv
  <2>2. QED
    BY <2>1 DEF ObjectsInv, Live
<1>3. CASE CloseChannel
  <2>1. /\ loop = "close" /\ oldHandler \in StateIds /\ proc = "running" /\ closing' = "begun"
        /\ UNCHANGED <<vars, unclosed>>
        /\ objects' = [objects EXCEPT ![oldHandler]["tags"] = "closed"]
    BY <1>3 DEF CloseChannel, Inv, TypeOK
  <2>2. \A s \in StateIds, o \in Objects : objects'[s][o] = "open" => objects[s][o] = "open"
    BY <2>1 DEF ObjectsTypeOK, Objects
  <2>3. objects'[oldHandler]["tags"] = "closed"
    BY <2>1 DEF ObjectsTypeOK, Objects
  <2>4. QED
    BY <2>1, <2>2, <2>3 DEF ObjectsInv, Live, vars
<1>4. ASSUME NEW o \in Objects, CloseObject(o) PROVE ObjectsInv'
  <2>1. /\ loop = "close" /\ oldHandler \in StateIds /\ o \in Runtimes
        /\ UNCHANGED <<vars, unclosed, closing>>
        /\ objects' = [objects EXCEPT ![oldHandler][o] = "closed"]
    BY <1>4 DEF CloseObject, ObjectsInv
  <2>2. \A s \in StateIds, x \in Objects : objects'[s][x] = "open" => objects[s][x] = "open"
    BY <2>1 DEF ObjectsTypeOK, Objects
  <2>3. objects'[oldHandler]["tags"] = objects[oldHandler]["tags"]
    BY <2>1 DEF ObjectsTypeOK, Objects, Runtimes
  <2>4. QED
    BY <2>1, <2>2, <2>3 DEF ObjectsInv, Live, vars
<1>5. CASE CloseFails
  BY <1>5 DEF CloseFails, ObjectsInv, Live, vars
<1>6. CASE CloseReturns
  BY <1>6 DEF CloseReturns, CloseOld, ObjectsInv, Live
<1>7. CASE (TakeSignal \/ Swap \/ Notify) /\ UNCHANGED serviceVars
  BY <1>7 DEF TakeSignal, Swap, Notify, serviceVars, ObjectsInv, Live
<1>8. CASE (Edit \/ Sighup) /\ UNCHANGED serviceVars
  BY <1>8 DEF Edit, Sighup, serviceVars, ObjectsInv, Live
<1>9. CASE Outside
  BY <1>9 DEF Outside, vars, ObjectsInv, Live
<1>10. QED
  BY <1>1, <1>2, <1>3, <1>4, <1>5, <1>6, <1>7, <1>8, <1>9, OutsideSteps
     DEF ServiceNext, ServiceLoader, allVars, serviceVars, Outside

LEMMA ServedStep == MainAll /\ [ServiceNext]_allVars => ServedObjectsOpen'
<1> SUFFICES ASSUME MainAll, [ServiceNext]_allVars, pointer' \in StateIds, NEW o \in Objects
             PROVE  objects'[pointer'][o] = "open"
  BY DEF ServedObjectsOpen
<1> USE StateIdsFacts DEF MainAll
<1>0. loads \in Nat /\ \A s \in StateIds : s \in Nat
  BY DEF Inv, TypeOK
<1>1. CASE BuildState
  <2>1. pointer' = pointer /\ \A s \in StateIds \ {loads + 1} : objects'[s] = objects[s]
    BY <1>1, BuildFacts DEF BuildState, NewState, NewStateHangs
  <2>2. pointer # loads + 1
    BY <1>0, <2>1 DEF Inv, LoaderInv
  <2>3. QED
    BY <2>1, <2>2 DEF ServedObjectsOpen
<1>2. CASE Swap /\ UNCHANGED serviceVars
  BY <1>2 DEF Swap, serviceVars, ObjectsInv
<1>3. CASE CloseChannel \/ \E x \in Objects : CloseObject(x)
  <2>1. /\ loop = "close" /\ pointer' = pointer /\ oldHandler \in StateIds
        /\ \A s \in StateIds : s # oldHandler => objects'[s] = objects[s]
    BY <1>3 DEF CloseChannel, CloseObject, Inv, TypeOK, ObjectsTypeOK, ObjectsInv, vars
  <2>2. pointer # oldHandler
    BY <1>0, <2>1 DEF Inv, LoaderInv
  <2>3. QED
    BY <2>1, <2>2 DEF ServedObjectsOpen
<1>4. CASE UNCHANGED <<pointer, objects>>
  BY <1>4 DEF ServedObjectsOpen
<1>5. QED
  BY <1>1, <1>2, <1>3, <1>4, OutsideSteps
     DEF ServiceNext, ServiceLoader, allVars, serviceVars, Outside, vars,
         ReadFile, ReadPolicy, TakeSignal, Notify, CloseFails, CloseReturns, CloseOld, Edit, Sighup

LEMMA LeakStep == MainAll /\ [ServiceNext]_allVars => LeakOnlyAfterFailure'
<1> SUFFICES ASSUME MainAll, [ServiceNext]_allVars, NEW s \in StateIds, Live(s)',
                    ~(s \in dropped'), ~(s \in unclosed'), states'[s].built
             PROVE  Reachable(s)'
  BY DEF LeakOnlyAfterFailure
<1> USE StateIdsFacts DEF MainAll
<1>0. loads \in Nat /\ \A x \in StateIds : x \in Nat
  BY DEF Inv, TypeOK
<1>a. Live(s) /\ states[s].built /\ s \notin dropped /\ s \notin unclosed => Reachable(s)
  BY DEF LeakOnlyAfterFailure
<1>1. CASE BuildState
  <2>1. \A x \in StateIds \ {loads + 1} : objects'[x] = objects[x] /\ states'[x] = states[x]
    BY <1>1, BuildFacts
  <2>2. CASE s = loads + 1
    <3>1. CASE NewState
      <4>1. loads + 1 \in StateIds
        BY <1>1, BuildFacts
      <4>2. states'[loads + 1].built = (read.kind = "good")
        BY <3>1, <4>1 DEF NewState, Built, Inv, TypeOK
      <4>3. QED
        BY <2>2, <3>1, <4>2 DEF NewState, Reachable
    <3>2. CASE NewStateHangs
      BY <2>2, <3>2 DEF NewStateHangs, Built, Inv, TypeOK
    <3>3. QED
      BY <1>1, <3>1, <3>2 DEF BuildState
  <2>3. CASE s # loads + 1
    <3>1. Reachable(s)
      <4>1. Live(s) /\ states[s].built
        BY <2>1, <2>3 DEF Live
      <4>2. s \notin dropped /\ s \notin unclosed
        BY <1>1 DEF BuildState, Drops
      <4>3. QED
        BY <1>a, <4>1, <4>2
    <3>2. loop = "build" /\ (s = handler \/ s = oldHandler) /\ oldHandler' = oldHandler
      BY <1>1, <3>1 DEF BuildState, NewState, NewStateHangs, Reachable
    <3>3. s = oldHandler
      BY <1>1, <3>2 DEF MainInv, BuildState, NewState, NewStateHangs, Inv, TypeOK
    <3>4. loop' = "wait" => handler' = Nil /\ proc = "running" /\ dropped' = dropped \cup ({handler} \ {Nil})
      BY <1>1, <3>2 DEF BuildState, NewState, NewStateHangs, Failed, Drops, MainInv, Inv, TypeOK
    <3>5. proc = "running" => oldHandler = handler
      BY <3>2 DEF MainInv
    <3>6. QED
      BY <3>2, <3>3, <3>4, <3>5 DEF Reachable
  <2>4. QED
    BY <2>2, <2>3
<1>2. CASE ReadFile
  <2>1. UNCHANGED <<objects, states, unclosed, oldHandler>> /\ loop = "read" /\ proc # "dead"
    BY <1>2 DEF ReadFile, ReadPolicy
  <2>2. Live(s) /\ states[s].built /\ s \notin dropped /\ s \notin unclosed
    BY <1>2, <2>1 DEF ReadFile, Drops, Live
  <2>3. s = handler /\ proc = "running"
    BY <1>a, <2>1, <2>2 DEF Reachable, MainInv, Inv, TypeOK
  <2>4. handler' # Nil
    BY <1>2, <2>3 DEF ReadFile, Drops
  <2>5. handler' = handler
    BY <1>2, <2>4 DEF ReadFile, ReadPolicy, Failed
  <2>6. QED
    BY <2>3, <2>5 DEF Reachable
<1>3. CASE CloseChannel
  <2>1. objects'[s]["tags"] # "open" \/ objects'[s] = objects[s]
    BY <1>3 DEF CloseChannel, ObjectsTypeOK, Objects
  <2>2. Live(s)
    BY <1>3 DEF CloseChannel, Live, ObjectsTypeOK, Objects
  <2>3. QED
    BY <1>3, <1>a, <2>2 DEF CloseChannel, Reachable, vars
<1>4. ASSUME NEW o \in Objects, CloseObject(o) PROVE Reachable(s)'
  <2>1. Live(s)
    BY <1>4 DEF CloseObject, Live, ObjectsTypeOK
  <2>2. QED
    BY <1>4, <1>a, <2>1 DEF CloseObject, Reachable, vars
<1>5. CASE CloseFails
  BY <1>5, <1>a DEF CloseFails, Reachable, Live, vars
<1>6. CASE CloseReturns
  <2>1. /\ UNCHANGED <<objects, dropped, unclosed, handler, oldHandler>>
        /\ states[s].built
    BY <1>6 DEF CloseReturns, CloseOld, Closed, Inv, TypeOK, StateRecord
  <2>2. Reachable(s)
    BY <1>a, <2>1 DEF Live
  <2>3. CASE s = handler
    BY <2>1, <2>3 DEF Reachable
  <2>4. CASE s = oldHandler
    <3>1. closing # "failed"
      BY <2>1, <2>4 DEF ObjectsInv
    <3>2. /\ objects[s]["tags"] = "closed"
          /\ \A o \in Runtimes : objects[s][o] # "open"
      BY <1>6, <2>4, <3>1 DEF CloseReturns, ObjectsInv
    <3>3. ~Live(s)
      BY <3>2 DEF Live, Objects
    <3>4. QED
      BY <2>1, <3>3 DEF Live
  <2>5. QED
    BY <2>2, <2>3, <2>4 DEF Reachable
<1>7. CASE (TakeSignal \/ Notify) /\ UNCHANGED serviceVars
  BY <1>7, <1>a DEF TakeSignal, Notify, serviceVars, Reachable, Live
<1>8. CASE Swap /\ UNCHANGED serviceVars
  BY <1>8, <1>a DEF Swap, serviceVars, Reachable, Live, MainInv, Inv, TypeOK
<1>9. CASE (Edit \/ Sighup) /\ UNCHANGED serviceVars
  BY <1>9, <1>a DEF Edit, Sighup, serviceVars, Reachable, Live
<1>10. CASE Outside
  BY <1>10, <1>a DEF Outside, vars, Reachable, Live
<1>11. QED
  BY <1>1, <1>2, <1>3, <1>4, <1>5, <1>6, <1>7, <1>8, <1>9, <1>10, OutsideSteps
     DEF ServiceNext, ServiceLoader, allVars, serviceVars, Outside

\* The invariant of main and Close, whatever requests do meanwhile.
THEOREM MainInvariance == ServiceSpec => []MainAll
<1>1. MainAll /\ [ServiceNext]_allVars => MainAll'
  <2> SUFFICES ASSUME MainAll, [ServiceNext]_allVars PROVE MainAll'
    OBVIOUS
  <2>1. Inv'
    BY ServiceStep, StepInv DEF MainAll
  <2>2. QED
    BY <2>1, ObjectsTypeStep, MainStep, ObjectsStep, ServedStep, LeakStep DEF MainAll
<1>2. QED
  BY <1>1, MainInit, PTL DEF ServiceSpec

\* Only a build, a reload or a Close that failed leaves something running
\* that main cannot close any more.
THEOREM LeaksProved == ServiceSpec => []LeakOnlyAfterFailure
<1>1. MainAll => LeakOnlyAfterFailure
  BY DEF MainAll
<1>2. QED
  BY <1>1, MainInvariance, PTL

\* New requests get a State with all of its runtimes and tickers.
THEOREM ServedObjectsProved == ServiceSpec => []ServedObjectsOpen
<1>1. MainAll => ServedObjectsOpen
  BY DEF MainAll
<1>2. QED
  BY <1>1, MainInvariance, PTL

---------------------------------------------------------------------------
(* The requests *)

LEMMA NoRequestFacts ==
    /\ NoRequest \in Request
    /\ \A a \in {"none", "ok", "fail", "error", "backend", "error page", "panic"} :
         /\ [NoRequest EXCEPT !.answer = a] \in Request
         /\ [NoRequest EXCEPT !.answer = a].at = "out"
         /\ [NoRequest EXCEPT !.answer = a].state = Nil
         /\ [NoRequest EXCEPT !.answer = a].answer = a
         /\ ~[NoRequest EXCEPT !.answer = a].lone
    /\ \A s \in StateIds \cup {Nil, Direct} :
         /\ [NoRequest EXCEPT !.at = "in", !.state = s] \in Request
         /\ [NoRequest EXCEPT !.at = "in", !.state = s].at = "in"
         /\ [NoRequest EXCEPT !.at = "in", !.state = s].state = s
         /\ [NoRequest EXCEPT !.at = "in", !.state = s].answer = "none"
         /\ ~[NoRequest EXCEPT !.at = "in", !.state = s].lone
BY DEF NoRequest, Request

\* The field updates of a request, one by one.
LEMMA LoneFacts ==
  ASSUME NEW f \in Request, NEW lone \in BOOLEAN
  PROVE  LET g == [f EXCEPT !.lone = lone]
         IN /\ g \in Request /\ g.at = f.at /\ g.kind = f.kind /\ g.own = f.own /\ g.lone = lone
            /\ g.state = f.state /\ g.answer = f.answer
BY DEF Request

RequestOK(r) ==
    /\ request[r].state \in StateIds => proc # "starting" /\ request[r].state <= loads
    /\ request[r].at # "out" => request[r].state # Nil
    /\ InModule(r) => request[r].state \in StateIds /\ request[r].kind \in Kinds
    /\ request[r].at \in {"ended", "assigned"} /\ request[r].own = "ok" => request[r].kind = "proof"

\* A proof that is verified alone: its runtime is open, nobody else runs the
\* module, and what was assigned to the shared variable is its own.
LoneOK(r) ==
    request[r].lone =>
      /\ InModule(r) /\ request[r].kind = "proof"
      /\ objects[request[r].state]["js"] = "open"
      /\ \A q \in Requests \ {r} : InModule(q) => request[q].state # request[r].state
      /\ request[r].at # "run" => request[r].own = "ok"
      /\ request[r].at = "assigned" => ~err[request[r].state]

RequestInv == RequestTypeOK /\ \A r \in Requests : RequestOK(r) /\ LoneOK(r)

\* Nothing but the history of q changes.
Kept(q) ==
    /\ request'[q].at = request[q].at /\ request'[q].state = request[q].state
    /\ request'[q].kind = request[q].kind /\ request'[q].own = request[q].own
    /\ request'[q].answer = request[q].answer
    /\ request'[q].lone => request[q].lone

LEMMA InstantiateFacts ==
  ASSUME RequestTypeOK, NEW r \in Requests, NEW kind \in Kinds, Instantiate(r, kind)
  PROVE  /\ request' \in [Requests -> Request]
         /\ request'[r].at = IF Refused(r) THEN "ended" ELSE "run"
         /\ request'[r].own = IF Refused(r) THEN "error" ELSE "none"
         /\ request'[r].kind = kind /\ request'[r].state = request[r].state
         /\ request'[r].answer = request[r].answer
         /\ request'[r].lone => kind = "proof" /\ Others(r) = {}
                                /\ objects[request[r].state]["js"] = "open"
         /\ \A q \in Requests \ {r} : Kept(q) /\ (q \in Others(r) => ~request'[q].lone)
<1> DEFINE at == IF Refused(r) THEN "ended" ELSE "run"
           own == IF Refused(r) THEN "error" ELSE "none"
           lone == kind = "proof" /\ Others(r) = {} /\ objects[request[r].state]["js"] = "open"
           g == [request[r] EXCEPT !.kind = kind, !.at = at, !.own = own, !.lone = lone]
<1>1. request' = [q \in Requests |->
              CASE q = r -> g
                [] q \in Others(r) -> [request[q] EXCEPT !.lone = FALSE]
                [] OTHER -> request[q]]
  BY DEF Instantiate
<1>2. at \in {"run", "ended"} /\ own \in {"none", "error"} /\ lone \in BOOLEAN
  OBVIOUS
<1>3. request[r] \in Request
  BY DEF RequestTypeOK
<1>4. /\ g \in Request /\ g.at = at /\ g.kind = kind /\ g.own = own /\ g.lone = lone
      /\ g.state = request[r].state /\ g.answer = request[r].answer
  <2> HIDE DEF at, own, lone
  <2>1. QED
    BY <1>2, <1>3 DEF Request
<1>5. \A q \in Requests : LET h == [request[q] EXCEPT !.lone = FALSE]
        IN /\ h \in Request /\ h.at = request[q].at /\ h.kind = request[q].kind
           /\ h.own = request[q].own /\ h.lone = FALSE
           /\ h.state = request[q].state /\ h.answer = request[q].answer
  BY LoneFacts DEF RequestTypeOK
<1>6. r \notin Others(r)
  BY DEF Others
<1> HIDE DEF g
<1>7. request'[r] = g
  BY <1>1, <1>6
<1>8. ASSUME NEW q \in Requests \ {r}
      PROVE  /\ request'[q] \in Request
             /\ Kept(q) /\ (q \in Others(r) => ~request'[q].lone)
  <2>1. CASE q \in Others(r)
    <3>1. request'[q] = [request[q] EXCEPT !.lone = FALSE]
      BY <1>1, <1>8, <2>1
    <3>2. QED
      BY <1>5, <3>1 DEF Kept
  <2>2. CASE q \notin Others(r)
    <3>1. request'[q] = request[q]
      BY <1>1, <1>8, <2>2
    <3>2. QED
      BY <2>2, <3>1 DEF Kept, RequestTypeOK
  <2>3. QED
    BY <2>1, <2>2
<1>9. request' \in [Requests -> Request]
  <2>1. \A q \in Requests : request'[q] \in Request
    BY <1>4, <1>7, <1>8
  <2>2. request' = [q \in Requests |-> request'[q]]
    BY <1>1
  <2>3. QED
    BY <2>1, <2>2
<1>10. QED
  BY <1>4, <1>7, <1>8, <1>9

LEMMA CloseObjectFacts ==
  ASSUME RequestTypeOK, NEW o \in Objects, CloseObject(o)
  PROVE  /\ request' \in [Requests -> Request]
         /\ \A q \in Requests : /\ Kept(q)
                                /\ o = "js" /\ request[q].state = oldHandler => ~request'[q].lone
<1> DEFINE lone(q) == request[q].lone /\ ~(o = "js" /\ request[q].state = oldHandler)
<1>1. request' = [q \in Requests |-> [request[q] EXCEPT !.lone = lone(q)]]
  BY DEF CloseObject
<1>2. ASSUME NEW q \in Requests
      PROVE  /\ request'[q] \in Request /\ Kept(q)
             /\ o = "js" /\ request[q].state = oldHandler => ~request'[q].lone
  <2>1. request[q] \in Request /\ lone(q) \in BOOLEAN
    BY DEF RequestTypeOK
  <2>2. request'[q] = [request[q] EXCEPT !.lone = lone(q)]
    BY <1>1
  <2> DEFINE l == lone(q)
  <2>3. l \in BOOLEAN /\ request'[q] = [request[q] EXCEPT !.lone = l]
    BY <2>1, <2>2
  <2>4. l => request[q].lone /\ ~(o = "js" /\ request[q].state = oldHandler)
    OBVIOUS
  <2> HIDE DEF l
  <2>5. /\ request'[q] \in Request /\ request'[q].at = request[q].at
        /\ request'[q].kind = request[q].kind /\ request'[q].own = request[q].own
        /\ request'[q].lone = l
        /\ request'[q].state = request[q].state /\ request'[q].answer = request[q].answer
    BY <2>1, <2>3, LoneFacts
  <2>6. QED
    BY <2>4, <2>5 DEF Kept
<1>3. request' \in [Requests -> Request]
  BY <1>1, <1>2
<1>4. QED
  BY <1>2, <1>3

\* Steps of the loading goroutine, and of the operator.
LEMMA LoaderKeepsRequests ==
  ASSUME MainAll, RequestInv, ServiceLoader \/ UNCHANGED serviceVars, [Next]_vars
  PROVE  RequestInv'
<1> USE StateIdsFacts DEF MainAll, RequestInv
<1>1. request' \in [Requests -> Request] /\ (\A q \in Requests : Kept(q)) /\ err' = err
  <2>1. CASE UNCHANGED <<request, err>>
    BY <2>1 DEF Kept, RequestTypeOK
  <2>2. ASSUME NEW o \in Objects, CloseObject(o)
        PROVE  request' \in [Requests -> Request] /\ (\A q \in Requests : Kept(q)) /\ err' = err
    BY <2>2, CloseObjectFacts DEF CloseObject
  <2>3. QED
    BY <2>1, <2>2 DEF ServiceLoader, BuildState, ReadFile, CloseChannel, CloseFails,
                      CloseReturns, serviceVars
<1>2. /\ proc # "starting" => proc' # "starting"
      /\ loads' >= loads /\ loads' \in Nat /\ loads \in Nat
      /\ \A s \in StateIds : s <= loads => s <= loads' /\ s # loads + 1
  <2>1. loads \in Nat /\ \A s \in StateIds : s \in Nat
    BY DEF Inv, TypeOK
  <2>2. loads' = loads + 1 \/ loads' = loads
    BY DEF Next, Loader, Edit, Sighup, TakeSignal, ReadPolicy, NewState, NewStateHangs, Swap,
           Notify, CloseOld, vars
  <2>3. proc # "starting" => proc' # "starting"
    BY DEF Next, Loader, Edit, Sighup, TakeSignal, ReadPolicy, Failed, NewState, NewStateHangs,
           Swap, Notify, CloseOld, vars
  <2>4. QED
    BY <2>1, <2>2, <2>3
<1>3. ASSUME NEW r \in Requests PROVE RequestOK(r)'
  <2>1. RequestOK(r) /\ Kept(r)
    BY <1>1
  <2>2. QED
    BY <1>2, <2>1 DEF RequestOK, Kept, InModule
<1>4. ASSUME NEW r \in Requests, request'[r].lone
      PROVE  objects'[request[r].state]["js"] = "open"
  <2>1. /\ request[r].lone /\ request[r].state \in StateIds /\ request[r].state <= loads
        /\ objects[request[r].state]["js"] = "open"
    BY <1>1, <1>4 DEF Kept, LoneOK, RequestOK
  <2>2. CASE BuildState
    <3>1. \A s \in StateIds \ {loads + 1} : objects'[s] = objects[s]
      BY <2>2, BuildFacts
    <3>2. QED
      BY <1>2, <2>1, <3>1
  <2>3. CASE CloseChannel
    BY <2>1, <2>3 DEF CloseChannel, ObjectsTypeOK, Objects, Runtimes
  <2>4. ASSUME NEW o \in Objects, CloseObject(o) PROVE objects'[request[r].state]["js"] = "open"
    <3>1. ~(o = "js" /\ request[r].state = oldHandler)
      BY <1>4, <2>4, CloseObjectFacts
    <3>2. QED
      BY <2>1, <2>4, <3>1 DEF CloseObject, ObjectsTypeOK, Objects, Runtimes
  <2>5. CASE objects' = objects
    BY <2>1, <2>5
  <2>6. QED
    BY <2>2, <2>3, <2>4, <2>5 DEF ServiceLoader, ReadFile, CloseFails, CloseReturns, serviceVars
<1>5. ASSUME NEW r \in Requests PROVE LoneOK(r)'
  <2>1. LoneOK(r) /\ \A q \in Requests : Kept(q)
    BY <1>1
  <2>2. QED
    BY <1>1, <1>4, <2>1 DEF LoneOK, Kept, InModule
<1>6. QED
  BY <1>1, <1>3, <1>5 DEF RequestTypeOK

\* A request that moves on by itself, inside the module or out of it.
LEMMA MoveKeepsRequests ==
  ASSUME RequestInv, NEW r \in Requests, NEW f \in Request, Step(r, f),
         UNCHANGED <<proc, loads, objects>>,
         f.state = request[r].state \/ f.at \notin {"run", "ended", "assigned"},
         f.at \in {"run", "ended", "assigned"} => InModule(r),
         err' \in [StateIds -> BOOLEAN],
         err' = err \/ (InModule(r) /\ \A s \in StateIds : s # request[r].state => err'[s] = err[s]),
         RequestOK(r)', LoneOK(r)'
  PROVE  RequestInv'
<1> USE DEF RequestInv
<1>1. /\ request' = [request EXCEPT ![r] = f]
      /\ request'[r] = f /\ \A q \in Requests \ {r} : request'[q] = request[q]
  BY DEF Step, RequestTypeOK
<1>2. RequestTypeOK'
  BY <1>1 DEF RequestTypeOK
<1>3. ASSUME NEW q \in Requests \ {r} PROVE RequestOK(q)'
  BY <1>1 DEF RequestOK, InModule
<1>4. ASSUME NEW q \in Requests \ {r} PROVE LoneOK(q)'
  <2> SUFFICES ASSUME request'[q].lone PROVE LoneOK(q)'
    BY DEF LoneOK
  <2>1. request[q].lone /\ LoneOK(q) /\ RequestOK(q) /\ request'[q] = request[q]
    BY <1>1
  <2>2. InModule(q) /\ request[q].state \in StateIds
    BY <2>1 DEF LoneOK, RequestOK
  <2>3. InModule(r) => request[r].state # request[q].state
    BY <2>1 DEF LoneOK
  <2>4. InModule(r)' => request'[r].state # request[q].state
    BY <1>1, <2>3 DEF InModule
  <2>5. err'[request[q].state] = err[request[q].state]
    BY <2>2, <2>3
  <2>6. \A p \in Requests \ {q} : InModule(p)' => request'[p].state # request'[q].state
    <3> SUFFICES ASSUME NEW p \in Requests \ {q}, InModule(p)' PROVE request'[p].state # request'[q].state
      OBVIOUS
    <3>1. CASE p = r
      BY <2>1, <2>4, <3>1
    <3>2. CASE p # r
      BY <1>1, <2>1, <3>2 DEF LoneOK, InModule
    <3>3. QED
      BY <3>1, <3>2
  <2>7. QED
    BY <2>1, <2>5, <2>6 DEF LoneOK, InModule
<1>5. QED
  BY <1>2, <1>3, <1>4

LEMMA AnswerKeepsRequests ==
  ASSUME RequestInv, NEW r \in Requests,
         NEW a \in {"none", "ok", "fail", "error", "backend", "error page", "panic"}, Answer(r, a),
         UNCHANGED <<proc, loads, objects, err>>
  PROVE  /\ RequestInv' /\ request'[r].at = "out" /\ request'[r].answer = a
         /\ \A q \in Requests \ {r} : request'[q] = request[q]
<1> DEFINE f == [NoRequest EXCEPT !.answer = a]
<1>1. f \in Request /\ f.at = "out" /\ f.state = Nil /\ f.answer = a /\ ~f.lone
  BY NoRequestFacts
<1>2. Step(r, f)
  BY DEF Answer
<1> HIDE DEF f
<1>3. request'[r] = f /\ \A q \in Requests \ {r} : request'[q] = request[q]
  BY <1>2 DEF Step, RequestInv, RequestTypeOK
<1>4. RequestOK(r)' /\ LoneOK(r)'
  BY <1>1, <1>3, StateIdsFacts DEF RequestOK, LoneOK, InModule
<1>5. RequestInv'
  BY <1>1, <1>2, <1>4, MoveKeepsRequests DEF RequestInv, RequestTypeOK
<1>6. QED
  BY <1>1, <1>3, <1>5

LEMMA RequestsKeepRequests ==
  ASSUME MainAll, RequestInv, NEW r \in Requests, RequestStep(r)
  PROVE  RequestInv'
<1> USE StateIdsFacts DEF MainAll
<1>0. /\ UNCHANGED <<proc, loads, objects>>
      /\ request[r] \in Request /\ RequestOK(r) /\ LoneOK(r) /\ err \in [StateIds -> BOOLEAN]
  BY OutsideSteps DEF Outside, vars, RequestInv, RequestTypeOK
<1>1. CASE Enter(r)
  <2> DEFINE f == [NoRequest EXCEPT !.at = "in", !.state = pointer]
  <2>1. /\ f \in Request /\ f.at = "in" /\ f.state = pointer /\ ~f.lone
    BY NoRequestFacts DEF Inv, TypeOK
  <2>2. Step(r, f) /\ err' = err /\ pointer # Nil
    BY <1>1 DEF Enter
  <2> HIDE DEF f
  <2>3. request'[r] = f
    BY <2>2 DEF Step, RequestInv, RequestTypeOK
  <2>4. pointer \in StateIds => proc # "starting" /\ pointer <= loads
    BY DEF MainInv, Inv, LoaderInv
  <2>5. RequestOK(r)' /\ LoneOK(r)'
    BY <1>0, <2>1, <2>2, <2>3, <2>4 DEF RequestOK, LoneOK, InModule
  <2>6. QED
    BY <1>0, <2>1, <2>2, <2>5, MoveKeepsRequests
<1>2. ASSUME NEW kind \in Kinds, Instantiate(r, kind) PROVE RequestInv'
  <2>1. /\ request' \in [Requests -> Request]
        /\ request'[r].at = IF Refused(r) THEN "ended" ELSE "run"
        /\ request'[r].own = IF Refused(r) THEN "error" ELSE "none"
        /\ request'[r].kind = kind /\ request'[r].state = request[r].state
        /\ request'[r].lone => kind = "proof" /\ Others(r) = {}
                               /\ objects[request[r].state]["js"] = "open"
        /\ \A q \in Requests \ {r} : Kept(q) /\ (q \in Others(r) => ~request'[q].lone)
    BY <1>2, InstantiateFacts DEF RequestInv
  <2>2. err' = err /\ request[r].at = "in" /\ request[r].state \in StateIds
    BY <1>0, <1>2 DEF Instantiate, RequestOK, Request
  <2>3. RequestOK(r)'
    BY <1>0, <2>1, <2>2 DEF RequestOK, InModule
  <2>4. LoneOK(r)'
    <3> SUFFICES ASSUME request'[r].lone PROVE LoneOK(r)'
      BY DEF LoneOK
    <3>1. Others(r) = {} /\ ~Refused(r) /\ kind = "proof" /\ objects[request[r].state]["js"] = "open"
      BY <2>1 DEF Refused
    <3>2. \A q \in Requests \ {r} : InModule(q)' => request'[q].state # request'[r].state
      BY <2>1, <3>1 DEF Others, InModule, Kept
    <3>3. QED
      BY <1>0, <2>1, <3>1, <3>2 DEF LoneOK, InModule
  <2>5. ASSUME NEW q \in Requests \ {r} PROVE RequestOK(q)' /\ LoneOK(q)'
    <3>1. RequestOK(q) /\ LoneOK(q) /\ Kept(q)
      BY <2>1 DEF RequestInv
    <3>2. RequestOK(q)'
      BY <1>0, <3>1 DEF RequestOK, Kept, InModule
    <3>3. LoneOK(q)'
      <4> SUFFICES ASSUME request'[q].lone PROVE LoneOK(q)'
        BY DEF LoneOK
      <4>1. request[q].lone /\ q \notin Others(r) /\ InModule(q)
        BY <2>1, <3>1 DEF Kept, LoneOK
      <4>2. request[q].state # request[r].state
        BY <4>1 DEF Others
      <4>3. \A p \in Requests \ {q} : InModule(p)' => request'[p].state # request'[q].state
        <5> SUFFICES ASSUME NEW p \in Requests \ {q}, InModule(p)'
                     PROVE  request'[p].state # request'[q].state
          OBVIOUS
        <5>1. CASE p = r
          BY <2>1, <3>1, <4>2, <5>1 DEF Kept
        <5>2. CASE p # r
          BY <2>1, <3>1, <4>1, <5>2 DEF Kept, LoneOK, InModule
        <5>3. QED
          BY <5>1, <5>2
      <4>4. QED
        BY <1>0, <2>2, <3>1, <4>1, <4>3 DEF LoneOK, Kept, InModule
    <3>4. QED
      BY <3>2, <3>3
  <2>6. QED
    BY <1>0, <2>1, <2>2, <2>3, <2>4, <2>5 DEF RequestInv, RequestTypeOK
<1>3. CASE EndRun(r)
  <2>1. PICK own \in Outcomes(r) : Step(r, [request[r] EXCEPT !.at = "ended", !.own = own])
    BY <1>3 DEF EndRun
  <2> DEFINE f == [request[r] EXCEPT !.at = "ended", !.own = own]
  <2>2. own \in {"ok", "fail", "error"}
    BY <2>1 DEF Outcomes
  <2>3. /\ f \in Request /\ f.at = "ended" /\ f.kind = request[r].kind /\ f.own = own
        /\ f.lone = request[r].lone /\ f.state = request[r].state
    BY <1>0, <2>2 DEF Request
  <2>4. Step(r, f) /\ err' = err /\ request[r].at = "run" /\ request[r].kind # "make"
    BY <1>3, <2>1 DEF EndRun
  <2>5. own = "ok" => request[r].kind # "forged"
    BY <2>1 DEF Outcomes
  <2>6. request[r].lone => own = "ok"
    BY <1>0, <2>1 DEF Outcomes, LoneOK
  <2> HIDE DEF f
  <2>7. request'[r] = f /\ \A q \in Requests \ {r} : request'[q] = request[q]
    BY <2>4 DEF Step, RequestInv, RequestTypeOK
  <2>8. RequestOK(r)'
    BY <1>0, <2>3, <2>4, <2>5, <2>7 DEF RequestOK, InModule, Kinds
  <2>9. LoneOK(r)'
    BY <1>0, <2>3, <2>4, <2>6, <2>7 DEF LoneOK, InModule
  <2>10. QED
    BY <1>0, <2>3, <2>4, <2>8, <2>9, MoveKeepsRequests DEF InModule
<1>4. CASE Assign(r)
  <2> DEFINE f == [request[r] EXCEPT !.at = "assigned"]
  <2>1. /\ f \in Request /\ f.at = "assigned" /\ f.kind = request[r].kind
        /\ f.own = request[r].own /\ f.lone = request[r].lone /\ f.state = request[r].state
    BY <1>0 DEF Request
  <2>2. /\ Step(r, f) /\ request[r].at = "ended"
        /\ err' = [err EXCEPT ![request[r].state] = request[r].own = "error"]
    BY <1>4 DEF Assign
  <2>3. err' \in [StateIds -> BOOLEAN]
    BY <1>0, <2>2, Zenon
  <2>4. \A s \in StateIds : s # request[r].state => err'[s] = err[s]
    BY <1>0, <2>2
  <2>5. request[r].lone => ~err'[request[r].state]
    BY <1>0, <2>2 DEF LoneOK, RequestOK, InModule
  <2> HIDE DEF f
  <2>6. request'[r] = f /\ \A q \in Requests \ {r} : request'[q] = request[q]
    BY <2>2 DEF Step, RequestInv, RequestTypeOK
  <2>7. RequestOK(r)'
    BY <1>0, <2>1, <2>2, <2>6 DEF RequestOK, InModule
  <2>8. LoneOK(r)'
    BY <1>0, <2>1, <2>2, <2>5, <2>6 DEF LoneOK, InModule
  <2>9. QED
    BY <1>0, <2>1, <2>2, <2>3, <2>4, <2>7, <2>8, MoveKeepsRequests DEF InModule
<1>5. CASE MakeChallenge(r) \/ Decide(r) \/ Backend(r)
  <2>1. PICK a \in {"none", "ok", "fail", "error", "backend", "error page", "panic"} : Answer(r, a)
    BY <1>5 DEF MakeChallenge, Decide, Backend, Outcomes, Verdict, Failure
  <2>2. err' = err
    BY <1>5 DEF MakeChallenge, Decide, Backend
  <2>3. QED
    BY <1>0, <2>1, <2>2, AnswerKeepsRequests
<1>6. QED
  BY <1>1, <1>2, <1>3, <1>4, <1>5 DEF RequestStep

ServiceInv == MainAll /\ RequestInv

\* The invariant of the service: main and Close, and every request.
THEOREM ServiceInvariance == ServiceSpec => []ServiceInv
<1>1. ServiceInit => RequestInv
  <2> SUFFICES ASSUME ServiceInit PROVE RequestInv
    OBVIOUS
  <2>1. RequestTypeOK
    BY NoRequestFacts DEF ServiceInit, RequestTypeOK
  <2>2. ASSUME NEW r \in Requests PROVE RequestOK(r) /\ LoneOK(r)
    BY StateIdsFacts DEF ServiceInit, NoRequest, RequestOK, LoneOK, InModule
  <2>3. QED
    BY <2>1, <2>2 DEF RequestInv
<1>2. MainAll /\ RequestInv /\ [ServiceNext]_allVars => RequestInv'
  BY ServiceStep, LoaderKeepsRequests, RequestsKeepRequests DEF ServiceNext, allVars
<1>3. QED
  BY <1>1, <1>2, MainInvariance, PTL DEF ServiceSpec, ServiceInv

\* Every variable of the service keeps its type.
THEOREM ServiceTypeCorrect == ServiceSpec => []ServiceTypeOK
<1>1. ServiceInv => ServiceTypeOK
  BY DEF ServiceInv, MainAll, RequestInv, RequestTypeOK, ObjectsTypeOK, Inv, ServiceTypeOK
<1>2. QED
  BY <1>1, ServiceInvariance, PTL

\* Only r itself changes more than the history of r.
LEMMA OwnStep ==
  ASSUME RequestTypeOK, ServiceNext, NEW r \in Requests, ~Kept(r)
  PROVE  RequestStep(r)
<1>1. ASSUME NEW q \in Requests, RequestStep(q), q # r PROVE FALSE
  <2>1. ASSUME NEW kind \in Kinds, Instantiate(q, kind) PROVE FALSE
    BY <1>1, <2>1, InstantiateFacts
  <2>2. ~(\E kind \in Kinds : Instantiate(q, kind))
    BY <2>1
  <2>3. request'[r] = request[r]
    BY <1>1, <2>2 DEF RequestStep, Enter, EndRun, MakeChallenge, Assign, Decide, Backend,
                      Step, Answer, RequestTypeOK
  <2>4. QED
    BY <2>3 DEF Kept
<1>2. ASSUME ServiceLoader \/ UNCHANGED serviceVars PROVE FALSE
  <2>1. ASSUME NEW o \in Objects, CloseObject(o) PROVE FALSE
    BY <2>1, CloseObjectFacts
  <2>2. ~UNCHANGED request
    BY DEF Kept
  <2>3. QED
    BY <1>2, <2>1, <2>2 DEF ServiceLoader, BuildState, ReadFile, CloseChannel, CloseFails,
                            CloseReturns, serviceVars
<1>3. QED
  BY <1>1, <1>2 DEF ServiceNext

\* A wrong proof never passes, whatever else runs the module, and a right one
\* that is verified alone, in a State that is not closed meanwhile, does.
THEOREM VerdictsAreOwn == ServiceSpec => VerdictIsOwn
<1>1. ServiceInv /\ [ServiceNext]_allVars => [\A r \in Requests : Decides(r)]_allVars
  <2> SUFFICES ASSUME ServiceInv, ServiceNext, NEW r \in Requests,
                      request[r].at = "assigned", request'[r].at = "out"
               PROVE  /\ request'[r].answer = "ok" => request[r].kind = "proof"
                      /\ request[r].lone => request'[r].answer = "ok"
    BY DEF Decides
  <2> USE DEF ServiceInv
  <2>1. RequestOK(r) /\ LoneOK(r) /\ RequestTypeOK /\ request[r].state \in StateIds
    BY DEF RequestInv, RequestOK, InModule
  <2>2. ~Kept(r)
    BY DEF Kept
  <2>3. Decide(r)
    <3>1. RequestStep(r)
      BY <2>1, <2>2, OwnStep
    <3>2. QED
      BY <3>1 DEF RequestStep, Enter, Instantiate, EndRun, MakeChallenge, Assign, Backend
  <2>4. Answer(r, Verdict(r))
    BY <2>3 DEF Decide
  <2>5. Verdict(r) \in {"ok", "fail"}
    BY DEF Verdict
  <2>6. request'[r].answer = Verdict(r)
    <3>1. request'[r] = [NoRequest EXCEPT !.answer = Verdict(r)]
      BY <2>1, <2>4 DEF Answer, Step, RequestTypeOK
    <3>2. QED
      BY <2>5, <3>1 DEF NoRequest
  <2>7. QED
    BY <2>1, <2>6 DEF Verdict, RequestOK, LoneOK
<1>2. QED
  BY <1>1, ServiceInvariance, PTL DEF ServiceSpec, VerdictIsOwn

\* Whatever became of the first State, a request that is in a State gets the
\* whole error page when its backend fails.
THEOREM ErrorPagesComplete == ServiceSpec => ErrorPageComplete
<1>1. ServiceInv /\ [ServiceNext]_allVars =>
        [\A r \in Requests : request'[r].answer = "panic" =>
            request[r].answer = "panic" \/ request[r].state = Direct]_allVars
  <2> SUFFICES ASSUME ServiceInv, ServiceNext, NEW r \in Requests,
                      request'[r].answer = "panic", request[r].answer # "panic",
                      request[r].state # Direct
               PROVE  FALSE
    OBVIOUS
  <2> USE DEF ServiceInv
  <2>1. RequestOK(r) /\ RequestTypeOK /\ request[r] \in Request
    BY DEF RequestInv, RequestTypeOK
  <2>2. ~Kept(r)
    BY DEF Kept
  <2>3. RequestStep(r)
    BY <2>1, <2>2, OwnStep
  <2>4. ASSUME NEW a \in {"ok", "fail", "error", "backend", "error page"}, Answer(r, a) PROVE FALSE
    <3>1. request'[r] = [NoRequest EXCEPT !.answer = a]
      BY <2>1, <2>4 DEF Answer, Step, RequestTypeOK
    <3>2. request'[r].answer = a
      BY <3>1 DEF NoRequest
    <3>3. QED
      BY <3>2
  <2>5. CASE Backend(r)
    <3>1. request[r].at = "in" /\ request[r].state \in StateIds
      BY <2>1, <2>5 DEF Backend, RequestOK, Request
    <3>2. proc \in {"loaded", "running"}
      BY <2>1, <2>5, <3>1 DEF RequestOK, Backend, MainAll, Inv, TypeOK
    <3>3. errorHandler \in StateIds /\ states[errorHandler].built
      BY <3>2 DEF MainAll, MainInv
    <3>4. Failure(r) = "error page"
      BY <3>3, StateIdsFacts DEF Failure
    <3>5. QED
      BY <2>4, <2>5, <3>4 DEF Backend
  <2>6. CASE MakeChallenge(r) \/ Decide(r)
    BY <2>4, <2>6 DEF MakeChallenge, Decide, Outcomes, Verdict
  <2>7. CASE Enter(r)
    <3>1. request'[r] = [NoRequest EXCEPT !.at = "in", !.state = pointer]
      BY <2>1, <2>7 DEF Enter, Step, RequestTypeOK
    <3>2. QED
      BY <3>1, NoRequestFacts DEF MainAll, Inv, TypeOK
  <2>8. ASSUME NEW kind \in Kinds, Instantiate(r, kind) PROVE FALSE
    BY <2>1, <2>8, InstantiateFacts
  <2>9. CASE EndRun(r)
    <3>1. PICK own : request'[r] = [request[r] EXCEPT !.at = "ended", !.own = own]
      BY <2>1, <2>9 DEF EndRun, Step, RequestTypeOK
    <3>2. request'[r].answer = request[r].answer
      BY <2>1, <3>1 DEF Request
    <3>3. QED
      BY <3>2
  <2>a. CASE Assign(r)
    <3>1. request'[r] = [request[r] EXCEPT !.at = "assigned"]
      BY <2>1, <2>a DEF Assign, Step, RequestTypeOK
    <3>2. request'[r].answer = request[r].answer
      BY <2>1, <3>1 DEF Request
    <3>3. QED
      BY <3>2
  <2>10. QED
    BY <2>3, <2>5, <2>6, <2>7, <2>8, <2>9, <2>a DEF RequestStep
<1>2. QED
  BY <1>1, ServiceInvariance, PTL DEF ServiceSpec, ErrorPageComplete
===========================================================================
