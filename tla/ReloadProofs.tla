--------------------------- MODULE ReloadProofs ---------------------------
(***************************************************************************)
(* Proofs about Reload, for any number of edits, signals and loads.        *)
(***************************************************************************)
EXTENDS Reload, TLAPS

Inv == TypeOK /\ PointerOpen /\ LoaderInv

LEMMA InitInv == Init => Inv
<1> SUFFICES ASSUME Init PROVE Inv
  OBVIOUS
<1> USE ReloadAssumption DEF Init
<1>1. NoState \in StateRecord /\ NoState.version = 0
  BY DEF NoState, StateRecord
<1>2. file \in File /\ read \in File /\ file.version = 1 /\ read.version = 0
  BY DEF File, PolicyKind
<1>3. pointer \notin StateIds /\ Nil \notin StateIds
  BY DEF StateIds
<1>4. TypeOK
  <2>1. pending \in BOOLEAN
    BY Zenon
  <2>2. /\ seed \in {"configured", "zero", "none"}
        /\ handler \in StateIds \cup {Nil} /\ oldHandler \in StateIds \cup {Nil}
        /\ pointer \in StateIds \cup {Nil, Direct}
    OBVIOUS
  <2>3. states \in [StateIds -> StateRecord]
    BY <1>1
  <2>4. loads \in 0 .. MaxLoads /\ signals \in Nat /\ signalled \in Nat
    OBVIOUS
  <2>5. proc \in {"starting", "loaded", "running", "dead"} /\
        loop \in {"read", "build", "hung", "swap", "close", "wait"}
    OBVIOUS
  <2>6. QED
    BY <1>2, <2>1, <2>2, <2>3, <2>4, <2>5, Zenon DEF TypeOK
<1>5. PointerOpen
  BY <1>3 DEF PointerOpen
<1>6. LoaderInv
  BY <1>1, <1>2, <1>3 DEF LoaderInv
<1>7. QED
  BY <1>4, <1>5, <1>6 DEF Inv

LEMMA StepInv == Inv /\ [Next]_vars => Inv'
<1> SUFFICES ASSUME Inv, [Next]_vars PROVE Inv'
  OBVIOUS
<1> USE ReloadAssumption DEF Inv
<1>0. /\ StateIds \subseteq Nat /\ Nil \notin StateIds /\ Direct \notin StateIds
      /\ loads \in Nat /\ file.version \in Nat /\ read.version \in Nat
      /\ \A s \in StateIds : states[s] \in StateRecord /\ states[s].version \in Nat
  BY DEF StateIds, TypeOK, File, StateRecord
<1>1. CASE Edit
  <2>1. PICK kind \in PolicyKind : file' = [version |-> file.version + 1, kind |-> kind]
    BY <1>1 DEF Edit
  <2>2. file' \in File /\ file'.version = file.version + 1
    BY <1>0, <2>1 DEF File
  <2>3. TypeOK'
    BY <1>1, <2>2 DEF Edit, TypeOK
  <2>4. PointerOpen'
    BY <1>1 DEF Edit, PointerOpen
  <2>5. LoaderInv'
    BY <1>0, <1>1, <2>2 DEF Edit, LoaderInv
  <2>6. QED
    BY <2>3, <2>4, <2>5
<1>2. CASE Sighup
  <2>1. TypeOK'
    <3>1. pending' \in BOOLEAN /\ proc' \in {"starting", "loaded", "running", "dead"}
      BY <1>2, Zenon DEF Sighup, TypeOK
    <3>2. signals' \in Nat /\ signalled' \in Nat
      BY <1>0, <1>2 DEF Sighup, TypeOK
    <3>3. QED
      BY <1>2, <3>1, <3>2, Zenon DEF Sighup, TypeOK
  <2>2. PointerOpen' /\ LoaderInv'
    BY <1>2 DEF Sighup, PointerOpen, LoaderInv
  <2>3. QED
    BY <2>1, <2>2
<1>3. CASE TakeSignal
  <2>1. TypeOK'
    BY <1>3 DEF TakeSignal, TypeOK
  <2>2. PointerOpen' /\ LoaderInv'
    BY <1>0, <1>3 DEF TakeSignal, PointerOpen, LoaderInv
  <2>3. QED
    BY <2>1, <2>2
<1>4. CASE ReadPolicy
  <2>1. TypeOK'
    BY <1>4 DEF ReadPolicy, Failed, TypeOK
  <2>2. PointerOpen'
    BY <1>4 DEF ReadPolicy, PointerOpen
  <2>3. LoaderInv'
    BY <1>0, <1>4 DEF ReadPolicy, Failed, LoaderInv
  <2>4. QED
    BY <2>1, <2>2, <2>3
<1>5. CASE NewState
  <2>1. loads < MaxLoads /\ loads + 1 \in StateIds
    BY <1>0, <1>5 DEF NewState, LoaderInv, StateIds
  <2>2. PICK open \in BOOLEAN :
          /\ states' = [states EXCEPT ![loads + 1] =
                [version |-> read.version, key |-> IF seed = "none" THEN "random" ELSE seed,
                 built |-> read.kind = "good", open |-> open]]
          /\ read.kind = "good" => open
    BY <1>5 DEF NewState, Built
  <2> DEFINE new == [version |-> read.version,
                     key |-> IF seed = "none" THEN "random" ELSE seed,
                     built |-> read.kind = "good", open |-> open]
  <2>3. new \in StateRecord /\ new.version = read.version /\ new.open = open
    BY <1>0 DEF StateRecord, TypeOK
  <2>4. states' = [states EXCEPT ![loads + 1] = new]
    BY <2>2
  <2>0. /\ pointer \in StateIds => pointer <= loads
        /\ oldHandler \in StateIds => oldHandler <= loads
    BY DEF LoaderInv
  <2>a. \A x \in StateIds : x <= loads => x <= loads + 1 /\ x # loads + 1
    BY <1>0 DEF StateIds
  <2>5. pointer \in StateIds => pointer # loads + 1
    BY <2>0, <2>a
  <2> HIDE DEF new
  <2>6. TypeOK'
    <3>1. loads' \in 0 .. MaxLoads /\ handler' \in StateIds \cup {Nil}
      BY <1>0, <1>5, <2>1 DEF NewState, Failed, TypeOK
    <3>2. QED
      BY <1>5, <2>3, <2>4, <3>1 DEF NewState, Failed, TypeOK
  <2>7. PointerOpen'
    BY <1>5, <2>4, <2>5 DEF NewState, PointerOpen, TypeOK
  <2>8. LoaderInv'
    <3>1. \A s \in StateIds : states'[s] = IF s = loads + 1 THEN new ELSE states[s]
      BY <2>1, <2>4 DEF TypeOK
    <3>2. CASE read.kind = "good"
      <4>1. handler' = loads + 1 /\ loop' = "swap" /\ loads' = loads + 1 /\ open
        BY <1>5, <2>2, <3>2 DEF NewState
      <4>2. UNCHANGED <<file, read, oldHandler, pointer>>
        BY <1>5 DEF NewState
      <4>3. \A x \in {handler', oldHandler', pointer'} : x \in StateIds => x <= loads'
        <5>1. handler' <= loads'
          BY <1>0, <4>1
        <5>2. (oldHandler' \in StateIds => oldHandler' <= loads')
              /\ (pointer' \in StateIds => pointer' <= loads')
          BY <2>0, <2>a, <4>1, <4>2
        <5>3. QED
          BY <5>1, <5>2
      <4>4. /\ handler' \in StateIds /\ handler' = loads'
            /\ oldHandler' \in StateIds => oldHandler' < loads'
        <5>1. handler' \in StateIds /\ handler' = loads'
          BY <2>1, <4>1
        <5>2. oldHandler \in StateIds => oldHandler <= loads /\ oldHandler \in Nat
          BY <1>0 DEF LoaderInv
        <5>3. QED
          BY <1>0, <4>1, <4>2, <5>1, <5>2
      <4>5. states'[handler'].open /\ states'[handler'].version = read'.version
        BY <2>1, <2>3, <3>1, <4>1, <4>2
      <4>6. \A s \in StateIds : /\ states'[s].version <= file'.version
                                /\ states'[s].version <= read'.version
        BY <1>0, <1>5, <2>3, <3>1, <4>2 DEF LoaderInv, NewState
      <4>7. read'.version <= file'.version
        BY <4>2 DEF LoaderInv
      <4>8. QED
        BY <4>1, <4>3, <4>4, <4>5, <4>6, <4>7 DEF LoaderInv
    <3>3. CASE read.kind # "good"
      <4>1. handler' = Nil /\ loop' \in {"build", "wait"} /\ loads' = loads + 1
        BY <1>5, <3>3 DEF NewState, Failed
      <4>2. UNCHANGED <<file, read, oldHandler, pointer>>
        BY <1>5 DEF NewState
      <4>3. \A x \in {handler', oldHandler', pointer'} : x \in StateIds => x <= loads'
        <5>1. handler' \notin StateIds
          BY <4>1, ReloadAssumption DEF StateIds
        <5>2. (oldHandler' \in StateIds => oldHandler' <= loads')
              /\ (pointer' \in StateIds => pointer' <= loads')
          BY <2>0, <2>a, <4>1, <4>2
        <5>3. QED
          BY <5>1, <5>2
      <4>4. \A s \in StateIds : /\ states'[s].version <= file'.version
                                /\ states'[s].version <= read'.version
        BY <1>0, <1>5, <2>3, <3>1, <4>2 DEF LoaderInv, NewState
      <4>5. read'.version <= file'.version
        BY <4>2 DEF LoaderInv
      <4>6. loop' = "build" => proc' = "dead"
        BY <1>5, <3>3 DEF NewState, Failed
      <4>7. QED
        BY <4>1, <4>3, <4>4, <4>5, <4>6 DEF LoaderInv
    <3>4. QED
      BY <3>2, <3>3
  <2>9. QED
    BY <2>6, <2>7, <2>8
<1>h. CASE NewStateHangs
  <2>1. loads < MaxLoads /\ loads + 1 \in StateIds
    BY <1>0, <1>h DEF NewStateHangs, LoaderInv, StateIds
  <2>2. PICK open \in BOOLEAN :
          states' = [states EXCEPT ![loads + 1] = Built(FALSE, open)]
    BY <1>h DEF NewStateHangs
  <2> DEFINE new == Built(FALSE, open)
  <2>3. new \in StateRecord /\ new.version = read.version
    BY <1>0 DEF Built, StateRecord, TypeOK
  <2>4. \A s \in StateIds : states'[s] = IF s = loads + 1 THEN new ELSE states[s]
    BY <2>1, <2>2 DEF TypeOK
  <2>5. states' \in [StateIds -> StateRecord]
    BY <2>2, <2>3 DEF TypeOK
  <2> HIDE DEF new
  <2>6. TypeOK'
    <3>1. loads' \in 0 .. MaxLoads
      BY <1>0, <1>h, <2>1 DEF NewStateHangs
    <3>2. QED
      BY <1>h, <2>5, <3>1 DEF NewStateHangs, TypeOK
  <2>7. \A x \in {handler, oldHandler, pointer} : x \in StateIds =>
            x # loads + 1 /\ x <= loads + 1
    BY <1>0 DEF LoaderInv
  <2>8. PointerOpen'
    BY <1>h, <2>4, <2>7 DEF NewStateHangs, PointerOpen
  <2>9. LoaderInv'
    BY <1>0, <1>h, <2>3, <2>4, <2>7 DEF NewStateHangs, LoaderInv
  <2>10. QED
    BY <2>6, <2>8, <2>9
<1>6. CASE Swap
  <2>1. TypeOK'
    BY <1>6 DEF Swap, TypeOK
  <2>2. PointerOpen'
    BY <1>6 DEF Swap, PointerOpen, LoaderInv
  <2>3. LoaderInv'
    BY <1>0, <1>6 DEF Swap, LoaderInv
  <2>4. QED
    BY <2>1, <2>2, <2>3
<1>n. CASE Notify
  <2>1. TypeOK'
    BY <1>n DEF Notify, TypeOK
  <2>2. PointerOpen' /\ LoaderInv'
    BY <1>n DEF Notify, PointerOpen, LoaderInv
  <2>3. QED
    BY <2>1, <2>2
<1>7. CASE CloseOld
  <2>1. \A s \in StateIds : /\ Closed(states[s]) \in StateRecord
                            /\ Closed(states[s]).version = states[s].version
    BY <1>0 DEF Closed, StateRecord
  <2>2. TypeOK'
    BY <1>7, <2>1 DEF CloseOld, TypeOK
  <2>3. PointerOpen'
    BY <1>0, <1>7 DEF CloseOld, PointerOpen, LoaderInv, TypeOK
  <2>4. \A s \in StateIds : states'[s].version = states[s].version
    BY <1>7, <2>1 DEF CloseOld, TypeOK
  <2>5. LoaderInv'
    BY <1>0, <1>7, <2>4 DEF CloseOld, LoaderInv
  <2>6. QED
    BY <2>2, <2>3, <2>5
<1>8. CASE UNCHANGED vars
  BY <1>8 DEF vars, TypeOK, PointerOpen, LoaderInv
<1>9. QED
  BY <1>1, <1>2, <1>3, <1>4, <1>5, <1>h, <1>6, <1>n, <1>7, <1>8 DEF Next, Loader

\* The invariant of the loading goroutine.
THEOREM Invariance == Spec => []Inv
BY InitInv, StepInv, PTL DEF Spec

\* Every variable of the loading goroutine keeps its type.
THEOREM TypeCorrect == Spec => []TypeOK
BY Invariance, PTL DEF Inv

\* However edits, signals, failed and successful reloads follow each other,
\* the State that connections load has not been closed.
THEOREM ServedStateOpen == Spec => []PointerOpen
BY Invariance, PTL DEF Inv

\* What a step does to the policy in service.
LEMMA StepKeepsPolicy == Inv /\ [Next]_vars => KeepsPolicy \/ UNCHANGED vars
<1> SUFFICES ASSUME Inv, [Next]_vars, pointer \in StateIds PROVE KeepsPolicy \/ UNCHANGED vars
  BY DEF KeepsPolicy
<1> USE ReloadAssumption DEF Inv
<1>1. /\ StateIds \subseteq Nat /\ loads \in Nat /\ states[pointer] \in StateRecord
      /\ \A s \in StateIds : states[s].version \in Nat
  BY DEF StateIds, TypeOK, StateRecord
<1>2. CASE Swap
  BY <1>1, <1>2 DEF Swap, KeepsPolicy, LoaderInv
<1>3. CASE CloseOld
  <2>1. \A s \in StateIds : Closed(states[s]).version = states[s].version
    BY DEF Closed
  <2>2. states'[pointer].version = states[pointer].version
    BY <1>3, <2>1 DEF CloseOld, TypeOK
  <2>3. QED
    BY <1>1, <1>3, <2>2 DEF CloseOld, KeepsPolicy
<1>4. CASE NewState \/ NewStateHangs
  <2>1. pointer # loads + 1
    BY <1>1 DEF LoaderInv
  <2>2. states'[pointer] = states[pointer] /\ pointer' = pointer
    BY <1>4, <2>1 DEF NewState, NewStateHangs, TypeOK
  <2>3. QED
    BY <1>1, <2>2 DEF KeepsPolicy
<1>5. CASE Edit \/ Sighup \/ TakeSignal \/ ReadPolicy \/ Notify
  BY <1>1, <1>5 DEF Edit, Sighup, TakeSignal, ReadPolicy, Notify, KeepsPolicy
<1>6. QED
  BY <1>2, <1>3, <1>4, <1>5 DEF Next, Loader

\* The reloads implement PolicyService: however edits, signals, failed,
\* hanging and successful loads follow each other, what is served was
\* published and gives way only to a policy at least as new.
THEOREM ReloadRefines == Spec => ImplementsPolicyService
<1>1. Init => Policy!Init
  <2> SUFFICES ASSUME Init PROVE Policy!Init
    OBVIOUS
  <2>1. file.version = 1
    BY DEF Init
  <2>2. pointer \notin StateIds
    BY ReloadAssumption DEF Init, StateIds
  <2>3. QED
    BY <2>1, <2>2 DEF Policy!Init, Serving
<1>2. Inv /\ Inv' /\ [Next]_vars => [Policy!Next]_<<file.version, Serving>>
  <2> SUFFICES ASSUME Inv, Inv', [Next]_vars
               PROVE Policy!Next \/ UNCHANGED <<file.version, Serving>>
    OBVIOUS
  <2>1. /\ Serving \in Nat /\ Serving <= file.version
        /\ file.version \in Nat
    BY ReloadAssumption DEF Inv, TypeOK, LoaderInv, Serving, File, StateRecord
  <2>2. /\ Serving' \in Nat /\ Serving' <= file'.version
        /\ file'.version \in Nat
    BY ReloadAssumption DEF Inv, TypeOK, LoaderInv, Serving, File, StateRecord
  <2>3. Serving' >= Serving
    <3>1. CASE UNCHANGED vars
      BY <2>1, <3>1 DEF vars, Serving
    <3>2. CASE KeepsPolicy /\ pointer \in StateIds
      BY <2>1, <2>2, <3>2 DEF KeepsPolicy, Serving
    <3>3. CASE pointer \notin StateIds
      BY <2>2, <3>3 DEF Serving
    <3>4. QED
      BY StepKeepsPolicy, <3>1, <3>2, <3>3
  <2>4. CASE Edit
    <3>1. file'.version = file.version + 1
      BY <2>4 DEF Edit
    <3>2. Serving' = Serving
      BY <2>4 DEF Edit, Serving
    <3>3. QED
      BY <3>1, <3>2 DEF Policy!Next, Policy!Publish
  <2>5. CASE ~Edit
    <3>1. file' = file
      BY <2>5 DEF Next, Loader, Sighup, TakeSignal, ReadPolicy, NewState, NewStateHangs,
                  Swap, Notify, CloseOld, vars
    <3>2. QED
      BY <2>1, <2>2, <2>3, <3>1 DEF Policy!Next, Policy!Serve
  <2>6. QED
    BY <2>4, <2>5
<1>3. QED
  BY <1>1, <1>2, Invariance, PTL DEF Spec, ImplementsPolicyService, Policy!Spec
===========================================================================
