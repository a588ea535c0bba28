------------------------------ MODULE Reload ------------------------------
(***************************************************************************)
(* Policy loading and live reloading: the goroutine of main.go that builds *)
(* a State from the policy file, swaps it in and, from then on, does so    *)
(* again for every SIGHUP; the handler pointer of Bind.Server that the     *)
(* connections load; the key and the objects each State owns.              *)
(***************************************************************************)
EXTENDS Naturals

CONSTANTS Seeded,       \* a private key seed is configured
          Passthrough,  \* bind.passthrough: serve the backends until the first load
          MaxVersion,   \* bound on the edits of the policy file
          MaxLoads,     \* bound on the States built
          MaxSignals,   \* bound on the SIGHUPs
          Nil,          \* no State
          Direct        \* the passthrough handler

VARIABLES
    proc,       \* "starting" until the first swap, then "loaded" until SIGHUP is
                \* caught, then "running"; "dead"
    loop,       \* where the loading goroutine is: "read", "build", "hung", "swap", "close", "wait"
    file,       \* the policy file: its version, and whether it loads
    read,       \* the contents the goroutine has read
    seed,       \* the seed slice of main: "configured", "zero" (cleared) or "none"
    pending,    \* a signal is in the channel, which holds one
    handler,    \* main's handler variable
    oldHandler, \* main's oldHandler variable
    pointer,    \* serverHandler: Nil, Direct or a State
    states,     \* states[s]: the States built so far
    loads,      \* how many there are
    signals,    \* the SIGHUPs sent so far
    signalled   \* the version of the file at the last SIGHUP

vars == <<proc, loop, file, read, seed, pending, handler, oldHandler, pointer,
          states, loads, signals, signalled>>

ASSUME ReloadAssumption ==
    /\ Seeded \in BOOLEAN /\ Passthrough \in BOOLEAN
    /\ MaxVersion \in Nat /\ MaxLoads \in Nat /\ MaxSignals \in Nat
    /\ Nil \notin Nat /\ Direct \notin Nat /\ Nil # Direct

\* "unparsable": NewPolicy rejects it; "unbuildable": a template, condition,
\* challenge or rule of it is rejected by NewState, after the key was made.
PolicyKind == {"good", "unparsable", "unbuildable"}
File == [version : Nat, kind : PolicyKind]

StateIds == 1 .. MaxLoads

\* A State: its key ("random" is a key of its own), whether NewState came to
\* its end, and whether its goroutines and runtimes are there.
StateRecord == [version : Nat, key : {"configured", "zero", "random"},
                built : BOOLEAN, open : BOOLEAN]

Closed(st) == [version |-> st.version, key |-> st.key, built |-> st.built, open |-> FALSE]

NoState == [version |-> 0, key |-> "random", built |-> FALSE, open |-> FALSE]

Init ==
    /\ proc = "starting" /\ loop = "read"
    /\ \E kind \in PolicyKind : file = [version |-> 1, kind |-> kind]
    /\ read = [version |-> 0, kind |-> "good"]
    /\ seed = IF Seeded THEN "configured" ELSE "none"
    /\ pending = FALSE
    /\ handler = Nil /\ oldHandler = Nil
    /\ pointer = IF Passthrough THEN Direct ELSE Nil
    /\ states = [s \in StateIds |-> NoState]
    /\ loads = 0 /\ signals = 0 /\ signalled = 0

---------------------------------------------------------------------------
(* The operator *)

Edit ==
    /\ proc # "dead" /\ file.version < MaxVersion
    /\ \E kind \in PolicyKind : file' = [version |-> file.version + 1, kind |-> kind]
    /\ UNCHANGED <<proc, loop, read, seed, pending, handler, oldHandler, pointer,
                   states, loads, signals, signalled>>

\* Mutation: the channel has no room when the goroutine is not waiting.
SighupUnbuffered ==
    /\ proc # "dead" /\ signals < MaxSignals
    /\ signals' = signals + 1
    /\ IF proc # "running"
       THEN proc' = "dead" /\ UNCHANGED <<pending, signalled>>
       ELSE pending' = (pending \/ loop = "wait") /\ signalled' = file.version /\ proc' = proc
    /\ UNCHANGED <<loop, file, read, seed, handler, oldHandler, pointer, states, loads>>

\* Until signal.Notify the signal ends the process.  After that it is put
\* into the channel, or dropped when one is already there.
Sighup ==
    /\ proc # "dead" /\ signals < MaxSignals
    /\ signals' = signals + 1
    /\ IF proc # "running"
       THEN proc' = "dead" /\ UNCHANGED <<pending, signalled>>
       ELSE pending' = TRUE /\ signalled' = file.version /\ proc' = proc
    /\ UNCHANGED <<loop, file, read, seed, handler, oldHandler, pointer, states, loads>>

---------------------------------------------------------------------------
(* The goroutine *)

\* A load failed: the first time the process ends, later the error is logged
\* and the loop goes on with the nil handler that loadPolicyState returned.
Failed ==
    /\ handler' = Nil
    /\ IF proc = "starting" THEN proc' = "dead" /\ loop' = loop
                            ELSE proc' = proc /\ loop' = "wait"

\* Mutation: the State is closed when its reload begins.
TakeSignalAndClose ==
    /\ proc = "running" /\ loop = "wait" /\ pending
    /\ pending' = FALSE
    /\ oldHandler' = handler
    /\ loop' = "read"
    /\ states' = IF handler # Nil THEN [states EXCEPT ![handler] = Closed(@)] ELSE states
    /\ UNCHANGED <<proc, file, read, seed, handler, pointer, loads, signals, signalled>>

\* range c: the next signal is taken and the current handler remembered.
TakeSignal ==
    /\ proc = "running" /\ loop = "wait" /\ pending
    /\ pending' = FALSE
    /\ oldHandler' = handler
    /\ loop' = "read"
    /\ UNCHANGED <<proc, file, read, seed, handler, pointer, states, loads, signals, signalled>>

\* loadPolicyState up to NewPolicy.
ReadPolicy ==
    /\ proc # "dead" /\ loop = "read" /\ loads < MaxLoads
    /\ read' = file
    /\ IF file.kind = "unparsable" THEN Failed
       ELSE loop' = "build" /\ UNCHANGED <<proc, handler>>
    /\ UNCHANGED <<file, seed, pending, oldHandler, pointer, states, loads, signals, signalled>>

\* The record of a State that is built with the contents read.
Built(built, open) ==
    [version |-> read.version, key |-> IF seed = "none" THEN "random" ELSE seed,
     built |-> built, open |-> open]

\* Mutation: the error of a failed build is ignored and nil swapped in.
BuildIgnoringError ==
    /\ proc # "dead" /\ loop = "build"
    /\ loads' = loads + 1
    /\ seed' = IF seed = "none" THEN "none" ELSE "zero"
    /\ states' = [states EXCEPT ![loads + 1] = Built(read.kind = "good", read.kind = "good")]
    /\ handler' = IF read.kind = "good" THEN loads + 1 ELSE Nil
    /\ loop' = "swap" /\ proc' = proc
    /\ UNCHANGED <<file, read, pending, oldHandler, pointer, signals, signalled>>

\* Mutation: a generated key becomes the seed of the next load.
BuildKeepingKey ==
    /\ proc # "dead" /\ loop = "build"
    /\ loads' = loads + 1
    /\ seed' = IF seed = "none" THEN "random" ELSE "zero"
    /\ states' = [states EXCEPT ![loads + 1] = Built(read.kind = "good", read.kind = "good")]
    /\ IF read.kind = "good"
       THEN handler' = loads + 1 /\ loop' = "swap" /\ proc' = proc
       ELSE Failed
    /\ UNCHANGED <<file, read, pending, oldHandler, pointer, signals, signalled>>

\* NewState: the key is made from the seed, whose bytes are then cleared in
\* the slice main still holds; then challenges and rules are built.  When one
\* of them is rejected, the goroutines of those built before may stay.
NewState ==
    /\ proc # "dead" /\ loop = "build"
    /\ loads' = loads + 1
    /\ seed' = IF seed = "none" THEN "none" ELSE "zero"
    /\ \E open \in BOOLEAN :
          /\ states' = [states EXCEPT ![loads + 1] = Built(read.kind = "good", open)]
          /\ read.kind = "good" => open
    /\ IF read.kind = "good"
       THEN handler' = loads + 1 /\ loop' = "swap" /\ proc' = proc
       ELSE Failed
    /\ UNCHANGED <<file, read, pending, oldHandler, pointer, signals, signalled>>

\* NewState, when a condition names a network whose list server never
\* answers: the preload has no timeout and the goroutine waits for ever.
NewStateHangs ==
    /\ proc # "dead" /\ loop = "build"
    /\ loads' = loads + 1
    /\ seed' = IF seed = "none" THEN "none" ELSE "zero"
    /\ \E open \in BOOLEAN :
          states' = [states EXCEPT ![loads + 1] = Built(FALSE, open)]
    /\ loop' = "hung"
    /\ UNCHANGED <<proc, file, read, pending, handler, oldHandler, pointer, signals, signalled>>

\* swap(handler): the server loads it for every request from now on.
Swap ==
    /\ proc # "dead" /\ loop = "swap"
    /\ pointer' = handler
    /\ loop' = IF proc = "starting" THEN "wait" ELSE "close"
    /\ proc' = IF proc = "starting" THEN "loaded" ELSE proc
    /\ UNCHANGED <<file, read, seed, pending, handler, oldHandler, states, loads,
                   signals, signalled>>

\* signal.Notify, after the first swap and its log line: SIGHUP is caught.
Notify ==
    /\ proc = "loaded"
    /\ proc' = "running"
    /\ UNCHANGED <<loop, file, read, seed, pending, handler, oldHandler, pointer, states,
                   loads, signals, signalled>>

\* oldHandler.Close(), when there is one.
CloseOld ==
    /\ proc = "running" /\ loop = "close"
    /\ states' = IF oldHandler # Nil THEN [states EXCEPT ![oldHandler] = Closed(@)]
                                     ELSE states
    /\ loop' = "wait"
    /\ UNCHANGED <<proc, file, read, seed, pending, handler, oldHandler, pointer, loads,
                   signals, signalled>>

Loader == TakeSignal \/ ReadPolicy \/ NewState \/ NewStateHangs \/ Swap \/ Notify \/ CloseOld

Next == Edit \/ Sighup \/ Loader

Spec == Init /\ [][Next]_vars

\* The goroutine is scheduled until the process ends.
FairSpec == Spec /\ WF_vars(Loader)

---------------------------------------------------------------------------
Serving == IF pointer \in StateIds THEN states[pointer].version ELSE 0

\* Every variable has its type.
TypeOK ==
    /\ proc \in {"starting", "loaded", "running", "dead"}
    /\ loop \in {"read", "build", "hung", "swap", "close", "wait"}
    /\ file \in File /\ read \in File
    /\ seed \in {"configured", "zero", "none"}
    /\ pending \in BOOLEAN
    /\ handler \in StateIds \cup {Nil} /\ oldHandler \in StateIds \cup {Nil}
    /\ pointer \in StateIds \cup {Nil, Direct}
    /\ states \in [StateIds -> StateRecord]
    /\ loads \in 0 .. MaxLoads /\ signals \in Nat /\ signalled \in Nat

\* A connection never loads a State whose runtimes have been closed.
PointerOpen == pointer \in StateIds => states[pointer].open

\* What main's three variables and the State being loaded have to do with
\* each other.  With TypeOK and PointerOpen this is inductive.
LoaderInv ==
    /\ loop = "build" /\ proc # "dead" => loads < MaxLoads
    /\ \A x \in {handler, oldHandler, pointer} : x \in StateIds => x <= loads
    /\ loop \in {"swap", "close"} =>
          /\ handler \in StateIds /\ handler = loads
          /\ oldHandler \in StateIds => oldHandler < loads
    /\ loop = "swap" => states[handler].open /\ states[handler].version = read.version
    /\ loop = "close" => pointer = handler
    /\ read.version <= file.version
    /\ \A s \in StateIds : states[s].version <= file.version
    /\ loop \in {"build", "swap"} => \A s \in StateIds : states[s].version <= read.version

\* What a step does to the policy in service.
KeepsPolicy == pointer \in StateIds =>
    pointer' \in StateIds /\ states'[pointer'].version >= states[pointer].version

\* The reloads keep the promise of PolicyService: a policy that was published
\* is served, and neither a failed reload nor two in a row put an older one,
\* or none, in its place.
Policy == INSTANCE PolicyService WITH published <- file.version, served <- Serving
ImplementsPolicyService == Policy!Spec

\* The last edit that was signalled is served in the end if it loads, even
\* when its signal found the goroutine busy or the channel full; unless a
\* list server keeps the goroutine for ever.
ReloadApplied ==
    \A n \in 1 .. MaxVersion :
        (proc = "running" /\ signalled = n /\ file = [version |-> n, kind |-> "good"])
            ~> (Serving = n \/ file.version # n \/ loads = MaxLoads \/ loop = "hung")

\* Every State that serves signs with the key of the configured seed.
KeyFromSeed == Seeded => \A s \in StateIds : states[s].built => states[s].key = "configured"
===========================================================================
