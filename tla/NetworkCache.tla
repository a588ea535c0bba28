--------------------------- MODULE NetworkCache ---------------------------
(***************************************************************************)
(* The prefix lists of a policy's networks and their cache on disk.  Every *)
(* State loads a network once, when the first request or condition asks    *)
(* for it; the cache files are shared by the States of a process before    *)
(* and after a reload, by the process after a restart and by any other     *)
(* process with the same directory, and nothing locks them.                *)
(***************************************************************************)
EXTENDS Integers, Sequences

CONSTANTS
    States,      \* the States that load the network
    Entries,     \* Entries[i]: what the i-th entry of the network names
    UseCache,    \* a cache directory is configured
    Size,        \* Size[v]: the number of prefixes in the v-th publication
    MaxVersion,  \* bound on the publications
    MaxAge,      \* the age at which a cache file has expired, 24h in the code
    SetTime,     \* the longest a Set takes, from the answer to the last step
    MaxTime      \* bound on the clock

VARIABLES
    now,         \* the clock
    version,     \* what the servers publish now
    superseded,  \* superseded[v]: when v was replaced (history)
    file,        \* file[i]: the cache file of entry i, or Missing
    load,        \* load[s]: where s is inside the function of its OnceValue
    used,        \* used[s][i]: what s took for entry i, or Nothing
    torn,        \* torn[i]: a Set of i was cut short, killed or overlapped (history)
    short        \* short[i]: an answer for i was cut, or a write in parts met other bytes (history)

vars == <<now, version, superseded, file, load, used, torn, short>>

EntryKind == {"url", "asn", "file", "prefixes"}
Index == 1 .. Len(Entries)
Versions == 1 .. MaxVersion

ASSUME NetworkCacheAssumption ==
    /\ Entries \in Seq(EntryKind) /\ Entries # <<>>
    /\ UseCache \in BOOLEAN
    /\ MaxVersion \in Nat \ {0} /\ Size \in [Versions -> Nat]
    /\ MaxAge \in Nat /\ SetTime \in Nat /\ MaxTime \in Nat

\* url and asn lists are cached, file and inline lists are not.
Cached(i) == UseCache /\ Entries[i] \in {"url", "asn"}

\* A prefix: the publication it is from and its place in the list.  A cache
\* file is a JSON array: the prefixes and the closing bracket; Hole is what
\* was never written before something that was.
Token == [v : Nat, n : Nat]
End == [v |-> 0, n |-> 0]
Hole == [v |-> 0, n |-> 1]
List(v) == [n \in 1 .. Size[v] |-> [v |-> v, n |-> n]]
Marshal(list) == Append(list, End)

Elements(list) == {list[n] : n \in 1 .. Len(list)}

\* Mutation: everything up to the first damage is kept.
UnmarshalPrefix(data) == Elements(data) \ {End, Hole}

\* Unmarshal looks at all of its input first, so a damaged array is no list.
Unmarshal(data) ==
    IF /\ data # <<>> /\ Hole \notin Elements(data)
       /\ {n \in 1 .. Len(data) : data[n] = End} = {Len(data)}
    THEN Elements(data) \ {End}
    ELSE {}

Missing == [data |-> <<>>, mtime |-> 0, there |-> FALSE]
CacheFile == [data : Seq(Token), mtime : Nat, there : BOOLEAN]

Nothing == [list |-> {}, from |-> "nothing"]
Taken == [list : SUBSET Token, from : {"nothing", "cache", "torn cache", "answer", "error"}]

Steps == {"idle", "stat", "read", "compare", "fetch", "hung", "create", "write", "touch", "done"}

\* mtime, cached and torn belong to Get; list, since and offset, the number of
\* bytes written, to Set.
Load == [at : Steps, entry : Nat, mtime : Nat, cached : SUBSET Token, torn : BOOLEAN,
         list : Seq(Token), since : Nat, offset : Nat]

\* The first step for entry i, or the end of the loop.
Start(i) == [at |-> IF i > Len(Entries) THEN "done" ELSE IF Cached(i) THEN "stat" ELSE "fetch",
             entry |-> i, mtime |-> 0, cached |-> {}, torn |-> FALSE, list |-> <<>>,
             since |-> 0, offset |-> 0]

Idle == [at |-> "idle", entry |-> 0, mtime |-> 0, cached |-> {}, torn |-> FALSE,
         list |-> <<>>, since |-> 0, offset |-> 0]

\* Between the answer and the end of its Set.
Setting(s) == load[s].at \in {"create", "write", "touch"}

\* A Set of i that has the file open.
Open(s, i) == load[s].at \in {"write", "touch"} /\ load[s].entry = i

Init ==
    /\ now = 0 /\ version = 1
    /\ superseded = [v \in Versions |-> 0]
    /\ file = [i \in Index |-> Missing]
    /\ load = [s \in States |-> Idle]
    /\ used = [s \in States |-> [i \in Index |-> Nothing]]
    /\ torn = [i \in Index |-> FALSE]
    /\ short = [i \in Index |-> FALSE]

---------------------------------------------------------------------------
(* The world *)

\* A Set is a few system calls: the clock does not leave one behind for
\* longer than SetTime.
Tick ==
    /\ now < MaxTime
    /\ \A s \in States : Setting(s) => now < load[s].since + SetTime
    /\ now' = now + 1
    /\ UNCHANGED <<version, superseded, file, load, used, torn, short>>

Publish ==
    /\ version < MaxVersion
    /\ version' = version + 1
    /\ superseded' = [superseded EXCEPT ![version] = now]
    /\ UNCHANGED <<now, file, load, used, torn, short>>

\* What s has loaded is gone.
Forget(s) ==
    /\ used' = [used EXCEPT ![s] = [i \in Index |-> Nothing]]
    /\ load' = [load EXCEPT ![s] = Idle]

\* The process of s ends, whatever it is doing; another may start.
Crash(s) ==
    /\ load[s].at # "idle"
    /\ torn' = [i \in Index |-> torn[i] \/ Open(s, i)]
    /\ Forget(s)
    /\ UNCHANGED <<now, version, superseded, file, short>>

\* A reload puts another State in the place of s.
Renew(s) ==
    /\ load[s].at = "done"
    /\ Forget(s)
    /\ UNCHANGED <<now, version, superseded, file, torn, short>>

---------------------------------------------------------------------------
(* The function of the network's OnceValue *)

\* network() of a condition, or the preload of RegisterCondition: the first
\* caller runs the function; the others wait for it, or find it has returned,
\* and change nothing.
Ask(s) ==
    /\ load[s].at = "idle"
    /\ load' = [load EXCEPT ![s] = Start(1)]
    /\ UNCHANGED <<now, version, superseded, file, used, torn, short>>

\* The entry is done with: its prefixes go into the ranger.
Take(s, list, from) ==
    /\ used' = [used EXCEPT ![s][load[s].entry] = [list |-> list, from |-> from]]
    /\ load' = [load EXCEPT ![s] = Start(load[s].entry + 1)]

\* Get: the file's time is taken first, its contents after that.
Stat(s) ==
    /\ load[s].at = "stat"
    /\ LET f == file[load[s].entry] IN
          load' = IF f.there THEN [load EXCEPT ![s].at = "read", ![s].mtime = f.mtime]
                             ELSE [load EXCEPT ![s].at = "fetch"]
    /\ UNCHANGED <<now, version, superseded, file, used, torn, short>>

Read(s) ==
    /\ load[s].at = "read"
    /\ LET i == load[s].entry IN
          load' = [load EXCEPT ![s].at = "compare",
                               ![s].cached = Unmarshal(file[i].data),
                               ![s].torn = torn[i] \/ \E t \in States : Open(t, i)]
    /\ UNCHANGED <<now, version, superseded, file, used, torn, short>>

ReadFail(s) ==
    /\ load[s].at = "read"
    /\ load' = [load EXCEPT ![s].at = "fetch", ![s].mtime = 0]
    /\ UNCHANGED <<now, version, superseded, file, used, torn, short>>

\* Mutation: an expired file is as good as another.
CompareNothing(s) ==
    /\ load[s].at = "compare"
    /\ Take(s, load[s].cached, IF load[s].torn THEN "torn cache" ELSE "cache")
    /\ UNCHANGED <<now, version, superseded, file, torn, short>>

\* A file that has not expired is used, whatever it holds.
Compare(s) ==
    /\ load[s].at = "compare"
    /\ IF load[s].mtime + MaxAge < now
       THEN load' = [load EXCEPT ![s].at = "fetch", ![s].mtime = 0] /\ used' = used
       ELSE Take(s, load[s].cached, IF load[s].torn THEN "torn cache" ELSE "cache")
    /\ UNCHANGED <<now, version, superseded, file, torn, short>>

\* Neither RADb's scanner nor the regular expression over a body without a
\* length notices that the answer ends early.
EndsEarly(i) == Entries[i] \in {"url", "asn"}

\* FetchPrefixes.
Fetch(s) ==
    /\ load[s].at = "fetch"
    /\ \E n \in 0 .. Size[version] :
          LET i == load[s].entry
              answer == SubSeq(List(version), 1, n)
              cut == n < Size[version]
          IN /\ cut => EndsEarly(i)
             /\ IF Cached(i)
                THEN /\ load' = [load EXCEPT ![s].at = "create", ![s].list = answer,
                                             ![s].since = now, ![s].cached = {}]
                     /\ used' = used
                ELSE Take(s, Elements(answer), "answer")
             /\ short' = [short EXCEPT ![i] = @ \/ cut]
    /\ UNCHANGED <<now, version, superseded, file, torn>>

\* An error: what the cache held comes back with it, and the loop drops both.
FetchFail(s) ==
    /\ load[s].at = "fetch"
    /\ Take(s, {}, "error")
    /\ UNCHANGED <<now, version, superseded, file, torn, short>>

\* The client has no timeout: a server may accept the request and say nothing.
FetchHang(s) ==
    /\ load[s].at = "fetch" /\ Entries[load[s].entry] = "url"
    /\ load' = [load EXCEPT ![s].at = "hung"]
    /\ UNCHANGED <<now, version, superseded, file, used, torn, short>>

\* Set: os.Create empties the file, or fails and nothing is cached.
SetCreate(s) ==
    /\ load[s].at = "create"
    /\ LET i == load[s].entry IN
          \/ /\ file' = [file EXCEPT ![i] = [data |-> <<>>, mtime |-> now, there |-> TRUE]]
             /\ torn' = [torn EXCEPT ![i] = @ \/ \E t \in States : Open(t, i)]
             /\ load' = [load EXCEPT ![s].at = "write", ![s].offset = 0]
             /\ used' = used
          \/ /\ Take(s, Elements(load[s].list), "answer")
             /\ UNCHANGED <<file, torn>>
    /\ UNCHANGED <<now, version, superseded, short>>

\* The file after bytes[from + 1 .. to] were written at their place, whatever
\* it holds there and before.
Written(old, bytes, from, to) ==
    IF from = to THEN old
    ELSE [k \in 1 .. (IF Len(old) > to THEN Len(old) ELSE to) |->
            IF from < k /\ k <= to THEN bytes[k] ELSE IF k <= Len(old) THEN old[k] ELSE Hole]

\* The bytes arrive at once or in part, for now or, when the disk is full,
\* for good.
SetWrite(s) ==
    /\ load[s].at = "write"
    /\ \E n \in load[s].offset .. Len(load[s].list) + 1, rest \in BOOLEAN :
          LET i == load[s].entry
              from == load[s].offset
              bytes == Marshal(load[s].list)
              part == n < Len(bytes)
          IN /\ rest => part /\ n > from
             /\ file' = [file EXCEPT ![i].data = Written(@, bytes, from, n), ![i].mtime = now]
             /\ load' = [load EXCEPT ![s].at = IF rest THEN "write" ELSE "touch",
                                  ![s].offset = IF rest THEN n ELSE 0]
             /\ torn' = [torn EXCEPT ![i] = @ \/ part]
             /\ short' = [short EXCEPT ![i] =
                   @ \/ ((part \/ from > 0) /\ file[i].data # SubSeq(bytes, 1, from))]
    /\ UNCHANGED <<now, version, superseded, used>>

\* Mutation: the file is dated so that it is fetched again after a restart.
TouchInPast(s) ==
    /\ load[s].at = "touch"
    /\ file' = [file EXCEPT ![load[s].entry].mtime = now - MaxAge - 1]
    /\ Take(s, Elements(load[s].list), "answer")
    /\ UNCHANGED <<now, version, superseded, torn, short>>

\* Chtimes, on the name, whoever wrote last.
SetTouch(s) ==
    /\ load[s].at = "touch"
    /\ file' = [file EXCEPT ![load[s].entry].mtime = now]
    /\ Take(s, Elements(load[s].list), "answer")
    /\ UNCHANGED <<now, version, superseded, torn, short>>

LoadStep(s) == \/ Stat(s) \/ Read(s) \/ ReadFail(s) \/ Compare(s)
               \/ Fetch(s) \/ FetchFail(s) \/ FetchHang(s)
               \/ SetCreate(s) \/ SetWrite(s) \/ SetTouch(s)

Next == \/ Tick \/ Publish
        \/ \E s \in States : Crash(s) \/ Renew(s) \/ Ask(s) \/ LoadStep(s)

Spec == Init /\ [][Next]_vars

---------------------------------------------------------------------------
\* Every variable has its type.
TypeOK ==
    /\ now \in Nat /\ version \in Versions
    /\ superseded \in [Versions -> Nat]
    /\ file \in [Index -> CacheFile]
    /\ load \in [States -> Load]
    /\ \A s \in States : load[s].at \notin {"idle", "done"} => load[s].entry \in Index
    /\ used \in [States -> [Index -> Taken]]
    /\ torn \in [Index -> BOOLEAN] /\ short \in [Index -> BOOLEAN]

\* Unless an answer was cut or a Set that wrote in parts met the bytes of
\* another, a list that was fetched, or read from a file no Set had left
\* unfinished, is one publication, whole; and any other is one, or nothing.
\* Sets that overlap and write at once never leave a list made of two, and an
\* empty list that is not a failure was published empty.
ListsWhole ==
    \A s \in States, i \in Index :
        LET lists == {Elements(List(v)) : v \in 1 .. version}
        IN ~short[i] => used[s][i].list \in
              (IF used[s][i].from \in {"cache", "answer"} THEN lists ELSE {{}} \cup lists)

\* A list taken from the cache went out of date at most MaxAge, and the time
\* of the two Sets that may overlap, before it is taken.
TakesFresh ==
    \A s \in States, i \in Index : \A p \in used'[s][i].list \ used[s][i].list :
        p.v = version \/ now <= superseded[p.v] + MaxAge + 2 * SetTime
FreshEnough == [][TakesFresh]_vars
===========================================================================
