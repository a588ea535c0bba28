------------------------ MODULE NetworkCacheProofs ------------------------
(***************************************************************************)
(* Proofs about NetworkCache, for any sets of States and callers, any      *)
(* entries, any publications and any bounds.                               *)
(***************************************************************************)
EXTENDS NetworkCache, TLAPS

---------------------------------------------------------------------------
(* Lists and the bytes of a cache file *)

LEMMA TokenFacts == End \in Token /\ Hole \in Token /\ \A v \in Nat, n \in Nat : [v |-> v, n |-> n] \in Token
BY DEF End, Hole, Token

LEMMA ListFacts ==
  ASSUME NEW v \in Versions
  PROVE  /\ List(v) \in Seq(Token) /\ Len(List(v)) = Size[v] /\ Size[v] \in Nat
         /\ \A n \in 1 .. Size[v] : /\ List(v)[n] = [v |-> v, n |-> n] /\ List(v)[n].v = v
                                    /\ List(v)[n] # End /\ List(v)[n] # Hole
<1>1. Size[v] \in Nat /\ v \in Nat \ {0}
  BY NetworkCacheAssumption DEF Versions
<1>2. List(v) = [n \in 1 .. Size[v] |-> [v |-> v, n |-> n]]
  BY DEF List
<1>3. \A n \in 1 .. Size[v] : [v |-> v, n |-> n] \in Token /\ [v |-> v, n |-> n].v = v
  BY <1>1, TokenFacts
<1>4. List(v) \in Seq(Token) /\ Len(List(v)) = Size[v]
  BY <1>1, <1>2, <1>3
<1>5. ASSUME NEW n \in 1 .. Size[v]
      PROVE  /\ List(v)[n] = [v |-> v, n |-> n] /\ List(v)[n].v = v
             /\ List(v)[n] # End /\ List(v)[n] # Hole
  <2>1. List(v)[n] = [v |-> v, n |-> n]
    BY <1>2
  <2>2. End.v = 0 /\ Hole.v = 0
    BY DEF End, Hole
  <2>3. QED
    BY <1>1, <2>1, <2>2
<1>6. QED
  BY <1>1, <1>4, <1>5

LEMMA SubSeqFacts ==
  ASSUME NEW list \in Seq(Token), NEW n \in 0 .. Len(list)
  PROVE  /\ SubSeq(list, 1, n) \in Seq(Token) /\ Len(SubSeq(list, 1, n)) = n
         /\ \A k \in 1 .. n : SubSeq(list, 1, n)[k] = list[k]
OBVIOUS

LEMMA MarshalFacts ==
  ASSUME NEW list \in Seq(Token)
  PROVE  /\ Marshal(list) \in Seq(Token) /\ Len(Marshal(list)) = Len(list) + 1
         /\ \A k \in 1 .. Len(list) : Marshal(list)[k] = list[k]
         /\ Marshal(list)[Len(list) + 1] = End
BY TokenFacts DEF Marshal

LEMMA WrittenFacts ==
  ASSUME NEW old \in Seq(Token), NEW bytes \in Seq(Token),
         NEW from \in 0 .. Len(bytes), NEW to \in from .. Len(bytes)
  PROVE  LET d == Written(old, bytes, from, to) IN
         /\ d \in Seq(Token)
         /\ Len(d) = IF from = to \/ Len(old) > to THEN Len(old) ELSE to
         /\ \A k \in 1 .. Len(d) :
               /\ from < k /\ k <= to => d[k] = bytes[k]
               /\ ~(from < k /\ k <= to) => d[k] = IF k <= Len(old) THEN old[k] ELSE Hole
<1> DEFINE d == Written(old, bytes, from, to)
           m == IF Len(old) > to THEN Len(old) ELSE to
           At(k) == IF from < k /\ k <= to THEN bytes[k]
                    ELSE IF k <= Len(old) THEN old[k] ELSE Hole
<1>1. Len(old) \in Nat /\ Len(bytes) \in Nat /\ from \in Nat /\ to \in Nat /\ m \in Nat
  OBVIOUS
<1>2. CASE from = to
  <2>1. d = old
    BY <1>2 DEF Written
  <2>2. QED
    BY <1>1, <1>2, <2>1
<1>3. CASE from # to
  <2>1. d = [k \in 1 .. m |-> At(k)]
    BY <1>3 DEF Written
  <2>2. ASSUME NEW k \in 1 .. m PROVE At(k) \in Token
    <3>1. CASE from < k /\ k <= to
      BY <1>1, <3>1
    <3>2. CASE ~(from < k /\ k <= to)
      BY <1>1, <3>2, TokenFacts
    <3>3. QED
      BY <3>1, <3>2
  <2> HIDE DEF m, At
  <2>3. d \in Seq(Token) /\ Len(d) = m /\ \A k \in 1 .. m : d[k] = At(k)
    BY <1>1, <2>1, <2>2
  <2>4. \A k \in 1 .. Len(d) :
           /\ from < k /\ k <= to => d[k] = bytes[k]
           /\ ~(from < k /\ k <= to) => d[k] = IF k <= Len(old) THEN old[k] ELSE Hole
    BY <2>3 DEF At
  <2>5. QED
    BY <1>3, <2>3, <2>4 DEF m
<1>4. QED
  BY <1>2, <1>3

---------------------------------------------------------------------------
(* Types *)

LEMMA StartFacts ==
  ASSUME NEW i \in Nat \ {0}
  PROVE  /\ Start(i) \in Load /\ Start(i).entry = i
         /\ Start(i).at \in {"done", "stat", "fetch"}
         /\ Start(i).at # "done" => i \in Index
         /\ Idle \in Load /\ Idle.at = "idle"
BY NetworkCacheAssumption DEF Start, Idle, Load, Steps, Index

LEMMA ElementsFacts ==
  ASSUME NEW list \in Seq(Token)
  PROVE  Elements(list) \subseteq Token /\ Unmarshal(list) \subseteq Token
         /\ Unmarshal(list) \subseteq Elements(list) \ {End, Hole}
BY DEF Elements, Unmarshal

\* The entry a State is at, and what Take does.
LEMMA AtEntry ==
  ASSUME TypeOK, NEW s \in States, load[s].at \notin {"idle", "done"}
  PROVE  /\ load[s] \in Load /\ load[s].entry \in Index /\ load[s].entry \in Nat \ {0}
         /\ file[load[s].entry] \in CacheFile
         /\ file[load[s].entry].data \in Seq(Token) /\ file[load[s].entry].mtime \in Nat
BY DEF TypeOK, Index, CacheFile

LEMMA NextEntry == \A n \in Nat : n + 1 \in Nat \ {0}
OBVIOUS

LEMMA TakenFields ==
  \A taken, l, f : taken = [list |-> l, from |-> f] => taken.list = l /\ taken.from = f
OBVIOUS

LEMMA TakeFacts ==
  ASSUME TypeOK, NEW s \in States, load[s].at \notin {"idle", "done"},
         NEW l, l \subseteq Token, NEW f \in {"cache", "torn cache", "answer", "error"},
         Take(s, l, f)
  PROVE  /\ load' \in [States -> Load] /\ used' \in [States -> [Index -> Taken]]
         /\ load'[s] = Start(load[s].entry + 1)
         /\ load'[s].at \in {"done", "stat", "fetch"}
         /\ load'[s].at # "done" => load'[s].entry \in Index
         /\ \A t \in States \ {s} : load'[t] = load[t] /\ used'[t] = used[t]
         /\ used'[s][load[s].entry].list = l /\ used'[s][load[s].entry].from = f
         /\ \A i \in Index \ {load[s].entry} : used'[s][i] = used[s][i]
<1>1. load[s].entry \in Index /\ load[s].entry \in Nat
  BY AtEntry
<1> DEFINE n == load[s].entry + 1
<1>2. n \in Nat \ {0}
  BY <1>1, NextEntry, Zenon
<1>3. /\ Start(n) \in Load /\ Start(n).entry = n /\ Start(n).at \in {"done", "stat", "fetch"}
      /\ Start(n).at # "done" => n \in Index
  BY <1>2, StartFacts
<1>4. [list |-> l, from |-> f] \in Taken
  BY DEF Taken
<1>5. load' = [load EXCEPT ![s] = Start(n)]
  BY DEF Take
<1> HIDE DEF n
<1>6. /\ load' \in [States -> Load] /\ load'[s] = Start(n)
      /\ \A t \in States \ {s} : load'[t] = load[t]
  BY <1>3, <1>5 DEF TypeOK
<1>7. used' = [used EXCEPT ![s][load[s].entry] = [list |-> l, from |-> f]]
  BY DEF Take
<1>8. /\ used' \in [States -> [Index -> Taken]]
      /\ used'[s][load[s].entry] = [list |-> l, from |-> f]
      /\ \A t \in States \ {s} : used'[t] = used[t]
      /\ \A i \in Index \ {load[s].entry} : used'[s][i] = used[s][i]
  BY <1>1, <1>4, <1>7 DEF TypeOK
<1>9. load'[s] = Start(load[s].entry + 1)
  BY <1>6 DEF n
<1>10. used'[s][load[s].entry].list = l /\ used'[s][load[s].entry].from = f
  <2>1. used'[s][load[s].entry] = [list |-> l, from |-> f]
    BY <1>8
  <2>2. QED
    BY <2>1, TakenFields
<1>11. QED
  BY <1>3, <1>6, <1>8, <1>9, <1>10

\* The variables that a step of s inside its function leaves alone.
Around(s) == UNCHANGED <<now, version, superseded>>
             /\ \A t \in States \ {s} : load'[t] = load[t] /\ used'[t] = used[t]

LEMMA StatFacts ==
  ASSUME TypeOK, NEW s \in States, Stat(s)
  PROVE  /\ load' \in [States -> Load] /\ Around(s) /\ UNCHANGED <<file, used, torn, short>>
         /\ load'[s].entry = load[s].entry /\ load[s].at = "stat"
         /\ load'[s].at \in {"read", "fetch"}
         /\ load'[s].at = "read" => load'[s].mtime = file[load[s].entry].mtime
                                    /\ file[load[s].entry].there
<1>1. /\ load[s] \in Load /\ file[load[s].entry].mtime \in Nat
  BY AtEntry DEF Stat
<1>2. QED
  BY <1>1 DEF TypeOK, Stat, Load, Steps, Around

LEMMA ReadFacts ==
  ASSUME TypeOK, NEW s \in States, Read(s)
  PROVE  /\ load' \in [States -> Load] /\ Around(s) /\ UNCHANGED <<file, used, torn, short>>
         /\ load'[s].entry = load[s].entry /\ load[s].at = "read" /\ load'[s].at = "compare"
         /\ load'[s].mtime = load[s].mtime
         /\ load'[s].cached = Unmarshal(file[load[s].entry].data)
         /\ load'[s].torn = (torn[load[s].entry] \/ \E t \in States : Open(t, load[s].entry))
<1> DEFINE c == Unmarshal(file[load[s].entry].data)
           b == torn[load[s].entry] \/ \E t \in States : Open(t, load[s].entry)
<1>1. load[s] \in Load /\ c \subseteq Token /\ load[s].at = "read"
  BY AtEntry, ElementsFacts DEF Read
<1>2. load[s].entry \in Index /\ b \in BOOLEAN
  BY AtEntry DEF TypeOK, Read
<1>3. load' = [load EXCEPT ![s].at = "compare", ![s].cached = c, ![s].torn = b]
  BY DEF Read
<1> HIDE DEF c, b
<1>4. /\ load' \in [States -> Load] /\ load'[s].entry = load[s].entry
      /\ load'[s].at = "compare" /\ load'[s].mtime = load[s].mtime
      /\ load'[s].cached = c /\ load'[s].torn = b
      /\ \A t \in States \ {s} : load'[t] = load[t]
  BY <1>1, <1>2, <1>3 DEF TypeOK, Load, Steps
<1>5. QED
  BY <1>1, <1>4 DEF c, b, Read, Around

LEMMA ReadFailFacts ==
  ASSUME TypeOK, NEW s \in States, ReadFail(s)
  PROVE  /\ load' \in [States -> Load] /\ Around(s) /\ UNCHANGED <<file, used, torn, short>>
         /\ load'[s].at = "fetch" /\ load'[s].entry = load[s].entry /\ load[s].at = "read"
<1>1. load[s] \in Load
  BY DEF TypeOK
<1>2. QED
  BY <1>1 DEF TypeOK, ReadFail, Load, Steps, Around

LEMMA CompareFacts ==
  ASSUME TypeOK, NEW s \in States, Compare(s)
  PROVE  /\ load' \in [States -> Load] /\ used' \in [States -> [Index -> Taken]]
         /\ Around(s) /\ UNCHANGED <<file, torn, short>> /\ load[s].at = "compare"
         /\ \/ /\ load'[s].at = "fetch" /\ load'[s].entry = load[s].entry /\ used' = used
            \/ /\ load[s].mtime + MaxAge >= now
               /\ Take(s, load[s].cached, IF load[s].torn THEN "torn cache" ELSE "cache")
<1>1. load[s] \in Load /\ load[s].mtime \in Nat /\ load[s].at = "compare"
  BY AtEntry DEF Compare, Load
<1>2. load[s].cached \subseteq Token
  BY <1>1 DEF Load
<1>3. CASE load[s].mtime + MaxAge < now
  <2>1. load' = [load EXCEPT ![s].at = "fetch", ![s].mtime = 0] /\ used' = used
    BY <1>3 DEF Compare
  <2>2. /\ load' \in [States -> Load] /\ load'[s].at = "fetch" /\ load'[s].entry = load[s].entry
        /\ \A t \in States \ {s} : load'[t] = load[t]
    BY <1>1, <2>1 DEF TypeOK, Load, Steps
  <2>3. QED
    BY <1>1, <2>1, <2>2 DEF Compare, Around, TypeOK
<1>4. CASE ~(load[s].mtime + MaxAge < now)
  <2>1. Take(s, load[s].cached, IF load[s].torn THEN "torn cache" ELSE "cache")
    BY <1>4 DEF Compare
  <2>2. /\ load' \in [States -> Load] /\ used' \in [States -> [Index -> Taken]]
        /\ \A t \in States \ {s} : load'[t] = load[t] /\ used'[t] = used[t]
    BY <1>1, <1>2, <2>1, TakeFacts
  <2>3. load[s].mtime + MaxAge >= now
    BY <1>1, <1>4, NetworkCacheAssumption DEF TypeOK
  <2>4. QED
    BY <1>1, <2>1, <2>2, <2>3 DEF Compare, Around
<1>5. QED
  BY <1>3, <1>4

\* list is the beginning of publication v.
Begins(list, v) ==
    /\ list \in Seq(Token) /\ Len(list) <= Size[v]
    /\ \A k \in 1 .. Len(list) : list[k] = List(v)[k]

LEMMA FetchFacts ==
  ASSUME TypeOK, NEW s \in States, Fetch(s)
  PROVE  \E answer \in Seq(Token) :
         /\ load' \in [States -> Load] /\ used' \in [States -> [Index -> Taken]]
         /\ short' \in [Index -> BOOLEAN]
         /\ Around(s) /\ UNCHANGED <<file, torn>> /\ load[s].at = "fetch"
         /\ Begins(answer, version)
         /\ Len(answer) < Size[version] => short'[load[s].entry]
         /\ \A i \in Index : short[i] => short'[i]
         /\ \/ /\ load'[s].at = "create" /\ load'[s].entry = load[s].entry /\ used' = used
               /\ load'[s].list = answer /\ load'[s].since = now
            \/ Take(s, Elements(answer), "answer")
<1>1. /\ load[s] \in Load /\ load[s].at = "fetch" /\ load[s].entry \in Index
      /\ version \in Versions /\ now \in Nat
  BY AtEntry DEF Fetch, TypeOK
<1>2. PICK n \in 0 .. Size[version] :
        /\ IF Cached(load[s].entry)
           THEN /\ load' = [load EXCEPT ![s].at = "create",
                                        ![s].list = SubSeq(List(version), 1, n),
                                        ![s].since = now, ![s].cached = {}]
                /\ used' = used
           ELSE Take(s, Elements(SubSeq(List(version), 1, n)), "answer")
        /\ short' = [short EXCEPT ![load[s].entry] = @ \/ n < Size[version]]
  BY DEF Fetch
<1> DEFINE answer == SubSeq(List(version), 1, n)
<1>3. /\ List(version) \in Seq(Token) /\ Len(List(version)) = Size[version]
      /\ Size[version] \in Nat
  BY <1>1, ListFacts
<1>4. /\ answer \in Seq(Token) /\ Len(answer) = n
      /\ \A k \in 1 .. n : answer[k] = List(version)[k]
  BY <1>3, SubSeqFacts
<1>5. Begins(answer, version)
  BY <1>3, <1>4 DEF Begins
<1>6. /\ short' \in [Index -> BOOLEAN]
      /\ n < Size[version] => short'[load[s].entry]
      /\ \A i \in Index : short[i] => short'[i]
  <2> DEFINE b == short[load[s].entry] \/ n < Size[version]
  <2>1. b \in BOOLEAN /\ short' = [short EXCEPT ![load[s].entry] = b]
    BY <1>2
  <2>2. (n < Size[version] => b) /\ (short[load[s].entry] => b)
    OBVIOUS
  <2> HIDE DEF b
  <2>3. QED
    BY <1>1, <2>1, <2>2 DEF TypeOK
<1>7. UNCHANGED <<now, version, superseded, file, torn>>
  BY DEF Fetch
<1> HIDE DEF answer
<1>8. CASE Cached(load[s].entry)
  <2>1. /\ load' = [load EXCEPT ![s].at = "create", ![s].list = answer,
                                ![s].since = now, ![s].cached = {}]
        /\ used' = used
    BY <1>2, <1>8 DEF answer
  <2>2. /\ load' \in [States -> Load] /\ load'[s].at = "create"
        /\ load'[s].entry = load[s].entry /\ load'[s].list = answer /\ load'[s].since = now
        /\ \A t \in States \ {s} : load'[t] = load[t]
    BY <1>1, <1>4, <2>1 DEF TypeOK, Load, Steps
  <2>3. used' \in [States -> [Index -> Taken]]
    BY <2>1 DEF TypeOK
  <2>4. Around(s)
    BY <1>7, <2>1, <2>2 DEF Around
  <2>5. QED
    BY <1>1, <1>4, <1>5, <1>6, <1>7, <2>1, <2>2, <2>3, <2>4
<1>9. CASE ~Cached(load[s].entry)
  <2>1. Take(s, Elements(answer), "answer")
    BY <1>2, <1>9 DEF answer
  <2>2. Elements(answer) \subseteq Token
    BY <1>4, ElementsFacts
  <2>3. /\ load' \in [States -> Load] /\ used' \in [States -> [Index -> Taken]]
        /\ \A t \in States \ {s} : load'[t] = load[t] /\ used'[t] = used[t]
    BY <1>1, <2>1, <2>2, TakeFacts
  <2>4. Around(s)
    BY <1>7, <2>3 DEF Around
  <2>5. QED
    BY <1>1, <1>4, <1>5, <1>6, <1>7, <2>1, <2>3, <2>4
<1>10. QED
  BY <1>8, <1>9

LEMMA FetchFailFacts ==
  ASSUME TypeOK, NEW s \in States, FetchFail(s)
  PROVE  /\ load' \in [States -> Load] /\ used' \in [States -> [Index -> Taken]]
         /\ Around(s) /\ UNCHANGED <<file, torn, short>> /\ load[s].at = "fetch"
         /\ Take(s, {}, "error")
<1>1. Take(s, {}, "error") /\ load[s].at = "fetch"
  BY DEF FetchFail
<1>2. /\ load' \in [States -> Load] /\ used' \in [States -> [Index -> Taken]]
      /\ \A t \in States \ {s} : load'[t] = load[t] /\ used'[t] = used[t]
  BY <1>1, TakeFacts
<1>3. QED
  BY <1>1, <1>2 DEF FetchFail, Around

LEMMA FetchHangFacts ==
  ASSUME TypeOK, NEW s \in States, FetchHang(s)
  PROVE  /\ load' \in [States -> Load] /\ Around(s) /\ UNCHANGED <<file, used, torn, short>>
         /\ load'[s].at = "hung" /\ load'[s].entry = load[s].entry /\ load[s].at = "fetch"
<1>1. load[s] \in Load
  BY DEF TypeOK
<1>2. QED
  BY <1>1 DEF TypeOK, FetchHang, Load, Steps, Around

\* s stays in its Set.
SameSet(s) == /\ load'[s].entry = load[s].entry /\ load'[s].list = load[s].list
              /\ load'[s].since = load[s].since

LEMMA SetCreateFacts ==
  ASSUME TypeOK, NEW s \in States, SetCreate(s)
  PROVE  LET i == load[s].entry IN
         /\ load' \in [States -> Load] /\ used' \in [States -> [Index -> Taken]]
         /\ file' \in [Index -> CacheFile] /\ torn' \in [Index -> BOOLEAN]
         /\ Around(s) /\ short' = short /\ load[s].at = "create"
         /\ \/ /\ file'[i].data = <<>> /\ file'[i].mtime = now /\ file'[i].there
               /\ \A j \in Index \ {i} : file'[j] = file[j] /\ torn'[j] = torn[j]
               /\ torn'[i] <=> torn[i] \/ \E t \in States : Open(t, i)
               /\ load'[s].at = "write" /\ load'[s].offset = 0 /\ SameSet(s) /\ used' = used
            \/ /\ Take(s, Elements(load[s].list), "answer") /\ UNCHANGED <<file, torn>>
<1> DEFINE i == load[s].entry
           new == [data |-> <<>>, mtime |-> now, there |-> TRUE]
           b == torn[i] \/ \E t \in States : Open(t, i)
<1>1. /\ load[s] \in Load /\ load[s].at = "create" /\ i \in Index /\ now \in Nat
      /\ load[s].list \in Seq(Token)
  BY AtEntry DEF SetCreate, TypeOK, Load
<1>2. UNCHANGED <<now, version, superseded, short>>
  BY DEF SetCreate
<1>3. CASE /\ file' = [file EXCEPT ![i] = new]
           /\ torn' = [torn EXCEPT ![i] = b]
           /\ load' = [load EXCEPT ![s].at = "write", ![s].offset = 0] /\ used' = used
  <2>1. new \in CacheFile /\ new.data = <<>> /\ new.mtime = now /\ new.there = TRUE
    BY <1>1 DEF CacheFile
  <2>2. b \in BOOLEAN
    BY <1>1 DEF TypeOK
  <2> HIDE DEF new, b
  <2>3. /\ file' \in [Index -> CacheFile] /\ file'[i] = new
        /\ \A j \in Index \ {i} : file'[j] = file[j]
    BY <1>1, <1>3, <2>1 DEF TypeOK
  <2>4. /\ torn' \in [Index -> BOOLEAN] /\ torn'[i] = b
        /\ \A j \in Index \ {i} : torn'[j] = torn[j]
    BY <1>1, <1>3, <2>2 DEF TypeOK
  <2>5. /\ load' \in [States -> Load] /\ load'[s].at = "write" /\ load'[s].offset = 0
        /\ SameSet(s)
        /\ \A t \in States \ {s} : load'[t] = load[t]
    BY <1>1, <1>3 DEF TypeOK, Load, Steps, SameSet
  <2>6. used' \in [States -> [Index -> Taken]] /\ used' = used
    BY <1>3 DEF TypeOK
  <2>7. Around(s)
    BY <1>2, <2>5, <2>6 DEF Around
  <2>8. torn'[i] <=> torn[i] \/ \E t \in States : Open(t, i)
    BY <2>4 DEF b
  <2>9. QED
    BY <1>1, <1>2, <2>1, <2>3, <2>4, <2>5, <2>6, <2>7, <2>8
<1>4. CASE Take(s, Elements(load[s].list), "answer") /\ UNCHANGED <<file, torn>>
  <2>1. Elements(load[s].list) \subseteq Token
    BY <1>1, ElementsFacts
  <2>2. /\ load' \in [States -> Load] /\ used' \in [States -> [Index -> Taken]]
        /\ \A t \in States \ {s} : load'[t] = load[t] /\ used'[t] = used[t]
    BY <1>1, <1>4, <2>1, TakeFacts
  <2>3. file' \in [Index -> CacheFile] /\ torn' \in [Index -> BOOLEAN]
    BY <1>4 DEF TypeOK
  <2>4. Around(s)
    BY <1>2, <2>2 DEF Around
  <2>5. QED
    BY <1>1, <1>2, <1>4, <2>2, <2>3, <2>4
<1>5. QED
  BY <1>3, <1>4 DEF SetCreate

LEMMA SetWriteFacts ==
  ASSUME TypeOK, NEW s \in States, SetWrite(s)
  PROVE  LET i == load[s].entry
             from == load[s].offset
             bytes == Marshal(load[s].list)
         IN \E n \in from .. Len(load[s].list) + 1 :
         /\ load' \in [States -> Load] /\ file' \in [Index -> CacheFile]
         /\ torn' \in [Index -> BOOLEAN] /\ short' \in [Index -> BOOLEAN]
         /\ Around(s) /\ used' = used /\ load[s].at = "write"
         /\ load'[s].at \in {"write", "touch"} /\ SameSet(s)
         /\ file'[i].data = Written(file[i].data, bytes, from, n)
         /\ file'[i].mtime = now /\ file'[i].there = file[i].there
         /\ \A j \in Index \ {i} : /\ file'[j] = file[j] /\ torn'[j] = torn[j]
                                   /\ short'[j] = short[j]
         /\ torn'[i] <=> torn[i] \/ n < Len(load[s].list) + 1
         /\ short'[i] <=> \/ short[i]
                          \/ /\ n < Len(load[s].list) + 1 \/ from > 0
                             /\ file[i].data # SubSeq(bytes, 1, from)
         /\ n = Len(load[s].list) + 1 => load'[s].at = "touch"
<1> DEFINE i == load[s].entry
           from == load[s].offset
           bytes == Marshal(load[s].list)
<1>1. /\ load[s] \in Load /\ load[s].at = "write" /\ i \in Index /\ now \in Nat
      /\ load[s].list \in Seq(Token) /\ file[i] \in CacheFile /\ file[i].data \in Seq(Token)
      /\ from \in Nat
  BY AtEntry DEF SetWrite, TypeOK, Load
<1>2. bytes \in Seq(Token) /\ Len(bytes) = Len(load[s].list) + 1 /\ Len(bytes) \in Nat
  <2>1. bytes \in Seq(Token) /\ Len(bytes) = Len(load[s].list) + 1
    BY <1>1, MarshalFacts
  <2> HIDE DEF bytes
  <2>2. QED
    BY <2>1
<1>3. PICK n \in from .. Len(load[s].list) + 1, rest \in BOOLEAN :
        /\ rest => n < Len(bytes) /\ n > from
        /\ file' = [file EXCEPT ![i].data = Written(@, bytes, from, n), ![i].mtime = now]
        /\ load' = [load EXCEPT ![s].at = IF rest THEN "write" ELSE "touch",
                                ![s].offset = IF rest THEN n ELSE 0]
        /\ torn' = [torn EXCEPT ![i] = @ \/ n < Len(bytes)]
        /\ short' = [short EXCEPT ![i] =
              @ \/ ((n < Len(bytes) \/ from > 0) /\ file[i].data # SubSeq(bytes, 1, from))]
  BY DEF SetWrite
<1>0. n \in Nat /\ from \in 0 .. Len(bytes) /\ n \in from .. Len(bytes)
  BY <1>1, <1>2, <1>3
<1> DEFINE d == Written(file[i].data, bytes, from, n)
<1>4. d \in Seq(Token)
  BY <1>0, <1>1, <1>2, WrittenFacts
<1>5. file' = [file EXCEPT ![i].data = d, ![i].mtime = now]
  BY <1>3
<1>6. /\ file' \in [Index -> CacheFile] /\ file'[i].data = d /\ file'[i].mtime = now
      /\ file'[i].there = file[i].there
      /\ \A j \in Index \ {i} : file'[j] = file[j]
  <2> HIDE DEF d
  <2>1. QED
    BY <1>1, <1>4, <1>5 DEF TypeOK, CacheFile
<1>7. /\ load' \in [States -> Load] /\ load'[s].at \in {"write", "touch"} /\ SameSet(s)
      /\ ~rest => load'[s].at = "touch"
      /\ \A t \in States \ {s} : load'[t] = load[t]
  BY <1>0, <1>1, <1>3 DEF TypeOK, Load, Steps, SameSet
<1>8. /\ torn' \in [Index -> BOOLEAN]
      /\ torn'[i] <=> torn[i] \/ n < Len(bytes)
      /\ \A j \in Index \ {i} : torn'[j] = torn[j]
  <2> DEFINE b == torn[i] \/ n < Len(bytes)
  <2>1. b \in BOOLEAN /\ torn' = [torn EXCEPT ![i] = b]
    BY <1>3
  <2> HIDE DEF b
  <2>2. torn' \in [Index -> BOOLEAN] /\ torn'[i] = b /\ \A j \in Index \ {i} : torn'[j] = torn[j]
    BY <1>1, <2>1 DEF TypeOK
  <2>3. QED
    BY <2>2 DEF b
<1> DEFINE met == (n < Len(bytes) \/ from > 0) /\ file[i].data # SubSeq(bytes, 1, from)
<1>9. /\ short' \in [Index -> BOOLEAN]
      /\ short'[i] <=> short[i] \/ met
      /\ \A j \in Index \ {i} : short'[j] = short[j]
  <2> DEFINE b == short[i] \/ met
  <2>1. b \in BOOLEAN /\ short' = [short EXCEPT ![i] = b]
    BY <1>3
  <2> HIDE DEF b
  <2>2. short' \in [Index -> BOOLEAN] /\ short'[i] = b /\ \A j \in Index \ {i} : short'[j] = short[j]
    BY <1>1, <2>1 DEF TypeOK
  <2>3. QED
    BY <2>2 DEF b
<1>10. UNCHANGED <<now, version, superseded, used>>
  BY DEF SetWrite
<1>11. Around(s)
  BY <1>7, <1>10 DEF Around
<1>12. n = Len(load[s].list) + 1 => ~rest
  BY <1>2, <1>3
<1>13. QED
  BY <1>1, <1>2, <1>6, <1>7, <1>8, <1>9, <1>10, <1>11, <1>12

LEMMA SetTouchFacts ==
  ASSUME TypeOK, NEW s \in States, SetTouch(s)
  PROVE  LET i == load[s].entry IN
         /\ load' \in [States -> Load] /\ used' \in [States -> [Index -> Taken]]
         /\ file' \in [Index -> CacheFile]
         /\ Around(s) /\ UNCHANGED <<torn, short>> /\ load[s].at = "touch"
         /\ file'[i].mtime = now /\ file'[i].data = file[i].data
         /\ file'[i].there = file[i].there
         /\ \A j \in Index \ {i} : file'[j] = file[j]
         /\ Take(s, Elements(load[s].list), "answer")
<1> DEFINE i == load[s].entry
<1>1. /\ load[s].at = "touch" /\ i \in Index /\ now \in Nat
      /\ load[s].list \in Seq(Token) /\ file[i] \in CacheFile
  BY AtEntry DEF SetTouch, TypeOK, Load
<1>2. /\ file' = [file EXCEPT ![i].mtime = now]
      /\ Take(s, Elements(load[s].list), "answer")
      /\ UNCHANGED <<now, version, superseded, torn, short>>
  BY DEF SetTouch
<1>3. /\ file' \in [Index -> CacheFile] /\ file'[i].data = file[i].data
      /\ file'[i].mtime = now /\ file'[i].there = file[i].there
      /\ \A j \in Index \ {i} : file'[j] = file[j]
  BY <1>1, <1>2 DEF TypeOK, CacheFile
<1>4. Elements(load[s].list) \subseteq Token
  BY <1>1, ElementsFacts
<1>5. /\ load' \in [States -> Load] /\ used' \in [States -> [Index -> Taken]]
      /\ \A t \in States \ {s} : load'[t] = load[t] /\ used'[t] = used[t]
  BY <1>1, <1>2, <1>4, TakeFacts
<1>6. Around(s)
  BY <1>2, <1>5 DEF Around
<1>7. QED
  BY <1>1, <1>2, <1>3, <1>5, <1>6

LEMMA AroundTypes ==
  ASSUME TypeOK, NEW s \in States, Around(s),
         load' \in [States -> Load], used' \in [States -> [Index -> Taken]],
         file' \in [Index -> CacheFile],
         torn' \in [Index -> BOOLEAN], short' \in [Index -> BOOLEAN],
         load'[s].at \notin {"idle", "done"} => load'[s].entry \in Index
  PROVE  TypeOK'
<1>1. ASSUME NEW t \in States, load'[t].at \notin {"idle", "done"}
      PROVE  load'[t].entry \in Index
  <2>1. CASE t = s
    BY <1>1, <2>1
  <2>2. CASE t # s
    <3>1. load'[t] = load[t]
      BY <2>2 DEF Around
    <3>2. QED
      BY <1>1, <3>1 DEF TypeOK
  <2>3. QED
    BY <2>1, <2>2
<1>2. /\ now' \in Nat /\ version' \in Versions /\ superseded' \in [Versions -> Nat]
  BY DEF TypeOK, Around
<1>3. QED
  BY <1>1, <1>2 DEF TypeOK

LEMMA TakeEntry ==
  ASSUME TypeOK, NEW s \in States, load[s].at \notin {"idle", "done"},
         NEW l, l \subseteq Token, NEW f \in {"cache", "torn cache", "answer", "error"},
         Take(s, l, f)
  PROVE  load'[s].at \notin {"idle", "done"} => load'[s].entry \in Index
BY TakeFacts

LEMMA LoadStepTypes ==
  ASSUME TypeOK, NEW s \in States, LoadStep(s)
  PROVE  TypeOK'
<1> USE DEF LoadStep
<1>1. /\ load \in [States -> Load] /\ used \in [States -> [Index -> Taken]]
      /\ file \in [Index -> CacheFile]
      /\ torn \in [Index -> BOOLEAN] /\ short \in [Index -> BOOLEAN]
  BY DEF TypeOK
<1>2. load[s] \in Load /\ load[s].list \in Seq(Token) /\ load[s].cached \subseteq Token
  BY <1>1 DEF Load
<1>3. load[s].at \notin {"idle", "done"} => load[s].entry \in Index
  BY DEF TypeOK
<1>4. CASE Stat(s)
  BY <1>1, <1>3, <1>4, StatFacts, AroundTypes
<1>5. CASE Read(s)
  BY <1>1, <1>3, <1>5, ReadFacts, AroundTypes
<1>6. CASE Compare(s)
  <2> DEFINE f == IF load[s].torn THEN "torn cache" ELSE "cache"
  <2>1. /\ load' \in [States -> Load] /\ used' \in [States -> [Index -> Taken]]
        /\ Around(s) /\ UNCHANGED <<file, torn, short>> /\ load[s].at = "compare"
        /\ \/ load'[s].at = "fetch" /\ load'[s].entry = load[s].entry
           \/ Take(s, load[s].cached, f)
    BY <1>6, CompareFacts
  <2>2. f \in {"cache", "torn cache", "answer", "error"}
    OBVIOUS
  <2> HIDE DEF f
  <2>3. load'[s].at \notin {"idle", "done"} => load'[s].entry \in Index
    BY <1>2, <1>3, <2>1, <2>2, TakeEntry
  <2>4. QED
    BY <1>1, <2>1, <2>3, AroundTypes
<1>7. CASE Fetch(s)
  <2>1. PICK answer \in Seq(Token) :
         /\ load' \in [States -> Load] /\ used' \in [States -> [Index -> Taken]]
         /\ short' \in [Index -> BOOLEAN]
         /\ Around(s) /\ UNCHANGED <<file, torn>> /\ load[s].at = "fetch"
         /\ \/ load'[s].at = "create" /\ load'[s].entry = load[s].entry
            \/ Take(s, Elements(answer), "answer")
    BY <1>7, FetchFacts
  <2>2. Elements(answer) \subseteq Token
    BY ElementsFacts
  <2>3. load'[s].at \notin {"idle", "done"} => load'[s].entry \in Index
    BY <1>3, <2>1, <2>2, TakeEntry
  <2>4. QED
    BY <1>1, <2>1, <2>3, AroundTypes
<1>8. CASE FetchFail(s)
  <2>1. load'[s].at \notin {"idle", "done"} => load'[s].entry \in Index
    BY <1>8, FetchFailFacts, TakeEntry
  <2>2. QED
    BY <1>1, <1>8, <2>1, FetchFailFacts, AroundTypes
<1>9. CASE FetchHang(s)
  BY <1>1, <1>3, <1>9, FetchHangFacts, AroundTypes
<1>10. CASE SetCreate(s)
  <2>1. /\ load' \in [States -> Load] /\ used' \in [States -> [Index -> Taken]]
        /\ file' \in [Index -> CacheFile] /\ torn' \in [Index -> BOOLEAN]
        /\ Around(s) /\ short' = short /\ load[s].at = "create"
        /\ \/ load'[s].at = "write" /\ SameSet(s)
           \/ Take(s, Elements(load[s].list), "answer")
    BY <1>10, SetCreateFacts
  <2>2. Elements(load[s].list) \subseteq Token
    BY <1>2, ElementsFacts
  <2>3. load'[s].at \notin {"idle", "done"} => load'[s].entry \in Index
    BY <1>3, <2>1, <2>2, TakeEntry DEF SameSet
  <2>4. QED
    BY <1>1, <2>1, <2>3, AroundTypes
<1>11. CASE SetWrite(s)
  <2>1. /\ load' \in [States -> Load] /\ file' \in [Index -> CacheFile]
        /\ torn' \in [Index -> BOOLEAN] /\ short' \in [Index -> BOOLEAN]
        /\ Around(s) /\ used' = used /\ load[s].at = "write" /\ SameSet(s)
    BY <1>11, SetWriteFacts
  <2>2. load'[s].entry \in Index
    BY <1>3, <2>1 DEF SameSet
  <2>3. QED
    BY <1>1, <2>1, <2>2, AroundTypes
<1>12. CASE SetTouch(s)
  <2>1. /\ load' \in [States -> Load] /\ used' \in [States -> [Index -> Taken]]
        /\ file' \in [Index -> CacheFile]
        /\ Around(s) /\ UNCHANGED <<torn, short>> /\ load[s].at = "touch"
        /\ Take(s, Elements(load[s].list), "answer")
    BY <1>12, SetTouchFacts
  <2>2. Elements(load[s].list) \subseteq Token
    BY <1>2, ElementsFacts
  <2>3. load'[s].at \notin {"idle", "done"} => load'[s].entry \in Index
    BY <2>1, <2>2, TakeEntry
  <2>4. QED
    BY <1>1, <2>1, <2>3, AroundTypes
<1>13. CASE ReadFail(s)
  BY <1>1, <1>3, <1>13, ReadFailFacts, AroundTypes
<1>14. QED
  BY <1>4, <1>5, <1>6, <1>7, <1>8, <1>9, <1>10, <1>11, <1>12, <1>13

\* What the steps outside the function do.
LEMMA IdleFacts == Idle \in Load /\ Idle.at = "idle" /\ Idle.cached = {} /\ Idle.list = <<>>
<1>1. \A n \in Nat, l \in Seq(Token) :
        [at |-> "idle", entry |-> n, mtime |-> n, cached |-> {}, torn |-> FALSE,
         list |-> l, since |-> n, offset |-> n] \in Load
  BY DEF Load, Steps
<1>2. <<>> \in Seq(Token)
  OBVIOUS
<1>3. /\ Idle = [at |-> "idle", entry |-> 0, mtime |-> 0, cached |-> {}, torn |-> FALSE,
                 list |-> <<>>, since |-> 0, offset |-> 0]
      /\ Idle.at = "idle" /\ Idle.cached = {} /\ Idle.list = <<>>
  BY DEF Idle
<1>4. Idle \in Load
  BY <1>1, <1>2, <1>3, Zenon
<1>5. QED
  BY <1>3, <1>4

LEMMA ForgetFacts ==
  ASSUME TypeOK, NEW s \in States, Forget(s)
  PROVE  /\ used' \in [States -> [Index -> Taken]]
         /\ \A i \in Index : used'[s][i].list = {} /\ used'[s][i].from = "nothing"
         /\ load' \in [States -> Load] /\ load'[s] = Idle
         /\ \A t \in States \ {s} : used'[t] = used[t] /\ load'[t] = load[t]
         /\ \A t \in States : load'[t].at \notin {"idle", "done"} => load'[t].entry \in Index
<1>1. Nothing \in Taken /\ Nothing.list = {} /\ Nothing.from = "nothing"
  BY DEF Nothing, Taken
<1>2. /\ used' \in [States -> [Index -> Taken]]
      /\ \A i \in Index : used'[s][i].list = {} /\ used'[s][i].from = "nothing"
      /\ \A t \in States \ {s} : used'[t] = used[t]
  BY <1>1 DEF TypeOK, Forget
<1>3. load' \in [States -> Load] /\ load'[s] = Idle /\ \A t \in States \ {s} : load'[t] = load[t]
  BY IdleFacts DEF TypeOK, Forget
<1>4. \A t \in States : load'[t].at \notin {"idle", "done"} => load'[t].entry \in Index
  BY <1>3, IdleFacts DEF TypeOK
<1>5. QED
  BY <1>2, <1>3, <1>4

LEMMA CrashFacts ==
  ASSUME TypeOK, NEW s \in States, Crash(s)
  PROVE  /\ TypeOK' /\ load'[s] = Idle /\ UNCHANGED <<now, version, superseded, file, short>>
         /\ \A t \in States \ {s} : load'[t] = load[t] /\ used'[t] = used[t]
         /\ \A i \in Index : used'[s][i].list = {} /\ used'[s][i].from = "nothing"
         /\ \A i \in Index : torn'[i] <=> torn[i] \/ Open(s, i)
<1>1. Forget(s) /\ UNCHANGED <<now, version, superseded, file, short>>
  BY DEF Crash
<1>2. \A i \in Index : (torn[i] \/ Open(s, i)) \in BOOLEAN
  OBVIOUS
<1>3. torn' = [i \in Index |-> torn[i] \/ Open(s, i)]
  BY DEF Crash
<1>4. torn' \in [Index -> BOOLEAN] /\ \A i \in Index : torn'[i] <=> torn[i] \/ Open(s, i)
  BY <1>2, <1>3
<1>5. QED
  BY <1>1, <1>4, ForgetFacts DEF TypeOK

LEMMA RenewFacts ==
  ASSUME TypeOK, NEW s \in States, Renew(s)
  PROVE  /\ TypeOK' /\ load'[s] = Idle /\ load[s].at = "done"
         /\ UNCHANGED <<now, version, superseded, file, torn, short>>
         /\ \A t \in States \ {s} : load'[t] = load[t] /\ used'[t] = used[t]
         /\ \A i \in Index : used'[s][i].list = {} /\ used'[s][i].from = "nothing"
<1>1. /\ Forget(s) /\ UNCHANGED <<now, version, superseded, file, torn, short>>
      /\ load[s].at = "done"
  BY DEF Renew
<1>2. QED
  BY <1>1, ForgetFacts DEF TypeOK

LEMMA AskFacts ==
  ASSUME TypeOK, NEW s \in States, Ask(s)
  PROVE  /\ TypeOK' /\ UNCHANGED <<now, version, superseded, file, used, torn, short>>
         /\ \A t \in States : \/ load'[t] = load[t]
                              \/ load[t].at = "idle" /\ load'[t] = Start(1)
<1>1. /\ load' = [load EXCEPT ![s] = Start(1)] /\ load[s].at = "idle"
      /\ UNCHANGED <<now, version, superseded, file, used, torn, short>>
  BY DEF Ask
<1>2. Start(1) \in Load /\ Start(1).entry = 1 /\ 1 \in Index
  <2>1. Start(1) \in Load /\ Start(1).entry = 1
    BY StartFacts
  <2>2. Len(Entries) \in Nat /\ Len(Entries) # 0
    BY NetworkCacheAssumption
  <2>3. QED
    BY <2>1, <2>2 DEF Index
<1>3. /\ load' \in [States -> Load]
      /\ \A t \in States : \/ load'[t] = load[t]
                           \/ load[t].at = "idle" /\ load'[t] = Start(1)
  BY <1>1, <1>2 DEF TypeOK
<1>4. \A t \in States : load'[t].at \notin {"idle", "done"} => load'[t].entry \in Index
  BY <1>2, <1>3 DEF TypeOK
<1>5. QED
  BY <1>1, <1>3, <1>4 DEF TypeOK

LEMMA TickFacts ==
  ASSUME TypeOK, Tick
  PROVE  /\ TypeOK' /\ UNCHANGED <<version, superseded, file, load, used, torn, short>>
         /\ now' = now + 1
         /\ \A s \in States : Setting(s) => now < load[s].since + SetTime
BY DEF TypeOK, Tick

LEMMA PublishFacts ==
  ASSUME TypeOK, Publish
  PROVE  /\ TypeOK' /\ UNCHANGED <<now, file, load, used, torn, short>>
         /\ version' = version + 1 /\ version \in Versions /\ version' \in Versions
         /\ superseded'[version] = now
         /\ \A v \in Versions \ {version} : superseded'[v] = superseded[v]
<1>1. version' \in Versions
  BY NetworkCacheAssumption DEF TypeOK, Publish, Versions
<1>2. QED
  BY <1>1 DEF TypeOK, Publish

LEMMA InitTypes == Init => TypeOK
<1>1. Missing \in CacheFile
  <2>1. \A l \in Seq(Token) : [data |-> l, mtime |-> 0, there |-> FALSE] \in CacheFile
    BY DEF CacheFile
  <2>2. <<>> \in Seq(Token)
    OBVIOUS
  <2>3. QED
    BY <2>1, <2>2, Zenon DEF Missing
<1>2. Nothing \in Taken
  BY DEF Nothing, Taken
<1>3. 1 \in Versions
  BY NetworkCacheAssumption DEF Versions
<1>4. QED
  BY <1>1, <1>2, <1>3, IdleFacts DEF Init, TypeOK

LEMMA TypeStep == TypeOK /\ [Next]_vars => TypeOK'
<1> SUFFICES ASSUME TypeOK, [Next]_vars PROVE TypeOK'
  OBVIOUS
<1>1. CASE Tick
  BY <1>1, TickFacts
<1>2. CASE Publish
  BY <1>2, PublishFacts
<1>3. ASSUME NEW s \in States, Crash(s) \/ Renew(s) \/ LoadStep(s) PROVE TypeOK'
  BY <1>3, CrashFacts, RenewFacts, LoadStepTypes
<1>4. ASSUME NEW s \in States, Ask(s) PROVE TypeOK'
  BY <1>4, AskFacts
<1>5. CASE UNCHANGED vars
  BY <1>5 DEF TypeOK, vars
<1>6. QED
  BY <1>1, <1>2, <1>3, <1>4, <1>5 DEF Next

\* Every variable of the network loading keeps its type, whatever the States
\* that load, the entries, the publications and the faults.
THEOREM TypeCorrect == Spec => []TypeOK
BY InitTypes, TypeStep, PTL DEF Spec

---------------------------------------------------------------------------
(* How old a list may be when it is taken from the cache *)

\* p is of a publication that was not replaced before t.
Upto(p, t) == p.v \in 1 .. version /\ (p.v = version \/ t <= superseded[p.v])

\* No file is dated in the future.
FileDated == \A i \in Index : file[i].mtime <= now

\* A Set is not older than SetTime, and its list was current when it began.
SetTimely ==
    \A s \in States : Setting(s) =>
        /\ load[s].since <= now /\ now <= load[s].since + SetTime
        /\ \A p \in Elements(load[s].list) : Upto(p, load[s].since)

\* What a file holds was current at most two Sets before its date, and at
\* most one Set before the answer of a Set that has it open: that Set had
\* emptied it.
FileUpto ==
    \A i \in Index : \A p \in Elements(file[i].data) \ {End, Hole} :
        /\ Upto(p, file[i].mtime - 2 * SetTime)
        /\ \A s \in States : Open(s, i) => Upto(p, load[s].since - SetTime)

\* The date that Get took is not later than that of the contents it reads.
ReadDated ==
    \A s \in States :
        /\ load[s].at = "read" => load[s].mtime <= file[load[s].entry].mtime
        /\ load[s].at = "compare" =>
              /\ load[s].mtime <= now
              /\ \A p \in load[s].cached : Upto(p, load[s].mtime - 2 * SetTime)

Ages == FileDated /\ SetTimely /\ FileUpto /\ ReadDated

LEMMA UptoTypes ==
  ASSUME TypeOK, NEW p, NEW t, Upto(p, t)
  PROVE  p.v \in Versions /\ superseded[p.v] \in Nat /\ version \in Nat /\ p.v \in Nat
BY NetworkCacheAssumption DEF TypeOK, Upto, Versions

LEMMA UptoEarlier ==
  ASSUME TypeOK, NEW p, NEW t \in Int, NEW u \in Int, Upto(p, t), u <= t
  PROVE  Upto(p, u)
BY UptoTypes DEF Upto

LEMMA UptoNow ==
  ASSUME TypeOK, NEW p, NEW t \in Int, p.v = version
  PROVE  Upto(p, t)
BY NetworkCacheAssumption DEF Upto, TypeOK, Versions

\* The numbers of the model are numbers.
LEMMA Numbers ==
  ASSUME TypeOK
  PROVE  /\ now \in Int /\ SetTime \in Nat /\ MaxAge \in Nat
         /\ \A s \in States : load[s].since \in Int /\ load[s].mtime \in Int
                              /\ load[s].list \in Seq(Token) /\ load[s].offset \in Nat
         /\ \A i \in Index : file[i].mtime \in Int /\ file[i].data \in Seq(Token)
BY NetworkCacheAssumption DEF TypeOK, Load, CacheFile

\* What was two Sets ago was one Set before the answer of a Set that is on.
LEMMA OneSetBefore ==
  ASSUME NEW t \in Int, NEW d \in Nat, NEW since \in Int, t <= since + d
  PROVE  /\ t - 2 * d \in Int /\ since - d \in Int
         /\ t - 2 * d <= since - d
OBVIOUS

\* Steps inside Get and Set need no look at the others: this is what is left.
Quiet(t) == load'[t].at \notin {"read", "compare", "create", "write", "touch"}

LEMMA QuietAges ==
  ASSUME TypeOK, Ages, UNCHANGED <<now, version, superseded, file>>,
         \A t \in States : load'[t] = load[t] \/ Quiet(t)
  PROVE  Ages'
<1>1. FileDated'
  BY DEF Ages, FileDated
<1>2. SetTimely'
  BY DEF Ages, SetTimely, Setting, Quiet, Upto
<1>3. FileUpto'
  BY DEF Ages, FileUpto, Open, Quiet, Upto
<1>4. ReadDated'
  BY DEF Ages, ReadDated, Quiet, Upto
<1>5. QED
  BY <1>1, <1>2, <1>3, <1>4 DEF Ages

LEMMA InitAges == Init => Ages
<1> SUFFICES ASSUME Init PROVE Ages
  OBVIOUS
<1>1. \A i \in Index : file[i].data = <<>> /\ file[i].mtime = 0
  BY DEF Init, Missing
<1>2. \A s \in States : load[s].at = "idle"
  BY IdleFacts DEF Init
<1>3. \A i \in Index : Elements(file[i].data) = {}
  BY <1>1 DEF Elements
<1>4. QED
  BY <1>1, <1>2, <1>3 DEF Init, Ages, FileDated, SetTimely, FileUpto, ReadDated, Setting

LEMMA TickAges ==
  ASSUME TypeOK, Ages, Tick
  PROVE  Ages'
<1>1. /\ UNCHANGED <<version, superseded, file, load>> /\ now' = now + 1
      /\ \A s \in States : Setting(s) => now < load[s].since + SetTime
  BY TickFacts
<1>2. FileDated'
  BY <1>1, Numbers DEF Ages, FileDated
<1>3. SetTimely'
  <2> SUFFICES ASSUME NEW s \in States, Setting(s)
               PROVE  /\ load[s].since <= now + 1 /\ now + 1 <= load[s].since + SetTime
                      /\ \A p \in Elements(load[s].list) : Upto(p, load[s].since)
    BY <1>1 DEF SetTimely, Setting, Upto
  <2>1. now < load[s].since + SetTime
    BY <1>1
  <2>2. now \in Int /\ SetTime \in Nat /\ load[s].since \in Int
    BY Numbers
  <2>3. /\ load[s].since <= now
        /\ \A p \in Elements(load[s].list) : Upto(p, load[s].since)
    BY DEF Ages, SetTimely
  <2>4. load[s].since <= now + 1 /\ now + 1 <= load[s].since + SetTime
    BY <2>1, <2>2, <2>3
  <2>5. QED
    BY <2>3, <2>4
<1>4. FileUpto'
  BY <1>1 DEF Ages, FileUpto, Open, Upto
<1>5. ReadDated'
  BY <1>1, Numbers DEF Ages, ReadDated, Upto
<1>6. QED
  BY <1>2, <1>3, <1>4, <1>5 DEF Ages

LEMMA PublishAges ==
  ASSUME TypeOK, Ages, Publish
  PROVE  Ages'
<1>1. /\ UNCHANGED <<now, file, load>> /\ version' = version + 1 /\ version \in Nat
      /\ superseded'[version] = now
      /\ \A v \in Versions \ {version} : superseded'[v] = superseded[v]
  BY PublishFacts DEF Versions
<1>2. ASSUME NEW p, NEW t \in Int, Upto(p, t), t <= now
      PROVE  p.v \in 1 .. version' /\ (p.v = version' \/ t <= superseded'[p.v])
  <2>1. p.v \in Versions /\ p.v \in Nat
    BY <1>2, UptoTypes
  <2>2. CASE p.v = version
    BY <1>1, <1>2, <2>2 DEF Upto
  <2>3. CASE p.v # version
    BY <1>1, <1>2, <2>1, <2>3 DEF Upto
  <2>4. QED
    BY <2>2, <2>3
<1>3. FileDated'
  BY <1>1 DEF Ages, FileDated
<1>4. SetTimely'
  <2> SUFFICES ASSUME NEW s \in States, Setting(s)
               PROVE  /\ load[s].since <= now /\ now <= load[s].since + SetTime
                      /\ \A p \in Elements(load[s].list) :
                            /\ p.v \in 1 .. version'
                            /\ p.v = version' \/ load[s].since <= superseded'[p.v]
    BY <1>1 DEF SetTimely, Setting, Upto
  <2>1. load[s].since \in Int
    BY Numbers
  <2>2. QED
    BY <1>2, <2>1 DEF Ages, SetTimely
<1>5. FileUpto'
  <2> SUFFICES ASSUME NEW i \in Index, NEW p \in Elements(file[i].data) \ {End, Hole}
               PROVE  /\ p.v \in 1 .. version'
                      /\ p.v = version' \/ file[i].mtime - 2 * SetTime <= superseded'[p.v]
                      /\ \A s \in States : Open(s, i) =>
                            p.v = version' \/ load[s].since - SetTime <= superseded'[p.v]
    BY <1>1 DEF FileUpto, Open, Upto
  <2>1. /\ file[i].mtime - 2 * SetTime \in Int /\ file[i].mtime - 2 * SetTime <= now
        /\ Upto(p, file[i].mtime - 2 * SetTime)
    <3>1. file[i].mtime \in Int /\ SetTime \in Nat /\ now \in Int
      BY Numbers
    <3>2. file[i].mtime <= now
      BY DEF Ages, FileDated
    <3>3. Upto(p, file[i].mtime - 2 * SetTime)
      BY DEF Ages, FileUpto
    <3>4. QED
      BY <3>1, <3>2, <3>3
  <2>2. ASSUME NEW s \in States, Open(s, i)
        PROVE  p.v = version' \/ load[s].since - SetTime <= superseded'[p.v]
    <3>1. load[s].since - SetTime \in Int /\ load[s].since - SetTime <= now
      BY <2>2, Numbers DEF Ages, SetTimely, Setting, Open
    <3>2. Upto(p, load[s].since - SetTime)
      BY <2>2 DEF Ages, FileUpto
    <3>3. QED
      BY <1>2, <3>1, <3>2
  <2>3. QED
    BY <1>2, <2>1, <2>2
<1>6. ReadDated'
  <2> SUFFICES ASSUME NEW s \in States
               PROVE  /\ load[s].at = "read" => load[s].mtime <= file[load[s].entry].mtime
                      /\ load[s].at = "compare" =>
                            /\ load[s].mtime <= now
                            /\ \A p \in load[s].cached :
                                  /\ p.v \in 1 .. version'
                                  /\ \/ p.v = version'
                                     \/ load[s].mtime - 2 * SetTime <= superseded'[p.v]
    BY <1>1 DEF ReadDated, Upto
  <2>1. CASE load[s].at = "compare"
    <3>1. /\ load[s].mtime <= now /\ load[s].mtime - 2 * SetTime <= now
          /\ load[s].mtime - 2 * SetTime \in Int
      BY <2>1, Numbers DEF Ages, ReadDated
    <3>2. QED
      BY <1>2, <2>1, <3>1 DEF Ages, ReadDated
  <2>2. CASE load[s].at # "compare"
    BY <2>2 DEF Ages, ReadDated
  <2>3. QED
    BY <2>1, <2>2
<1>7. QED
  BY <1>3, <1>4, <1>5, <1>6 DEF Ages

LEMMA StatAges ==
  ASSUME TypeOK, Ages, NEW s \in States, Stat(s)
  PROVE  Ages'
<1>1. /\ UNCHANGED <<now, version, superseded, file>>
      /\ \A t \in States \ {s} : load'[t] = load[t]
      /\ load'[s].entry = load[s].entry /\ load'[s].at \in {"read", "fetch"}
      /\ load'[s].at = "read" => load'[s].mtime = file[load[s].entry].mtime
  BY StatFacts DEF Around
<1>2. load[s].entry \in Index /\ file[load[s].entry].mtime \in Nat
  BY AtEntry DEF Stat
<1>3. FileDated' /\ SetTimely' /\ FileUpto'
  BY <1>1 DEF Ages, FileDated, SetTimely, FileUpto, Setting, Open, Upto
<1>4. ReadDated'
  BY <1>1, <1>2 DEF Ages, ReadDated, Upto
<1>5. QED
  BY <1>3, <1>4 DEF Ages

LEMMA ReadAges ==
  ASSUME TypeOK, Ages, NEW s \in States, Read(s)
  PROVE  Ages'
<1> DEFINE i == load[s].entry
<1>1. /\ UNCHANGED <<now, version, superseded, file>>
      /\ \A t \in States \ {s} : load'[t] = load[t]
      /\ load'[s].at = "compare" /\ load'[s].mtime = load[s].mtime /\ load[s].at = "read"
      /\ load'[s].cached = Unmarshal(file[i].data)
  BY ReadFacts DEF Around
<1>2. i \in Index /\ file[i].data \in Seq(Token) /\ file[i].mtime \in Int /\ load[s].mtime \in Int
  BY AtEntry, Numbers DEF Read
<1>3. FileDated' /\ SetTimely' /\ FileUpto'
  BY <1>1 DEF Ages, FileDated, SetTimely, FileUpto, Setting, Open, Upto
<1>4. load[s].mtime <= file[i].mtime /\ file[i].mtime <= now
  BY <1>1, <1>2 DEF Ages, ReadDated, FileDated
<1>5. ASSUME NEW p \in Unmarshal(file[i].data)
      PROVE  Upto(p, load[s].mtime - 2 * SetTime)
  <2>1. p \in Elements(file[i].data) \ {End, Hole}
    BY <1>2, <1>5, ElementsFacts
  <2>2. Upto(p, file[i].mtime - 2 * SetTime)
    BY <1>2, <2>1 DEF Ages, FileUpto
  <2>3. /\ load[s].mtime - 2 * SetTime <= file[i].mtime - 2 * SetTime
        /\ load[s].mtime - 2 * SetTime \in Int /\ file[i].mtime - 2 * SetTime \in Int
    BY <1>2, <1>4, Numbers
  <2>4. QED
    BY <2>2, <2>3, UptoEarlier
<1>6. load[s].mtime <= now
  BY <1>2, <1>4, Numbers
<1>7. ReadDated'
  BY <1>1, <1>5, <1>6 DEF Ages, ReadDated, Upto
<1>8. QED
  BY <1>3, <1>7 DEF Ages

LEMMA AnswerElements ==
  ASSUME NEW v \in Versions, NEW answer, Begins(answer, v)
  PROVE  \A p \in Elements(answer) : p.v = v /\ p # End
<1>1. \A n \in 1 .. Size[v] : List(v)[n].v = v /\ List(v)[n] # End
  BY ListFacts
<1>2. Size[v] \in Nat /\ Len(answer) \in Nat
  BY ListFacts DEF Begins
<1>3. QED
  BY <1>1, <1>2 DEF Elements, Begins

\* Nothing is in a file after a write that was not in the list or the file.
LEMMA WrittenElements ==
  ASSUME NEW list \in Seq(Token), NEW old \in Seq(Token), NEW from \in Nat,
         NEW n \in from .. Len(list) + 1
  PROVE  \A p \in Elements(Written(old, Marshal(list), from, n)) \ {End, Hole} :
            p \in Elements(list) \/ p \in Elements(old)
<1> DEFINE bytes == Marshal(list)
           d == Written(old, bytes, from, n)
<1>1. /\ bytes \in Seq(Token) /\ Len(bytes) = Len(list) + 1
      /\ \A k \in 1 .. Len(list) : bytes[k] = list[k]
      /\ bytes[Len(list) + 1] = End
  BY MarshalFacts
<1> HIDE DEF bytes
<1>2. /\ Len(list) \in Nat /\ Len(old) \in Nat /\ n \in Nat
      /\ from \in 0 .. Len(bytes) /\ n \in from .. Len(bytes)
  BY <1>1
<1>3. /\ d \in Seq(Token)
      /\ \A k \in 1 .. Len(d) :
            /\ from < k /\ k <= n => d[k] = bytes[k]
            /\ ~(from < k /\ k <= n) => d[k] = IF k <= Len(old) THEN old[k] ELSE Hole
  BY <1>1, <1>2, WrittenFacts
<1> HIDE DEF d
<1>4. ASSUME NEW p \in Elements(d), p # End, p # Hole
      PROVE  p \in Elements(list) \/ p \in Elements(old)
  <2>1. PICK k \in 1 .. Len(d) : p = d[k]
    BY <1>4 DEF Elements
  <2>2. k \in Nat \ {0}
    BY <1>3
  <2>3. CASE from < k /\ k <= n
    <3>1. p = bytes[k]
      BY <1>3, <2>1, <2>3
    <3>2. k \in 1 .. Len(list)
      BY <1>1, <1>2, <1>4, <2>2, <2>3, <3>1
    <3>3. QED
      BY <1>1, <3>1, <3>2 DEF Elements
  <2>4. CASE ~(from < k /\ k <= n)
    <3>1. k \in 1 .. Len(old) /\ p = old[k]
      BY <1>2, <1>3, <1>4, <2>1, <2>2, <2>4
    <3>2. QED
      BY <3>1 DEF Elements
  <2>5. QED
    BY <2>3, <2>4
<1>5. QED
  BY <1>4 DEF d, bytes

LEMMA FetchAges ==
  ASSUME TypeOK, Ages, NEW s \in States, Fetch(s)
  PROVE  Ages'
<1>1. PICK answer \in Seq(Token) :
        /\ Around(s) /\ file' = file /\ load[s].at = "fetch"
        /\ Begins(answer, version)
        /\ \/ /\ load'[s].at = "create" /\ load'[s].entry = load[s].entry
              /\ load'[s].list = answer /\ load'[s].since = now
           \/ Take(s, Elements(answer), "answer")
  BY FetchFacts
<1>2. /\ UNCHANGED <<now, version, superseded, file>>
      /\ \A t \in States \ {s} : load'[t] = load[t]
  BY <1>1 DEF Around
<1>3. CASE Take(s, Elements(answer), "answer")
  <2>1. load'[s].at \in {"done", "stat", "fetch"}
    BY <1>1, <1>3, ElementsFacts, TakeFacts
  <2>2. QED
    BY <1>2, <2>1, QuietAges DEF Quiet
<1>4. CASE load'[s].at = "create" /\ load'[s].list = answer /\ load'[s].since = now
  <2>1. now \in Int /\ SetTime \in Nat /\ version \in Versions
    BY Numbers DEF TypeOK
  <2>2. \A p \in Elements(answer) : Upto(p, now)
    BY <1>1, <2>1, AnswerElements, UptoNow
  <2>3. FileDated' /\ FileUpto' /\ ReadDated'
    BY <1>2, <1>4 DEF Ages, FileDated, FileUpto, ReadDated, Open, Upto
  <2>4. SetTimely'
    <3>1. now <= now /\ now <= now + SetTime
      BY <2>1
    <3>2. QED
      BY <1>2, <1>4, <2>2, <3>1 DEF Ages, SetTimely, Setting, Upto
  <2>5. QED
    BY <2>3, <2>4 DEF Ages
<1>5. QED
  BY <1>1, <1>3, <1>4

\* A file is dated anew only with the present.
LEMMA LaterDates ==
  ASSUME TypeOK, Ages, UNCHANGED <<now, version, superseded>>,
         \A i \in Index : file'[i].mtime = file[i].mtime \/ file'[i].mtime = now,
         \A t \in States : load'[t] = load[t] \/ load'[t].at \notin {"read", "compare"}
  PROVE  FileDated' /\ ReadDated'
<1>1. now \in Int
  BY Numbers
<1>2. FileDated'
  BY <1>1 DEF Ages, FileDated
<1>3. ASSUME NEW t \in States, load'[t].at = "read"
      PROVE  load'[t].mtime <= file'[load'[t].entry].mtime
  <2>1. load'[t] = load[t] /\ load[t].entry \in Index
    BY <1>3, AtEntry
  <2>2. /\ load[t].mtime <= file[load[t].entry].mtime /\ load[t].mtime \in Int
        /\ file[load[t].entry].mtime \in Int /\ file[load[t].entry].mtime <= now
    BY <1>3, <2>1, Numbers DEF Ages, ReadDated, FileDated
  <2>3. load[t].mtime <= file'[load[t].entry].mtime
    BY <1>1, <2>1, <2>2
  <2>4. QED
    BY <2>1, <2>3
<1>4. ReadDated'
  BY <1>3 DEF Ages, ReadDated, Upto
<1>5. QED
  BY <1>2, <1>4

LEMMA SetCreateAges ==
  ASSUME TypeOK, Ages, NEW s \in States, SetCreate(s)
  PROVE  Ages'
<1> DEFINE i == load[s].entry
<1>1. /\ Around(s) /\ load[s].at = "create"
      /\ \/ /\ file'[i].data = <<>> /\ file'[i].mtime = now
            /\ \A j \in Index \ {i} : file'[j] = file[j]
            /\ load'[s].at = "write" /\ SameSet(s)
         \/ Take(s, Elements(load[s].list), "answer") /\ file' = file
  BY SetCreateFacts
<1>2. /\ UNCHANGED <<now, version, superseded>>
      /\ \A t \in States \ {s} : load'[t] = load[t]
  BY <1>1 DEF Around
<1>3. i \in Index /\ load[s].list \in Seq(Token)
  BY <1>1, AtEntry, Numbers
<1>4. CASE Take(s, Elements(load[s].list), "answer") /\ file' = file
  <2>1. load'[s].at \in {"done", "stat", "fetch"}
    BY <1>1, <1>3, <1>4, ElementsFacts, TakeFacts
  <2>2. QED
    BY <1>2, <1>4, <2>1, QuietAges DEF Quiet
<1>5. CASE /\ file'[i].data = <<>> /\ file'[i].mtime = now
           /\ \A j \in Index \ {i} : file'[j] = file[j]
           /\ load'[s].at = "write" /\ SameSet(s)
  <2>1. Elements(file'[i].data) = {} /\ now \in Int
    BY <1>5, Numbers DEF Elements
  <2>2. FileDated'
    BY <1>2, <1>5, <2>1 DEF Ages, FileDated
  <2>3. SetTimely'
    BY <1>1, <1>2, <1>5 DEF Ages, SetTimely, Setting, SameSet, Upto
  <2>4. ASSUME NEW j \in Index, NEW p \in Elements(file'[j].data) \ {End, Hole}
        PROVE  /\ Upto(p, file[j].mtime - 2 * SetTime) /\ file'[j] = file[j] /\ j # i
               /\ \A t \in States : Open(t, j)' => Open(t, j) /\ t # s
               /\ \A t \in States : Open(t, j) => Upto(p, load[t].since - SetTime)
    <3>1. j # i /\ file'[j] = file[j] /\ p \in Elements(file[j].data) \ {End, Hole}
      BY <1>5, <2>1, <2>4
    <3>2. \A t \in States : Open(t, j)' => Open(t, j) /\ t # s
      BY <1>2, <1>5, <3>1 DEF Open, SameSet
    <3>3. QED
      BY <3>1, <3>2 DEF Ages, FileUpto
  <2>5. FileUpto'
    BY <1>2, <2>4 DEF FileUpto, Upto
  <2>6. ReadDated'
    BY <1>2, <1>5, LaterDates
  <2>7. QED
    BY <2>2, <2>3, <2>5, <2>6 DEF Ages
<1>6. QED
  BY <1>1, <1>4, <1>5

LEMMA SetWriteAges ==
  ASSUME TypeOK, Ages, NEW s \in States, SetWrite(s)
  PROVE  Ages'
<1> DEFINE i == load[s].entry
<1>1. PICK n \in load[s].offset .. Len(load[s].list) + 1 :
        /\ Around(s) /\ load[s].at = "write"
        /\ load'[s].at \in {"write", "touch"} /\ SameSet(s)
        /\ file'[i].data = Written(file[i].data, Marshal(load[s].list), load[s].offset, n)
        /\ file'[i].mtime = now
        /\ \A j \in Index \ {i} : file'[j] = file[j]
  BY SetWriteFacts
<1>2. /\ UNCHANGED <<now, version, superseded>>
      /\ \A t \in States \ {s} : load'[t] = load[t]
  BY <1>1 DEF Around
<1>3. /\ i \in Index /\ load[s].list \in Seq(Token) /\ file[i].data \in Seq(Token)
      /\ now \in Int /\ SetTime \in Nat /\ load[s].offset \in Nat
  BY <1>1, AtEntry, Numbers
<1>4. FileDated' /\ ReadDated'
  BY <1>1, <1>2, LaterDates
<1>5. SetTimely'
  BY <1>1, <1>2 DEF Ages, SetTimely, Setting, SameSet, Upto
<1>6. \A t \in States, j \in Index : Open(t, j)' => Open(t, j) /\ load'[t].since = load[t].since
  BY <1>1, <1>2 DEF Open, SameSet
<1>7. ASSUME NEW p \in Elements(file'[i].data) \ {End, Hole}
      PROVE  /\ Upto(p, now - 2 * SetTime)
             /\ \A t \in States : Open(t, i) => Upto(p, load[t].since - SetTime)
  <2>1. /\ Setting(s) /\ Open(s, i) /\ load[s].since \in Int
        /\ load[s].since <= now /\ now <= load[s].since + SetTime
    BY <1>1, Numbers DEF Ages, SetTimely, Setting, Open
  <2>2. CASE p \in Elements(load[s].list)
    <3>1. Upto(p, load[s].since)
      BY <2>1, <2>2 DEF Ages, SetTimely
    <3>2. Upto(p, now - 2 * SetTime)
      <4>1. now - 2 * SetTime \in Int /\ now - 2 * SetTime <= load[s].since
        BY <1>3, <2>1
      <4>2. QED
        BY <2>1, <3>1, <4>1, UptoEarlier
    <3>3. ASSUME NEW t \in States, Open(t, i) PROVE Upto(p, load[t].since - SetTime)
      <4>1. load[t].since \in Int /\ load[t].since <= now
        BY <3>3, Numbers DEF Ages, SetTimely, Setting, Open
      <4>2. load[t].since - SetTime \in Int /\ load[t].since - SetTime <= load[s].since
        BY <1>3, <2>1, <4>1
      <4>3. QED
        BY <2>1, <3>1, <4>2, UptoEarlier
    <3>4. QED
      BY <3>2, <3>3
  <2>3. CASE p \in Elements(file[i].data)
    <3>1. \A t \in States : Open(t, i) => Upto(p, load[t].since - SetTime)
      BY <1>3, <1>7, <2>3 DEF Ages, FileUpto
    <3>2. /\ now - 2 * SetTime \in Int /\ load[s].since - SetTime \in Int
          /\ now - 2 * SetTime <= load[s].since - SetTime
      BY <1>3, <2>1, OneSetBefore
    <3>3. QED
      BY <2>1, <3>1, <3>2, UptoEarlier
  <2>4. QED
    BY <1>1, <1>3, <1>7, <2>2, <2>3, WrittenElements
<1>8. FileUpto'
  <2> SUFFICES ASSUME NEW j \in Index, NEW p \in Elements(file'[j].data) \ {End, Hole}
               PROVE  /\ Upto(p, file'[j].mtime - 2 * SetTime)
                      /\ \A t \in States : Open(t, j) => Upto(p, load[t].since - SetTime)
    BY <1>2, <1>6 DEF FileUpto, Upto
  <2>1. CASE j = i
    BY <1>1, <1>7, <2>1
  <2>2. CASE j # i
    BY <1>1, <2>2 DEF Ages, FileUpto
  <2>3. QED
    BY <2>1, <2>2
<1>9. QED
  BY <1>4, <1>5, <1>8 DEF Ages

LEMMA SetTouchAges ==
  ASSUME TypeOK, Ages, NEW s \in States, SetTouch(s)
  PROVE  Ages'
<1> DEFINE i == load[s].entry
<1>1. /\ Around(s) /\ load[s].at = "touch"
      /\ file'[i].data = file[i].data /\ file'[i].mtime = now
      /\ \A j \in Index \ {i} : file'[j] = file[j]
      /\ Take(s, Elements(load[s].list), "answer")
  BY SetTouchFacts
<1>2. /\ UNCHANGED <<now, version, superseded>>
      /\ \A t \in States \ {s} : load'[t] = load[t]
  BY <1>1 DEF Around
<1>3. /\ i \in Index /\ load[s].list \in Seq(Token) /\ now \in Int /\ SetTime \in Nat
  BY <1>1, AtEntry, Numbers
<1>4. load'[s].at \in {"done", "stat", "fetch"}
  BY <1>1, <1>3, ElementsFacts, TakeFacts
<1>5. FileDated' /\ ReadDated'
  BY <1>1, <1>2, <1>4, LaterDates
<1>6. SetTimely'
  BY <1>2, <1>4 DEF Ages, SetTimely, Setting, Upto
<1>7. \A t \in States, j \in Index : Open(t, j)' => Open(t, j) /\ load'[t].since = load[t].since
  BY <1>2, <1>4 DEF Open
<1>8. ASSUME NEW p \in Elements(file[i].data) \ {End, Hole}
      PROVE  Upto(p, now - 2 * SetTime)
  <2>1. /\ Open(s, i) /\ load[s].since \in Int /\ now <= load[s].since + SetTime
    BY <1>1, Numbers DEF Ages, SetTimely, Setting, Open
  <2>2. Upto(p, load[s].since - SetTime)
    BY <1>3, <2>1 DEF Ages, FileUpto
  <2>3. /\ now - 2 * SetTime \in Int /\ load[s].since - SetTime \in Int
        /\ now - 2 * SetTime <= load[s].since - SetTime
    BY <1>3, <2>1
  <2>4. QED
    BY <2>2, <2>3, UptoEarlier
<1>9. FileUpto'
  <2> SUFFICES ASSUME NEW j \in Index, NEW p \in Elements(file'[j].data) \ {End, Hole}
               PROVE  /\ Upto(p, file'[j].mtime - 2 * SetTime)
                      /\ \A t \in States : Open(t, j) => Upto(p, load[t].since - SetTime)
    BY <1>2, <1>7 DEF FileUpto, Upto
  <2>1. CASE j = i
    BY <1>1, <1>8, <2>1 DEF Ages, FileUpto
  <2>2. CASE j # i
    BY <1>1, <2>2 DEF Ages, FileUpto
  <2>3. QED
    BY <2>1, <2>2
<1>10. QED
  BY <1>5, <1>6, <1>9 DEF Ages

\* The steps after which a State is in no Get and no Set.
LEMMA LeaveAges ==
  ASSUME TypeOK, Ages, NEW s \in States,
         ReadFail(s) \/ Compare(s) \/ FetchFail(s) \/ FetchHang(s)
  PROVE  Ages'
<1>1. load[s].cached \subseteq Token
  BY DEF TypeOK, Load
<1>2. Around(s) /\ file' = file
  BY ReadFailFacts, CompareFacts, FetchFailFacts, FetchHangFacts
<1>3. Quiet(s)
  <2>1. CASE Compare(s)
    <3> DEFINE f == IF load[s].torn THEN "torn cache" ELSE "cache"
    <3>1. f \in {"cache", "torn cache", "answer", "error"}
      OBVIOUS
    <3>2. load[s].at = "compare" /\ (load'[s].at = "fetch" \/ Take(s, load[s].cached, f))
      BY <2>1, CompareFacts
    <3> HIDE DEF f
    <3>3. QED
      BY <1>1, <3>1, <3>2, TakeFacts DEF Quiet
  <2>2. CASE FetchFail(s)
    BY <2>2, FetchFailFacts, TakeFacts DEF Quiet
  <2>3. CASE FetchHang(s)
    BY <2>3, FetchHangFacts DEF Quiet
  <2>4. CASE ReadFail(s)
    BY <2>4, ReadFailFacts DEF Quiet
  <2>5. QED
    BY <2>1, <2>2, <2>3, <2>4
<1>4. QED
  BY <1>2, <1>3, QuietAges DEF Around

LEMMA AgesStep == TypeOK /\ Ages /\ [Next]_vars => Ages'
<1> SUFFICES ASSUME TypeOK, Ages, [Next]_vars PROVE Ages'
  OBVIOUS
<1>1. CASE Tick
  BY <1>1, TickAges
<1>2. CASE Publish
  BY <1>2, PublishAges
<1>3. ASSUME NEW s \in States, Crash(s) \/ Renew(s) PROVE Ages'
  <2>1. /\ load'[s] = Idle /\ UNCHANGED <<now, version, superseded, file>>
        /\ \A t \in States \ {s} : load'[t] = load[t]
    BY <1>3, CrashFacts, RenewFacts
  <2>2. QED
    BY <2>1, IdleFacts, QuietAges DEF Quiet
<1>4. ASSUME NEW s \in States, LoadStep(s) PROVE Ages'
  BY <1>4, StatAges, ReadAges, FetchAges, SetCreateAges, SetWriteAges, SetTouchAges, LeaveAges
     DEF LoadStep
<1>5. ASSUME NEW s \in States, Ask(s) PROVE Ages'
  <2>1. /\ UNCHANGED <<now, version, superseded, file>>
        /\ \A t \in States : load'[t] = load[t] \/ load'[t] = Start(1)
    BY <1>5, AskFacts
  <2>2. Start(1).at \in {"done", "stat", "fetch"}
    BY StartFacts
  <2>3. QED
    BY <2>1, <2>2, QuietAges DEF Quiet
<1>6. CASE UNCHANGED vars
  BY <1>6, QuietAges DEF vars
<1>7. QED
  BY <1>1, <1>2, <1>3, <1>4, <1>5, <1>6 DEF Next

\* TypeOK and Ages hold in every state.
THEOREM AgesInvariance == Spec => [](TypeOK /\ Ages)
BY InitTypes, TypeStep, InitAges, AgesStep, PTL DEF Spec

LEMMA TakeUsed ==
  ASSUME TypeOK, NEW s \in States, load[s].at \notin {"idle", "done"}, NEW l, NEW f, Take(s, l, f)
  PROVE  /\ \A t \in States \ {s} : used'[t] = used[t]
         /\ used'[s][load[s].entry] = [list |-> l, from |-> f]
         /\ \A i \in Index \ {load[s].entry} : used'[s][i] = used[s][i]
<1>1. load[s].entry \in Index
  BY AtEntry
<1>2. used' = [used EXCEPT ![s][load[s].entry] = [list |-> l, from |-> f]]
  BY DEF Take
<1>3. QED
  BY <1>1, <1>2 DEF TypeOK

StillFresh(p) == p.v = version \/ now <= superseded[p.v] + MaxAge + 2 * SetTime

LEMMA TakeFresh ==
  ASSUME TypeOK, NEW s \in States, load[s].at \notin {"idle", "done"}, NEW l, NEW f,
         Take(s, l, f), \A p \in l : StillFresh(p)
  PROVE  TakesFresh
<1> DEFINE rec == [list |-> l, from |-> f]
<1>0. rec.list = l
  OBVIOUS
<1> HIDE DEF rec
<1>1. /\ \A t \in States \ {s} : used'[t] = used[t]
      /\ used'[s][load[s].entry] = rec
      /\ \A i \in Index \ {load[s].entry} : used'[s][i] = used[s][i]
  BY TakeUsed DEF rec
<1>2. ASSUME NEW t \in States, NEW i \in Index, NEW p \in used'[t][i].list \ used[t][i].list
      PROVE  StillFresh(p)
  <2>1. t = s /\ i = load[s].entry
    BY <1>1, <1>2
  <2>2. p \in l
    BY <1>0, <1>1, <1>2, <2>1
  <2>3. QED
    BY <2>2
<1>3. QED
  BY <1>2 DEF TakesFresh, StillFresh

\* A list that was current after t is fresh until t + MaxAge + 2 * SetTime.
LEMMA UptoFresh ==
  ASSUME TypeOK, NEW p, NEW t \in Int, Upto(p, t - 2 * SetTime), now <= t + MaxAge
  PROVE  StillFresh(p)
<1>1. superseded[p.v] \in Nat
  BY UptoTypes
<1>2. SetTime \in Nat /\ MaxAge \in Nat /\ now \in Int
  BY Numbers
<1>3. CASE t - 2 * SetTime <= superseded[p.v]
  BY <1>1, <1>2, <1>3 DEF StillFresh
<1>4. QED
  BY <1>3 DEF Upto, StillFresh

LEMMA FreshStep == TypeOK /\ Ages /\ [Next]_vars => TakesFresh
<1> SUFFICES ASSUME TypeOK, Ages, [Next]_vars PROVE TakesFresh
  OBVIOUS
<1>1. ASSUME used' = used PROVE TakesFresh
  BY <1>1 DEF TakesFresh
<1>2. ASSUME NEW s \in States, Crash(s) \/ Renew(s) PROVE TakesFresh
  <2>1. /\ \A t \in States \ {s} : used'[t] = used[t]
        /\ \A i \in Index : used'[s][i].list = {}
    BY <1>2, CrashFacts, RenewFacts
  <2>2. QED
    BY <2>1 DEF TakesFresh
<1>3. ASSUME NEW s \in States, Compare(s) PROVE TakesFresh
  <2> DEFINE f == IF load[s].torn THEN "torn cache" ELSE "cache"
  <2>1. load[s].cached \subseteq Token
    BY DEF TypeOK, Load
  <2>2. f \in {"cache", "torn cache", "answer", "error"}
    OBVIOUS
  <2>3. /\ load[s].at = "compare"
        /\ \/ used' = used
           \/ load[s].mtime + MaxAge >= now /\ Take(s, load[s].cached, f)
    BY <1>3, CompareFacts
  <2> HIDE DEF f
  <2>4. CASE load[s].mtime + MaxAge >= now /\ Take(s, load[s].cached, f)
    <3>1. load[s].mtime \in Int /\ now \in Int /\ MaxAge \in Nat
      BY Numbers
    <3>2. now <= load[s].mtime + MaxAge
      BY <2>4, <3>1
    <3>3. \A p \in load[s].cached : Upto(p, load[s].mtime - 2 * SetTime)
      BY <2>3 DEF Ages, ReadDated
    <3>4. QED
      BY <2>1, <2>2, <2>3, <2>4, <3>1, <3>2, <3>3, UptoFresh, TakeFresh
  <2>5. QED
    BY <1>1, <2>3, <2>4
<1>4. ASSUME NEW s \in States, Fetch(s) PROVE TakesFresh
  <2>1. PICK answer \in Seq(Token) :
          /\ load[s].at = "fetch" /\ Begins(answer, version)
          /\ used' = used \/ Take(s, Elements(answer), "answer")
    BY <1>4, FetchFacts
  <2>2. Elements(answer) \subseteq Token /\ version \in Versions
    BY ElementsFacts DEF TypeOK
  <2>3. \A p \in Elements(answer) : p.v = version
    BY <2>1, <2>2, AnswerElements
  <2>4. QED
    BY <1>1, <2>1, <2>2, <2>3, TakeFresh DEF StillFresh
<1>5. ASSUME NEW s \in States, FetchFail(s) PROVE TakesFresh
  <2>1. load[s].at = "fetch" /\ Take(s, {}, "error")
    BY <1>5, FetchFailFacts
  <2>2. \A p \in {} : StillFresh(p)
    OBVIOUS
  <2>3. QED
    BY <2>1, <2>2, TakeFresh
<1>6. ASSUME NEW s \in States, SetCreate(s) \/ SetTouch(s) PROVE TakesFresh
  <2>1. /\ load[s].at \in {"create", "touch"}
        /\ used' = used \/ Take(s, Elements(load[s].list), "answer")
    BY <1>6, SetCreateFacts, SetTouchFacts
  <2>2. /\ load[s].list \in Seq(Token) /\ load[s].since \in Int
        /\ now \in Int /\ SetTime \in Nat /\ MaxAge \in Nat
    BY Numbers
  <2>3. Elements(load[s].list) \subseteq Token
    BY <2>2, ElementsFacts
  <2>4. /\ now <= load[s].since + SetTime
        /\ \A p \in Elements(load[s].list) : Upto(p, load[s].since)
    BY <2>1 DEF Ages, SetTimely, Setting
  <2>5. ASSUME NEW p \in Elements(load[s].list)
        PROVE  StillFresh(p)
    <3>1. Upto(p, load[s].since)
      BY <2>4
    <3>2. superseded[p.v] \in Nat
      BY <3>1, UptoTypes
    <3>3. CASE load[s].since <= superseded[p.v]
      BY <2>2, <2>4, <3>2, <3>3 DEF StillFresh
    <3>4. QED
      BY <3>1, <3>3 DEF Upto, StillFresh
  <2>6. QED
    BY <1>1, <2>1, <2>3, <2>5, TakeFresh
<1>7. CASE UNCHANGED vars
  BY <1>1, <1>7 DEF vars
<1>8. CASE Tick
  BY <1>1, <1>8, TickFacts
<1>9. CASE Publish
  BY <1>1, <1>9, PublishFacts
<1>10. ASSUME NEW s \in States, LoadStep(s) PROVE TakesFresh
  <2>1. CASE Stat(s) \/ Read(s) \/ ReadFail(s) \/ FetchHang(s) \/ SetWrite(s)
    <3>1. used' = used
      BY <2>1 DEF Stat, Read, ReadFail, FetchHang, SetWrite
    <3>2. QED
      BY <1>1, <3>1
  <2>2. QED
    BY <1>3, <1>4, <1>5, <1>6, <1>10, <2>1 DEF LoadStep
<1>11. ASSUME NEW s \in States, Ask(s) PROVE TakesFresh
  BY <1>1, <1>11, AskFacts
<1>12. QED
  BY <1>2, <1>7, <1>8, <1>9, <1>10, <1>11 DEF Next

\* A list that a State takes was replaced at most MaxAge and the time of two
\* Sets before, however the States, the Sets on one file, the publications
\* and the crashes interleave.
THEOREM FreshProved == Spec => FreshEnough
<1>1. TypeOK /\ Ages /\ [Next]_vars => [TakesFresh]_vars
  BY FreshStep
<1>2. QED
  BY <1>1, AgesInvariance, PTL DEF Spec, FreshEnough

---------------------------------------------------------------------------
(* What a cache file holds when no answer was cut and no write in parts    *)
(* met the bytes of another                                                *)

\* The bytes of v, as far as they go; what was longer before comes after them.
Layout(data, v) ==
    /\ \A n \in 1 .. Len(data) : n <= Size[v] => data[n] = List(v)[n]
    /\ Len(data) > Size[v] => data[Size[v] + 1] = End

LEMMA LayoutRead ==
  ASSUME NEW v \in Versions, NEW data \in Seq(Token), Layout(data, v)
  PROVE  /\ Unmarshal(data) = {} \/ Unmarshal(data) = Elements(List(v))
         /\ Len(data) = Size[v] + 1 => Unmarshal(data) = Elements(List(v))
<1>1. /\ Len(List(v)) = Size[v] /\ Size[v] \in Nat /\ Len(data) \in Nat
      /\ \A n \in 1 .. Size[v] : List(v)[n] # End /\ List(v)[n] # Hole
  <2>1. Len(data) \in Nat
    OBVIOUS
  <2>2. /\ Len(List(v)) = Size[v] /\ Size[v] \in Nat
        /\ \A n \in 1 .. Size[v] : List(v)[n] # End /\ List(v)[n] # Hole
    BY ListFacts
  <2>3. QED
    BY <2>1, <2>2
<1> DEFINE ends == {n \in 1 .. Len(data) : data[n] = End}
<1>2. ASSUME Len(data) = Size[v] + 1 PROVE Elements(data) \ {End} = Elements(List(v))
  <2>1. \A n \in 1 .. Size[v] : data[n] = List(v)[n] /\ n \in 1 .. Len(data)
    BY <1>1, <1>2 DEF Layout
  <2>2. data[Size[v] + 1] = End
    BY <1>1, <1>2 DEF Layout
  <2>3. ASSUME NEW p \in Elements(data) \ {End} PROVE p \in Elements(List(v))
    <3>1. PICK n \in 1 .. Len(data) : p = data[n]
      BY <2>3 DEF Elements
    <3>2. n \in 1 .. Size[v]
      BY <1>1, <1>2, <2>2, <2>3, <3>1
    <3>3. QED
      BY <1>1, <2>1, <3>1, <3>2 DEF Elements
  <2>4. ASSUME NEW p \in Elements(List(v)) PROVE p \in Elements(data) \ {End}
    <3>1. PICK n \in 1 .. Size[v] : p = List(v)[n]
      BY <1>1, <2>4 DEF Elements
    <3>2. QED
      BY <1>1, <2>1, <3>1 DEF Elements
  <2>5. QED
    BY <2>3, <2>4
<1>3. ASSUME Len(data) = Size[v] + 1 PROVE data # <<>> /\ Hole \notin Elements(data) /\ ends = {Len(data)}
  <2>1. ASSUME NEW n \in 1 .. Size[v] PROVE data[n] # End
    <3>1. n \in 1 .. Len(data) /\ n <= Size[v]
      BY <1>1, <1>3
    <3>2. data[n] = List(v)[n]
      BY <3>1 DEF Layout
    <3>3. QED
      BY <1>1, <3>2
  <2>2. data[Len(data)] = End
    BY <1>1, <1>3 DEF Layout
  <2>3. \A n \in 1 .. Len(data) : n \in 1 .. Size[v] \/ n = Len(data)
    BY <1>1, <1>3
  <2>4. Len(data) \in 1 .. Len(data)
    BY <1>1, <1>3
  <2>5. data # <<>>
    BY <1>1, <1>3
  <2>6. Hole # End
    BY DEF Hole, End
  <2>7. Hole \notin Elements(data)
    <3>1. \A n \in 1 .. Len(data) : data[n] # Hole
      BY <1>1, <1>3, <2>2, <2>3, <2>6 DEF Layout
    <3>2. QED
      BY <3>1 DEF Elements
  <2>8. QED
    BY <2>1, <2>2, <2>3, <2>4, <2>5, <2>7
<1>4. ASSUME data # <<>>, ends = {Len(data)} PROVE Len(data) = Size[v] + 1
  <2>1. Len(data) \in 1 .. Len(data) /\ data[Len(data)] = End
    BY <1>4
  <2>2. Len(data) > Size[v]
    BY <1>1, <2>1 DEF Layout
  <2>3. Size[v] + 1 \in ends
    BY <1>1, <2>2 DEF Layout
  <2>4. QED
    BY <1>4, <2>3
<1>5. Unmarshal(data) = IF data # <<>> /\ Hole \notin Elements(data) /\ ends = {Len(data)}
                        THEN Elements(data) \ {End} ELSE {}
  BY DEF Unmarshal
<1> HIDE DEF ends
<1>6. QED
  BY <1>2, <1>3, <1>4, <1>5

\* A write of all the bytes at once, or one that goes on where its own bytes end.
LEMMA LayoutWrite ==
  ASSUME NEW v \in Versions, NEW old \in Seq(Token), NEW from \in Nat,
         NEW n \in from .. Len(List(v)) + 1,
         \/ from = 0 /\ n = Len(List(v)) + 1
         \/ old = SubSeq(Marshal(List(v)), 1, from)
  PROVE  LET d == Written(old, Marshal(List(v)), from, n) IN
         /\ Layout(d, v)
         /\ n = Len(List(v)) + 1 /\ old = SubSeq(Marshal(List(v)), 1, from) => Len(d) = Size[v] + 1
<1> DEFINE bytes == Marshal(List(v))
           d == Written(old, bytes, from, n)
<1>1. List(v) \in Seq(Token) /\ Len(List(v)) = Size[v] /\ Size[v] \in Nat
  BY ListFacts
<1>2. /\ bytes \in Seq(Token) /\ Len(bytes) = Size[v] + 1
      /\ \A k \in 1 .. Size[v] : bytes[k] = List(v)[k]
      /\ bytes[Size[v] + 1] = End
  BY <1>1, MarshalFacts
<1> HIDE DEF bytes
<1>3. from \in 0 .. Len(bytes) /\ n \in from .. Len(bytes) /\ n \in Nat /\ Len(old) \in Nat
  BY <1>1, <1>2
<1>4. /\ d \in Seq(Token) /\ Len(d) = IF from = n \/ Len(old) > n THEN Len(old) ELSE n
      /\ \A k \in 1 .. Len(d) :
            /\ from < k /\ k <= n => d[k] = bytes[k]
            /\ ~(from < k /\ k <= n) => d[k] = IF k <= Len(old) THEN old[k] ELSE Hole
  BY <1>2, <1>3, WrittenFacts
<1> HIDE DEF d
<1>5. CASE old = SubSeq(bytes, 1, from)
  <2>1. Len(old) = from /\ \A k \in 1 .. from : old[k] = bytes[k]
    BY <1>2, <1>3, <1>5, SubSeqFacts
  <2>2. Len(d) = n
    BY <1>3, <1>4, <2>1
  <2>3. ASSUME NEW k \in 1 .. n PROVE d[k] = bytes[k]
    <3>1. k \in 1 .. Len(d) /\ k \in Nat
      BY <1>3, <2>2
    <3>2. CASE from < k
      BY <1>3, <1>4, <3>1, <3>2, <2>3
    <3>3. CASE ~(from < k)
      <4>1. k \in 1 .. from
        BY <1>3, <2>3, <3>1, <3>3
      <4>2. d[k] = old[k]
        BY <1>3, <1>4, <2>1, <3>1, <3>3, <4>1
      <4>3. QED
        BY <2>1, <4>1, <4>2
    <3>4. QED
      BY <3>2, <3>3
  <2>4. ASSUME NEW k \in 1 .. Len(d), k <= Size[v] PROVE d[k] = List(v)[k]
    <3>1. k \in 1 .. n /\ k \in 1 .. Size[v]
      BY <1>1, <1>3, <2>2, <2>4
    <3>2. QED
      BY <1>2, <2>3, <3>1
  <2>5. Len(d) > Size[v] => d[Size[v] + 1] = End
    BY <1>1, <1>2, <1>3, <2>2, <2>3
  <2>6. Layout(d, v)
    BY <2>4, <2>5 DEF Layout
  <2>7. QED
    BY <1>1, <2>2, <2>6 DEF d, bytes
<1>6. CASE old # SubSeq(bytes, 1, from)
  <2>1. from = 0 /\ n = Size[v] + 1
    BY <1>1, <1>6 DEF bytes
  <2>2. Len(d) \in Nat /\ Len(d) >= Size[v] + 1
    BY <1>1, <1>3, <1>4, <2>1
  <2>3. ASSUME NEW k \in 1 .. Size[v] + 1 PROVE d[k] = bytes[k]
    BY <1>1, <1>4, <2>1, <2>2, <2>3
  <2>4. \A k \in 1 .. Len(d) : k <= Size[v] => d[k] = List(v)[k]
    <3>1. \A k \in 1 .. Len(d) : k <= Size[v] => k \in 1 .. Size[v] /\ k \in 1 .. Size[v] + 1
      BY <1>1, <2>2
    <3>2. QED
      BY <1>2, <2>3, <3>1
  <2>5. d[Size[v] + 1] = End
    <3>1. Size[v] + 1 \in 1 .. Size[v] + 1
      BY <1>1
    <3>2. QED
      BY <1>2, <2>3, <3>1
  <2>6. Layout(d, v)
    BY <2>4, <2>5 DEF Layout
  <2>7. QED
    BY <1>6, <2>6 DEF d, bytes
<1>7. QED
  BY <1>5, <1>6

Writes(s, i) == load[s].at = "write" /\ load[s].entry = i

\* Every file is laid out by one publication.
FileWhole ==
    \A i \in Index : ~short[i] => \E v \in 1 .. version : Layout(file[i].data, v)

\* Without a Set that was cut or overlapped, a file has one writer, which
\* finds it empty, or is whole.
OneWriter ==
    \A i \in Index : ~short[i] /\ ~torn[i] =>
        /\ \A s, t \in States : Writes(s, i) /\ Writes(t, i) => s = t
        /\ \A s \in States : Writes(s, i) => file[i].data = <<>> /\ load[s].offset = 0
        /\ file[i].there /\ (\A s \in States : ~Writes(s, i)) =>
              \E v \in 1 .. version : Layout(file[i].data, v) /\ Len(file[i].data) = Size[v] + 1

\* A Set writes one publication.
SetWhole ==
    \A s \in States : Setting(s) /\ ~short[load[s].entry] =>
        \E v \in 1 .. version : load[s].list = List(v)

\* Get finds one publication; in a torn file, one or none.
GetWhole ==
    \A s \in States :
        /\ load[s].at = "read" => file[load[s].entry].there
        /\ load[s].at = "compare" /\ ~short[load[s].entry] =>
              \/ load[s].torn /\ load[s].cached = {}
              \/ \E v \in 1 .. version : load[s].cached = Elements(List(v))

Wholes == FileWhole /\ OneWriter /\ SetWhole /\ GetWhole

\* What only grows.
Grows == /\ version \in Nat /\ version' \in Nat /\ version <= version'
         /\ \A i \in Index : /\ short[i] => short'[i]
                             /\ torn[i] => torn'[i]
                             /\ file[i].there => file'[i].there

LEMMA GrowingVersions ==
  ASSUME Grows, NEW v \in 1 .. version
  PROVE  v \in 1 .. version'
BY DEF Grows

LEMMA PublishedVersions ==
  ASSUME TypeOK
  PROVE  version \in Nat /\ version \in 1 .. version /\ \A v \in 1 .. version : v \in Versions
BY NetworkCacheAssumption DEF TypeOK, Versions

\* The files stay, and a writer that leaves its file leaves it torn.
LEMMA SameFiles ==
  ASSUME Wholes, Grows,
         \A i \in Index : file'[i].data = file[i].data /\ file'[i].there = file[i].there,
         \A t \in States, i \in Index : /\ Writes(t, i)' => /\ Writes(t, i)
                                                            /\ load'[t].offset = load[t].offset
                                        /\ Writes(t, i) => Writes(t, i)' \/ torn'[i]
  PROVE  FileWhole' /\ OneWriter'
<1>1. FileWhole'
  <2>1. ASSUME NEW i \in Index, ~short'[i]
        PROVE  \E v \in 1 .. version' : Layout(file'[i].data, v)
    <3>1. PICK v \in 1 .. version : Layout(file[i].data, v)
      BY <2>1 DEF Wholes, FileWhole, Grows
    <3>2. QED
      BY <3>1, GrowingVersions
  <2>2. QED
    BY <2>1 DEF FileWhole, Layout, List, End
<1>2. ASSUME NEW i \in Index, ~short'[i], ~torn'[i]
      PROVE  /\ \A s, t \in States : Writes(s, i)' /\ Writes(t, i)' => s = t
             /\ \A s \in States : Writes(s, i)' => file'[i].data = <<>> /\ load'[s].offset = 0
             /\ file'[i].there /\ (\A s \in States : ~Writes(s, i)') =>
                  \E v \in 1 .. version' :
                     Layout(file'[i].data, v) /\ Len(file'[i].data) = Size[v] + 1
  <2>1. ~short[i] /\ ~torn[i]
    BY <1>2 DEF Grows
  <2>2. \A s, t \in States : Writes(s, i)' /\ Writes(t, i)' => s = t
    BY <2>1 DEF Wholes, OneWriter
  <2>3. \A s \in States : Writes(s, i)' => file'[i].data = <<>> /\ load'[s].offset = 0
    BY <2>1 DEF Wholes, OneWriter
  <2>4. ASSUME file'[i].there, \A s \in States : ~Writes(s, i)'
        PROVE  \E v \in 1 .. version' :
                  Layout(file'[i].data, v) /\ Len(file'[i].data) = Size[v] + 1
    <3>1. \A s \in States : ~Writes(s, i)
      BY <1>2, <2>4
    <3>2. PICK v \in 1 .. version : Layout(file[i].data, v) /\ Len(file[i].data) = Size[v] + 1
      BY <2>1, <2>4, <3>1 DEF Wholes, OneWriter
    <3>3. QED
      BY <3>2, GrowingVersions
  <2>5. QED
    BY <2>2, <2>3, <2>4
<1>3. OneWriter'
  BY <1>2 DEF OneWriter, Layout, List, End
<1>4. QED
  BY <1>1, <1>3

\* The Sets stay, or end.
LEMMA SameSets ==
  ASSUME TypeOK, Wholes, Grows,
         \A t \in States : Setting(t)' => /\ Setting(t) /\ load'[t].entry = load[t].entry
                                          /\ load'[t].list = load[t].list
  PROVE  SetWhole'
<1>1. ASSUME NEW t \in States, Setting(t)', ~short'[load'[t].entry]
      PROVE  \E v \in 1 .. version' : load'[t].list = List(v)
  <2>1. /\ Setting(t) /\ load'[t].entry = load[t].entry /\ load'[t].list = load[t].list
        /\ load[t].entry \in Index
    BY <1>1, AtEntry DEF Setting
  <2>2. ~short[load[t].entry]
    BY <1>1, <2>1 DEF Grows
  <2>3. PICK v \in 1 .. version : load[t].list = List(v)
    BY <2>1, <2>2 DEF Wholes, SetWhole
  <2>4. QED
    BY <2>1, <2>3, GrowingVersions
<1>2. QED
  BY <1>1 DEF SetWhole, List

\* The Gets stay, or end.
LEMMA SameGets ==
  ASSUME TypeOK, Wholes, Grows,
         \A t \in States : load'[t].at \in {"read", "compare"} => load'[t] = load[t]
  PROVE  GetWhole'
<1>1. ASSUME NEW t \in States, load'[t].at = "read"
      PROVE  file'[load'[t].entry].there
  <2>1. load'[t] = load[t] /\ load[t].at = "read"
    BY <1>1
  <2>2. load[t].entry \in Index
    BY <2>1, AtEntry
  <2>3. QED
    BY <2>1, <2>2 DEF Wholes, GetWhole, Grows
<1>2. ASSUME NEW t \in States, load'[t].at = "compare", ~short'[load'[t].entry]
      PROVE  \/ load'[t].torn /\ load'[t].cached = {}
             \/ \E v \in 1 .. version' : load'[t].cached = Elements(List(v))
  <2>1. load'[t] = load[t] /\ load[t].at = "compare"
    BY <1>2
  <2>2. load[t].entry \in Index
    BY <2>1, AtEntry
  <2>3. ~short[load[t].entry]
    BY <1>2, <2>1, <2>2 DEF Grows
  <2>4. \/ load[t].torn /\ load[t].cached = {}
        \/ \E v \in 1 .. version : load[t].cached = Elements(List(v))
    BY <2>1, <2>3 DEF Wholes, GetWhole
  <2>5. QED
    BY <2>1, <2>4, GrowingVersions
<1>3. QED
  BY <1>1, <1>2 DEF GetWhole, Elements, List

\* The step of a State that is in no Get and no Set afterwards.
LEMMA QuietWholes ==
  ASSUME TypeOK, Wholes, Grows, file' = file,
         \A t \in States : \/ load'[t] = load[t]
                           \/ Quiet(t) /\ \A i \in Index : Writes(t, i) => torn'[i]
  PROVE  Wholes'
<1>1. \A t \in States, i \in Index : /\ Writes(t, i)' => /\ Writes(t, i)
                                                         /\ load'[t].offset = load[t].offset
                                     /\ Writes(t, i) => Writes(t, i)' \/ torn'[i]
  BY DEF Writes, Quiet
<1>2. FileWhole' /\ OneWriter'
  BY <1>1, SameFiles
<1>3. \A t \in States : Setting(t)' => /\ Setting(t) /\ load'[t].entry = load[t].entry
                                       /\ load'[t].list = load[t].list
  BY DEF Setting, Quiet
<1>4. SetWhole'
  BY <1>3, SameSets
<1>5. \A t \in States : load'[t].at \in {"read", "compare"} => load'[t] = load[t]
  BY DEF Quiet
<1>6. GetWhole'
  BY <1>5, SameGets
<1>7. QED
  BY <1>2, <1>4, <1>6 DEF Wholes

LEMMA InitWholes == Init => Wholes
<1> SUFFICES ASSUME Init PROVE Wholes
  OBVIOUS
<1>1. /\ \A i \in Index : file[i].data = <<>> /\ file[i].there = FALSE
      /\ version = 1 /\ \A s \in States : load[s].at = "idle"
  BY IdleFacts DEF Init, Missing
<1>2. Layout(<<>>, 1)
  <2>1. 1 \in Versions
    BY NetworkCacheAssumption DEF Versions
  <2>2. Size[1] \in Nat /\ Len(<<>>) = 0
    BY <2>1, ListFacts
  <2>3. QED
    BY <2>2 DEF Layout
<1>3. FileWhole
  BY <1>1, <1>2 DEF FileWhole
<1>4. OneWriter /\ SetWhole /\ GetWhole
  BY <1>1 DEF OneWriter, SetWhole, GetWhole, Writes, Setting
<1>5. QED
  BY <1>3, <1>4 DEF Wholes

LEMMA StatWholes ==
  ASSUME TypeOK, Wholes, NEW s \in States, Stat(s)
  PROVE  Wholes'
<1>1. /\ UNCHANGED <<version, file, torn, short>>
      /\ \A t \in States \ {s} : load'[t] = load[t]
      /\ load'[s].entry = load[s].entry /\ load[s].at = "stat"
      /\ load'[s].at \in {"read", "fetch"}
      /\ load'[s].at = "read" => file[load[s].entry].there
  BY StatFacts DEF Around
<1>2. Grows
  BY <1>1, PublishedVersions DEF Grows
<1>3. FileWhole' /\ OneWriter'
  <2>1. \A t \in States, i \in Index :
           /\ Writes(t, i)' <=> Writes(t, i)
           /\ Writes(t, i) => load'[t].offset = load[t].offset
    BY <1>1 DEF Writes
  <2>2. QED
    BY <1>1, <1>2, <2>1, SameFiles
<1>4. SetWhole'
  <2>1. \A t \in States : Setting(t)' => Setting(t) /\ load'[t] = load[t]
    BY <1>1 DEF Setting
  <2>2. QED
    BY <1>2, <2>1, SameSets
<1>5. GetWhole'
  BY <1>1 DEF Wholes, GetWhole
<1>6. QED
  BY <1>3, <1>4, <1>5 DEF Wholes

LEMMA ReadWholes ==
  ASSUME TypeOK, Wholes, NEW s \in States, Read(s)
  PROVE  Wholes'
<1> DEFINE i == load[s].entry
           data == file[i].data
<1>1. /\ UNCHANGED <<version, file, torn, short>>
      /\ \A t \in States \ {s} : load'[t] = load[t]
      /\ load'[s].entry = i /\ load[s].at = "read" /\ load'[s].at = "compare"
      /\ load'[s].cached = Unmarshal(data)
      /\ load'[s].torn = (torn[i] \/ \E t \in States : Open(t, i))
  BY ReadFacts DEF Around
<1>2. Grows
  BY <1>1, PublishedVersions DEF Grows
<1>3. FileWhole' /\ OneWriter'
  <2>1. \A t \in States, j \in Index :
           /\ Writes(t, j)' <=> Writes(t, j)
           /\ Writes(t, j) => load'[t].offset = load[t].offset
    BY <1>1 DEF Writes
  <2>2. QED
    BY <1>1, <1>2, <2>1, SameFiles
<1>4. SetWhole'
  <2>1. \A t \in States : Setting(t)' => Setting(t) /\ load'[t] = load[t]
    BY <1>1 DEF Setting
  <2>2. QED
    BY <1>2, <2>1, SameSets
<1>5. i \in Index /\ data \in Seq(Token)
  BY <1>1, AtEntry
<1>6. ASSUME ~short[i]
      PROVE  \/ (torn[i] \/ \E t \in States : Open(t, i)) /\ Unmarshal(data) = {}
             \/ \E v \in 1 .. version : Unmarshal(data) = Elements(List(v))
  <2>1. PICK v \in 1 .. version : Layout(data, v)
    BY <1>5, <1>6 DEF Wholes, FileWhole
  <2>2. v \in Versions
    BY PublishedVersions
  <2>3. Unmarshal(data) = {} \/ Unmarshal(data) = Elements(List(v))
    BY <1>5, <2>1, <2>2, LayoutRead
  <2>4. ASSUME ~torn[i], \A t \in States : ~Open(t, i)
        PROVE  \E w \in 1 .. version : Unmarshal(data) = Elements(List(w))
    <3>1. \A t \in States : ~Writes(t, i)
      BY <2>4 DEF Writes, Open
    <3>2. file[i].there
      BY <1>1 DEF Wholes, GetWhole
    <3>3. PICK w \in 1 .. version : Layout(data, w) /\ Len(data) = Size[w] + 1
      BY <1>5, <1>6, <2>4, <3>1, <3>2 DEF Wholes, OneWriter
    <3>4. w \in Versions
      BY PublishedVersions
    <3>5. Unmarshal(data) = Elements(List(w))
      BY <1>5, <3>3, <3>4, LayoutRead
    <3>6. QED
      BY <3>5
  <2>5. QED
    BY <2>1, <2>3, <2>4
<1> HIDE DEF data
<1>7. ASSUME NEW t \in States
      PROVE  /\ load'[t].at = "read" => file[load'[t].entry].there
             /\ load'[t].at = "compare" /\ ~short[load'[t].entry] =>
                  \/ load'[t].torn /\ load'[t].cached = {}
                  \/ \E v \in 1 .. version : load'[t].cached = Elements(List(v))
  <2>1. CASE t = s
    BY <1>1, <1>6, <2>1
  <2>2. CASE t # s
    BY <1>1, <2>2 DEF Wholes, GetWhole
  <2>3. QED
    BY <2>1, <2>2
<1>8. GetWhole'
  BY <1>1, <1>7 DEF GetWhole, Elements, List
<1>9. QED
  BY <1>3, <1>4, <1>8 DEF Wholes

\* An answer that was not cut is the publication.
LEMMA WholeAnswer ==
  ASSUME NEW v \in Versions, NEW answer, Begins(answer, v), ~(Len(answer) < Size[v])
  PROVE  answer = List(v)
<1>1. /\ List(v) \in Seq(Token) /\ Len(List(v)) = Size[v] /\ Size[v] \in Nat
      /\ answer \in Seq(Token) /\ Len(answer) \in Nat
  BY ListFacts DEF Begins
<1>2. Len(answer) = Len(List(v))
  BY <1>1 DEF Begins
<1>3. \A k \in 1 .. Len(answer) : answer[k] = List(v)[k]
  BY DEF Begins
<1>4. QED
  BY <1>1, <1>2, <1>3

LEMMA FetchWholes ==
  ASSUME TypeOK, Wholes, NEW s \in States, Fetch(s)
  PROVE  Wholes'
<1> DEFINE i == load[s].entry
<1>1. PICK answer \in Seq(Token) :
        /\ Around(s) /\ UNCHANGED <<file, torn>> /\ load[s].at = "fetch"
        /\ Begins(answer, version)
        /\ Len(answer) < Size[version] => short'[i]
        /\ \A j \in Index : short[j] => short'[j]
        /\ \/ /\ load'[s].at = "create" /\ load'[s].entry = i /\ load'[s].list = answer
           \/ Take(s, Elements(answer), "answer")
  BY FetchFacts
<1>2. version' = version /\ \A t \in States \ {s} : load'[t] = load[t]
  BY <1>1 DEF Around
<1>3. Grows
  BY <1>1, <1>2, PublishedVersions DEF Grows
<1>4. CASE Take(s, Elements(answer), "answer")
  <2>1. load'[s].at \in {"done", "stat", "fetch"}
    BY <1>1, <1>4, ElementsFacts, TakeFacts
  <2>2. QED
    BY <1>1, <1>2, <1>3, <2>1, QuietWholes DEF Quiet, Writes
<1>5. CASE load'[s].at = "create" /\ load'[s].entry = i /\ load'[s].list = answer
  <2>1. FileWhole' /\ OneWriter'
    <3>1. \A t \in States, j \in Index :
           /\ Writes(t, j)' <=> Writes(t, j)
           /\ Writes(t, j) => load'[t].offset = load[t].offset
      BY <1>1, <1>2, <1>5 DEF Writes
    <3>2. QED
      BY <1>1, <1>3, <3>1, SameFiles
  <2>2. GetWhole'
    <3>1. \A t \in States : load'[t].at \in {"read", "compare"} => load'[t] = load[t]
      BY <1>2, <1>5
    <3>2. QED
      BY <1>3, <3>1, SameGets
  <2>3. ~short'[i] => answer = List(version) /\ version \in 1 .. version
    BY <1>1, WholeAnswer, PublishedVersions DEF TypeOK
  <2>4. ASSUME NEW t \in States, Setting(t)', ~short'[load'[t].entry]
        PROVE  \E v \in 1 .. version : load'[t].list = List(v)
    <3>1. CASE t = s
      BY <1>5, <2>3, <2>4, <3>1
    <3>2. CASE t # s
      <4>1. load'[t] = load[t] /\ Setting(t)
        BY <1>2, <2>4, <3>2 DEF Setting
      <4>2. load[t].entry \in Index
        BY <4>1, AtEntry DEF Setting
      <4>3. ~short[load[t].entry]
        BY <1>1, <2>4, <4>1, <4>2
      <4>4. QED
        BY <4>1, <4>3 DEF Wholes, SetWhole
    <3>3. QED
      BY <3>1, <3>2
  <2>5. SetWhole'
    BY <1>2, <2>4 DEF SetWhole, List
  <2>6. QED
    BY <2>1, <2>2, <2>5 DEF Wholes
<1>6. QED
  BY <1>1, <1>4, <1>5

\* A Set goes on: the lists that are being written and read stay.
LEMMA SetGoesOn ==
  ASSUME TypeOK, Wholes, Grows, NEW s \in States, Setting(s), Setting(s)', SameSet(s),
         \A t \in States \ {s} : load'[t] = load[t]
  PROVE  SetWhole' /\ GetWhole'
<1>1. \A t \in States : Setting(t)' => /\ Setting(t) /\ load'[t].entry = load[t].entry
                                       /\ load'[t].list = load[t].list
  BY DEF Setting, SameSet
<1>2. \A t \in States : load'[t].at \in {"read", "compare"} => load'[t] = load[t]
  BY DEF Setting
<1>3. QED
  BY <1>1, <1>2, SameSets, SameGets

LEMMA SetCreateWholes ==
  ASSUME TypeOK, Wholes, NEW s \in States, SetCreate(s)
  PROVE  Wholes'
<1> DEFINE i == load[s].entry
<1>1. /\ Around(s) /\ short' = short /\ load[s].at = "create"
      /\ \/ /\ file'[i].data = <<>> /\ file'[i].there
            /\ \A j \in Index \ {i} : file'[j] = file[j] /\ torn'[j] = torn[j]
            /\ torn'[i] <=> torn[i] \/ \E t \in States : Open(t, i)
            /\ load'[s].at = "write" /\ load'[s].offset = 0 /\ SameSet(s)
         \/ Take(s, Elements(load[s].list), "answer") /\ UNCHANGED <<file, torn>>
  BY SetCreateFacts
<1>2. version' = version /\ \A t \in States \ {s} : load'[t] = load[t]
  BY <1>1 DEF Around
<1>3. i \in Index /\ load[s].list \in Seq(Token)
  BY <1>1, AtEntry, Numbers
<1>4. Grows
  BY <1>1, <1>2, PublishedVersions DEF Grows
<1>5. CASE Take(s, Elements(load[s].list), "answer") /\ UNCHANGED <<file, torn>>
  <2>1. load'[s].at \in {"done", "stat", "fetch"}
    BY <1>1, <1>3, <1>5, ElementsFacts, TakeFacts
  <2>2. QED
    BY <1>1, <1>2, <1>4, <1>5, <2>1, QuietWholes DEF Quiet, Writes
<1>6. CASE /\ file'[i].data = <<>> /\ file'[i].there
           /\ \A j \in Index \ {i} : file'[j] = file[j] /\ torn'[j] = torn[j]
           /\ torn'[i] <=> torn[i] \/ \E t \in States : Open(t, i)
           /\ load'[s].at = "write" /\ load'[s].offset = 0 /\ SameSet(s)
  <2>1. SetWhole' /\ GetWhole'
    BY <1>1, <1>2, <1>4, <1>6, SetGoesOn DEF Setting
  <2>2. ASSUME NEW j \in Index, ~short[j] PROVE \E v \in 1 .. version : Layout(file'[j].data, v)
    <3>1. PICK v \in 1 .. version : Layout(file[j].data, v)
      BY <2>2 DEF Wholes, FileWhole
    <3>2. v \in Versions
      BY PublishedVersions
    <3>3. Size[v] \in Nat /\ Len(<<>>) = 0
      BY <3>2, ListFacts
    <3>4. Layout(<<>>, v)
      BY <3>3 DEF Layout
    <3>5. CASE j = i
      BY <1>6, <3>4, <3>5
    <3>6. CASE j # i
      BY <1>6, <3>1, <3>6
    <3>7. QED
      BY <3>5, <3>6
  <2>3. FileWhole'
    BY <1>1, <1>2, <2>2 DEF FileWhole, Layout, List, End
  <2>4. \A t \in States, j \in Index : Writes(t, j)' <=> Writes(t, j) \/ (t = s /\ j = i)
    BY <1>1, <1>2, <1>6 DEF Writes, SameSet
  <2>5. ASSUME NEW j \in Index, ~short[j], ~torn'[j]
        PROVE  /\ \A t, u \in States : Writes(t, j)' /\ Writes(u, j)' => t = u
               /\ \A t \in States : Writes(t, j)' => file'[j].data = <<>> /\ load'[t].offset = 0
               /\ file'[j].there /\ (\A t \in States : ~Writes(t, j)') =>
                    \E v \in 1 .. version :
                       Layout(file'[j].data, v) /\ Len(file'[j].data) = Size[v] + 1
    <3>1. CASE j = i
      <4>1. \A t \in States : ~Writes(t, i)
        BY <1>6, <2>5, <3>1 DEF Writes, Open
      <4>2. \A t \in States : Writes(t, j)' <=> t = s
        BY <2>4, <3>1, <4>1
      <4>3. QED
        BY <1>6, <3>1, <4>2
    <3>2. CASE j # i
      <4>1. /\ file'[j] = file[j] /\ ~torn[j] /\ \A t \in States : Writes(t, j)' <=> Writes(t, j)
            /\ \A t \in States : Writes(t, j) => load'[t].offset = load[t].offset
        BY <1>1, <1>2, <1>6, <2>4, <2>5, <3>2 DEF Writes
      <4>2. QED
        BY <2>5, <4>1 DEF Wholes, OneWriter
    <3>3. QED
      BY <3>1, <3>2
  <2>6. OneWriter'
    BY <1>1, <1>2, <2>5 DEF OneWriter, Layout, List, End
  <2>7. QED
    BY <2>1, <2>3, <2>6 DEF Wholes
<1>7. QED
  BY <1>1, <1>5, <1>6

LEMMA SetWriteWholes ==
  ASSUME TypeOK, Wholes, NEW s \in States, SetWrite(s)
  PROVE  Wholes'
<1> DEFINE i == load[s].entry
           from == load[s].offset
           full == Len(load[s].list) + 1
           own == SubSeq(Marshal(load[s].list), 1, from)
<1>1. PICK n \in from .. full :
        /\ Around(s) /\ load[s].at = "write"
        /\ load'[s].at \in {"write", "touch"} /\ SameSet(s)
        /\ file'[i].data = Written(file[i].data, Marshal(load[s].list), load[s].offset, n)
        /\ file'[i].there = file[i].there
        /\ \A j \in Index \ {i} : file'[j] = file[j] /\ torn'[j] = torn[j] /\ short'[j] = short[j]
        /\ torn'[i] <=> torn[i] \/ n < full
        /\ short'[i] <=> short[i] \/ ((n < full \/ from > 0) /\ file[i].data # own)
        /\ n = full => load'[s].at = "touch"
  BY SetWriteFacts
<1>2. version' = version /\ \A t \in States \ {s} : load'[t] = load[t]
  BY <1>1 DEF Around
<1>3. i \in Index /\ load[s].list \in Seq(Token) /\ file[i].data \in Seq(Token)
      /\ full \in Nat /\ from \in Nat /\ n \in Nat
  <2>1. /\ i \in Index /\ load[s].list \in Seq(Token) /\ file[i].data \in Seq(Token)
        /\ from \in Nat
    BY <1>1, AtEntry, Numbers
  <2>2. QED
    BY <2>1
<1>4. Grows
  BY <1>1, <1>2, PublishedVersions DEF Grows
<1>5. SetWhole' /\ GetWhole'
  BY <1>1, <1>2, <1>4, SetGoesOn DEF Setting
<1>6. ASSUME ~short'[i]
      PROVE  \E v \in 1 .. version :
                /\ Layout(file'[i].data, v)
                /\ n = full /\ file[i].data = own => Len(file'[i].data) = Size[v] + 1
  <2>1. ~short[i] /\ ((n = full /\ from = 0) \/ file[i].data = own)
    <3>1. ~(short[i] \/ ((n < full \/ from > 0) /\ file[i].data # own))
      BY <1>1, <1>6, Zenon
    <3> HIDE DEF own, full, from
    <3>2. n \in Nat /\ from \in Nat /\ full \in Nat /\ n <= full
      <4>1. n \in from .. full /\ n \in Nat /\ from \in Nat /\ full \in Nat
        BY <1>3
      <4>2. QED
        BY <4>1
    <3>3. ~(n < full \/ from > 0) => n = full /\ from = 0
      BY <3>2
    <3>4. QED
      BY <3>1, <3>3, Zenon
  <2>2. PICK v \in 1 .. version : load[s].list = List(v)
    BY <1>1, <2>1 DEF Wholes, SetWhole, Setting
  <2>3. v \in Versions
    BY PublishedVersions
  <2>4. /\ file'[i].data = Written(file[i].data, Marshal(List(v)), from, n)
        /\ own = SubSeq(Marshal(List(v)), 1, from) /\ full = Len(List(v)) + 1
        /\ n \in from .. Len(List(v)) + 1
    BY <1>1, <2>2
  <2> HIDE DEF own, full, from
  <2>5. /\ Layout(file'[i].data, v)
        /\ n = full /\ file[i].data = own => Len(file'[i].data) = Size[v] + 1
    BY <1>3, <2>1, <2>3, <2>4, LayoutWrite
  <2>6. QED
    BY <2>5
<1>0. from = 0 => own = <<>>
  <2>1. Marshal(load[s].list) \in Seq(Token)
    BY <1>3, MarshalFacts
  <2>2. QED
    BY <2>1
<1> HIDE DEF full, own
<1>7. FileWhole'
  <2>1. ASSUME NEW j \in Index, ~short'[j] PROVE \E v \in 1 .. version : Layout(file'[j].data, v)
    <3>1. CASE j = i
      BY <1>6, <2>1, <3>1
    <3>2. CASE j # i
      BY <1>1, <2>1, <3>2 DEF Wholes, FileWhole
    <3>3. QED
      BY <3>1, <3>2
  <2>2. QED
    BY <1>2, <2>1 DEF FileWhole, Layout, List, End
<1>8. OneWriter'
  <2>1. \A t \in States, j \in Index : Writes(t, j)' => Writes(t, j)
    BY <1>1, <1>2 DEF Writes, SameSet
  <2>2. \A t \in States, j \in Index \ {i} : Writes(t, j)' <=> Writes(t, j)
    BY <1>1, <1>2 DEF Writes, SameSet
  <2>3. ASSUME NEW j \in Index, ~short'[j], ~torn'[j]
        PROVE  /\ \A t, u \in States : Writes(t, j)' /\ Writes(u, j)' => t = u
               /\ \A t \in States : Writes(t, j)' => file'[j].data = <<>> /\ load'[t].offset = 0
               /\ file'[j].there /\ (\A t \in States : ~Writes(t, j)') =>
                    \E v \in 1 .. version :
                       Layout(file'[j].data, v) /\ Len(file'[j].data) = Size[v] + 1
    <3>1. CASE j = i
      <4>1. ~short[i] /\ ~torn[i] /\ n = full
        BY <1>1, <1>3, <2>3, <3>1
      <4>2. Writes(s, i) /\ file[i].data = own /\ \A t \in States : Writes(t, i) => t = s
        BY <1>0, <1>1, <1>3, <4>1 DEF Wholes, OneWriter, Writes
      <4>3. ~Writes(s, j)'
        BY <1>1, <4>1 DEF Writes
      <4>4. \A t \in States : ~Writes(t, j)'
        BY <2>1, <3>1, <4>2, <4>3
      <4>5. \E v \in 1 .. version : Layout(file'[i].data, v) /\ Len(file'[i].data) = Size[v] + 1
        BY <1>6, <2>3, <3>1, <4>1, <4>2
      <4>6. QED
        BY <3>1, <4>4, <4>5
    <3>2. CASE j # i
      <4>1. /\ file'[j] = file[j] /\ ~torn[j] /\ ~short[j]
            /\ \A t \in States : Writes(t, j)' <=> Writes(t, j)
            /\ \A t \in States : Writes(t, j) => load'[t].offset = load[t].offset
        BY <1>1, <1>2, <2>2, <2>3, <3>2 DEF Writes
      <4>2. QED
        BY <2>3, <4>1 DEF Wholes, OneWriter
    <3>3. QED
      BY <3>1, <3>2
  <2>4. QED
    BY <1>2, <2>3 DEF OneWriter, Layout, List, End
<1>9. QED
  BY <1>5, <1>7, <1>8 DEF Wholes

LEMMA SetTouchWholes ==
  ASSUME TypeOK, Wholes, NEW s \in States, SetTouch(s)
  PROVE  Wholes'
<1> DEFINE i == load[s].entry
<1>1. /\ Around(s) /\ UNCHANGED <<torn, short>> /\ load[s].at = "touch"
      /\ file'[i].data = file[i].data /\ file'[i].there = file[i].there
      /\ \A j \in Index \ {i} : file'[j] = file[j]
      /\ Take(s, Elements(load[s].list), "answer")
  BY SetTouchFacts
<1>2. version' = version /\ \A t \in States \ {s} : load'[t] = load[t]
  BY <1>1 DEF Around
<1>3. load[s].list \in Seq(Token)
  BY Numbers
<1>4. load'[s].at \in {"done", "stat", "fetch"}
  BY <1>1, <1>3, ElementsFacts, TakeFacts
<1>5. Grows
  BY <1>1, <1>2, PublishedVersions DEF Grows
<1>6. FileWhole' /\ OneWriter'
  <2>1. \A t \in States, j \in Index :
           /\ Writes(t, j)' <=> Writes(t, j)
           /\ Writes(t, j) => load'[t].offset = load[t].offset
    BY <1>1, <1>2, <1>4 DEF Writes
  <2>2. \A j \in Index : file'[j].data = file[j].data /\ file'[j].there = file[j].there
    BY <1>1
  <2>3. QED
    BY <1>5, <2>1, <2>2, SameFiles
<1>7. SetWhole'
  <2>1. \A t \in States : Setting(t)' => Setting(t) /\ load'[t] = load[t]
    BY <1>2, <1>4 DEF Setting
  <2>2. QED
    BY <1>5, <2>1, SameSets
<1>8. GetWhole'
  BY <1>2, <1>4, <1>5, SameGets
<1>9. QED
  BY <1>6, <1>7, <1>8 DEF Wholes

\* s is in no Get and no Set after these.
LEMMA LeaveWholes ==
  ASSUME TypeOK, Wholes, NEW s \in States,
         ReadFail(s) \/ Compare(s) \/ FetchFail(s) \/ FetchHang(s)
  PROVE  Wholes'
<1>1. load[s].cached \subseteq Token
  BY DEF TypeOK, Load
<1>2. /\ Around(s) /\ UNCHANGED <<file, torn, short>> /\ load[s].at \in {"read", "compare", "fetch"}
  BY ReadFailFacts, CompareFacts, FetchFailFacts, FetchHangFacts
<1>3. Quiet(s)
  <2>1. CASE Compare(s)
    <3> DEFINE f == IF load[s].torn THEN "torn cache" ELSE "cache"
    <3>1. f \in {"cache", "torn cache", "answer", "error"}
      OBVIOUS
    <3>2. load'[s].at = "fetch" \/ Take(s, load[s].cached, f)
      BY <2>1, CompareFacts
    <3> HIDE DEF f
    <3>3. QED
      BY <1>1, <1>2, <3>1, <3>2, TakeFacts DEF Quiet
  <2>2. CASE FetchFail(s)
    BY <2>2, FetchFailFacts, TakeFacts DEF Quiet
  <2>3. CASE FetchHang(s)
    BY <2>3, FetchHangFacts DEF Quiet
  <2>4. CASE ReadFail(s)
    BY <2>4, ReadFailFacts DEF Quiet
  <2>5. QED
    BY <2>1, <2>2, <2>3, <2>4
<1>4. Grows
  BY <1>2, PublishedVersions DEF Grows, Around
<1>5. QED
  BY <1>2, <1>3, <1>4, QuietWholes DEF Around, Writes

LEMMA GrowsStep == TypeOK /\ [Next]_vars => Grows
<1> SUFFICES ASSUME TypeOK, [Next]_vars PROVE Grows
  OBVIOUS
<1>1. /\ version \in Nat
  BY PublishedVersions
<1>2. ASSUME UNCHANGED <<version, file, torn, short>> PROVE Grows
  BY <1>1, <1>2 DEF Grows
<1>3. CASE Publish
  BY <1>1, <1>3, PublishFacts DEF Grows
<1>4. ASSUME NEW s \in States, Crash(s) PROVE Grows
  BY <1>1, <1>4, CrashFacts DEF Grows
<1>5. ASSUME NEW s \in States, Fetch(s) PROVE Grows
  BY <1>1, <1>5, FetchFacts DEF Grows, Around
<1>6. ASSUME NEW s \in States, SetCreate(s) PROVE Grows
  <2>1. version' = version /\ short' = short
    BY <1>6, SetCreateFacts DEF Around
  <2>2. \A i \in Index : /\ torn[i] => torn'[i]
                         /\ file[i].there => file'[i].there
    BY <1>6, SetCreateFacts
  <2>3. QED
    BY <1>1, <2>1, <2>2 DEF Grows
<1>7. ASSUME NEW s \in States, SetWrite(s) PROVE Grows
  <2>1. version' = version
    BY <1>7 DEF SetWrite
  <2>2. \A i \in Index : /\ torn[i] => torn'[i]
                         /\ short[i] => short'[i]
                         /\ file[i].there => file'[i].there
    BY <1>7, SetWriteFacts
  <2>3. QED
    BY <1>1, <2>1, <2>2 DEF Grows
<1>8. ASSUME NEW s \in States, SetTouch(s) PROVE Grows
  BY <1>1, <1>8, SetTouchFacts DEF Grows, Around
<1>9. ASSUME NEW s \in States, Renew(s) \/ Ask(s) \/ Stat(s) \/ Read(s) \/ ReadFail(s)
                               \/ Compare(s) \/ FetchFail(s) \/ FetchHang(s)
      PROVE  Grows
  BY <1>2, <1>9 DEF Renew, Ask, Stat, Read, ReadFail, Compare, FetchFail, FetchHang
<1>10. CASE Tick \/ UNCHANGED vars
  BY <1>2, <1>10 DEF Tick, vars
<1>11. QED
  BY <1>3, <1>4, <1>5, <1>6, <1>7, <1>8, <1>9, <1>10 DEF Next, LoadStep

LEMMA WholesStep == TypeOK /\ Wholes /\ [Next]_vars => Wholes'
<1> SUFFICES ASSUME TypeOK, Wholes, [Next]_vars PROVE Wholes'
  OBVIOUS
<1>1. Grows
  BY GrowsStep
<1>2. CASE Tick \/ Publish \/ UNCHANGED vars
  <2>1. file' = file /\ load' = load
    BY <1>2 DEF Tick, Publish, vars
  <2>2. QED
    BY <1>1, <2>1, QuietWholes
<1>3. ASSUME NEW s \in States, Crash(s) PROVE Wholes'
  <2>1. /\ file' = file /\ load'[s] = Idle /\ \A t \in States \ {s} : load'[t] = load[t]
        /\ \A i \in Index : torn'[i] <=> torn[i] \/ Open(s, i)
    BY <1>3, CrashFacts
  <2>2. Quiet(s) /\ \A i \in Index : Writes(s, i) => torn'[i]
    BY <2>1, IdleFacts DEF Quiet, Writes, Open
  <2>3. QED
    BY <1>1, <2>1, <2>2, QuietWholes
<1>4. ASSUME NEW s \in States, Renew(s) PROVE Wholes'
  <2>1. /\ file' = file /\ load'[s] = Idle /\ \A t \in States \ {s} : load'[t] = load[t]
        /\ load[s].at = "done"
    BY <1>4, RenewFacts
  <2>2. Quiet(s) /\ \A i \in Index : ~Writes(s, i)
    BY <2>1, IdleFacts DEF Quiet, Writes
  <2>3. QED
    BY <1>1, <2>1, <2>2, QuietWholes
<1>5. ASSUME NEW s \in States, LoadStep(s) PROVE Wholes'
  BY <1>5, StatWholes, ReadWholes, FetchWholes, SetCreateWholes, SetWriteWholes, SetTouchWholes,
     LeaveWholes DEF LoadStep
<1>6. ASSUME NEW s \in States, Ask(s) PROVE Wholes'
  <2>1. /\ file' = file
        /\ \A t \in States : load'[t] = load[t] \/ (load[t].at = "idle" /\ load'[t] = Start(1))
    BY <1>6, AskFacts
  <2>2. Start(1).at \in {"done", "stat", "fetch"}
    BY StartFacts
  <2>3. \A t \in States : load'[t] = load[t] \/ (Quiet(t) /\ \A i \in Index : ~Writes(t, i))
    BY <2>1, <2>2 DEF Quiet, Writes
  <2>4. QED
    BY <1>1, <2>1, <2>3, QuietWholes
<1>7. QED
  BY <1>2, <1>3, <1>4, <1>5, <1>6 DEF Next

---------------------------------------------------------------------------
(* What the States take *)

\* ListsWhole, with the publication named.
Uses ==
    \A s \in States, i \in Index :
        ~short[i] => \/ used[s][i].list = {} /\ used[s][i].from \notin {"cache", "answer"}
                     \/ \E v \in 1 .. version : used[s][i].list = Elements(List(v))

LEMMA KeepUses ==
  ASSUME Uses, Grows,
         \A t \in States, i \in Index :
            \/ used'[t][i] = used[t][i]
            \/ used'[t][i].list = {} /\ used'[t][i].from = "nothing"
  PROVE  Uses'
<1>1. ASSUME NEW t \in States, NEW i \in Index, ~short'[i]
      PROVE  \/ used'[t][i].list = {} /\ used'[t][i].from \notin {"cache", "answer"}
             \/ \E v \in 1 .. version' : used'[t][i].list = Elements(List(v))
  BY <1>1, GrowingVersions DEF Uses, Grows
<1>2. QED
  BY <1>1 DEF Uses, Elements, List

LEMMA TakeUses ==
  ASSUME TypeOK, Uses, Grows, NEW s \in States, load[s].at \notin {"idle", "done"},
         NEW l, NEW f, Take(s, l, f),
         ~short'[load[s].entry] => \/ l = {} /\ f \notin {"cache", "answer"}
                                   \/ \E v \in 1 .. version : l = Elements(List(v))
  PROVE  Uses'
<1> DEFINE rec == [list |-> l, from |-> f]
<1>1. rec.list = l /\ rec.from = f
  OBVIOUS
<1> HIDE DEF rec
<1>2. /\ \A t \in States \ {s} : used'[t] = used[t]
      /\ used'[s][load[s].entry] = rec
      /\ \A i \in Index \ {load[s].entry} : used'[s][i] = used[s][i]
  BY TakeUsed DEF rec
<1>3. ASSUME NEW t \in States, NEW i \in Index, ~short'[i]
      PROVE  \/ used'[t][i].list = {} /\ used'[t][i].from \notin {"cache", "answer"}
             \/ \E v \in 1 .. version' : used'[t][i].list = Elements(List(v))
  <2>1. CASE t = s /\ i = load[s].entry
    BY <1>1, <1>2, <1>3, <2>1, GrowingVersions
  <2>2. CASE ~(t = s /\ i = load[s].entry)
    <3>1. used'[t][i] = used[t][i]
      BY <1>2, <2>2
    <3>2. QED
      BY <1>3, <3>1, GrowingVersions DEF Uses, Grows
  <2>3. QED
    BY <2>1, <2>2
<1>4. QED
  BY <1>3 DEF Uses, Elements, List

LEMMA UsesStep == TypeOK /\ Wholes /\ Uses /\ [Next]_vars => Uses'
<1> SUFFICES ASSUME TypeOK, Wholes, Uses, [Next]_vars PROVE Uses'
  OBVIOUS
<1>1. Grows
  BY GrowsStep
<1>2. ASSUME used' = used PROVE Uses'
  BY <1>1, <1>2, KeepUses
<1>3. ASSUME NEW s \in States, Crash(s) \/ Renew(s) PROVE Uses'
  <2>1. /\ \A t \in States \ {s} : used'[t] = used[t]
        /\ \A i \in Index : used'[s][i].list = {} /\ used'[s][i].from = "nothing"
    BY <1>3, CrashFacts, RenewFacts
  <2>2. \A t \in States, i \in Index : \/ used'[t][i] = used[t][i]
                                       \/ used'[t][i].list = {} /\ used'[t][i].from = "nothing"
    BY <2>1
  <2>3. QED
    BY <1>1, <2>2, KeepUses
<1>4. ASSUME NEW s \in States, Compare(s) PROVE Uses'
  <2> DEFINE f == IF load[s].torn THEN "torn cache" ELSE "cache"
             i == load[s].entry
  <2>1. /\ load[s].at = "compare" /\ short' = short
        /\ used' = used \/ Take(s, load[s].cached, f)
    BY <1>4, CompareFacts
  <2>2. ~short[i] => \/ load[s].torn /\ load[s].cached = {}
                     \/ \E v \in 1 .. version : load[s].cached = Elements(List(v))
    BY <2>1 DEF Wholes, GetWhole
  <2>3. ~short'[i] => \/ load[s].cached = {} /\ f \notin {"cache", "answer"}
                      \/ \E v \in 1 .. version : load[s].cached = Elements(List(v))
    BY <2>1, <2>2
  <2> HIDE DEF f
  <2>4. QED
    BY <1>1, <1>2, <2>1, <2>3, TakeUses
<1>5. ASSUME NEW s \in States, Fetch(s) PROVE Uses'
  <2>1. PICK answer \in Seq(Token) :
          /\ load[s].at = "fetch" /\ Begins(answer, version)
          /\ Len(answer) < Size[version] => short'[load[s].entry]
          /\ used' = used \/ Take(s, Elements(answer), "answer")
    BY <1>5, FetchFacts
  <2>2. version \in Versions /\ version \in 1 .. version
    BY PublishedVersions DEF TypeOK
  <2>3. ~short'[load[s].entry] => answer = List(version)
    BY <2>1, <2>2, WholeAnswer
  <2>4. QED
    BY <1>1, <1>2, <2>1, <2>2, <2>3, TakeUses
<1>6. ASSUME NEW s \in States, FetchFail(s) PROVE Uses'
  <2>1. load[s].at = "fetch" /\ Take(s, {}, "error")
    BY <1>6 DEF FetchFail
  <2>2. QED
    BY <1>1, <2>1, TakeUses
<1>7. ASSUME NEW s \in States, SetCreate(s) \/ SetTouch(s) PROVE Uses'
  <2>1. /\ load[s].at \in {"create", "touch"} /\ short' = short
        /\ used' = used \/ Take(s, Elements(load[s].list), "answer")
    BY <1>7, SetCreateFacts, SetTouchFacts
  <2>2. ~short[load[s].entry] => \E v \in 1 .. version : load[s].list = List(v)
    BY <2>1 DEF Wholes, SetWhole, Setting
  <2>3. ~short'[load[s].entry] => \E v \in 1 .. version : Elements(load[s].list) = Elements(List(v))
    BY <2>1, <2>2
  <2>4. QED
    BY <1>1, <1>2, <2>1, <2>3, TakeUses
<1>8. ASSUME NEW s \in States, Ask(s) \/ Stat(s) \/ Read(s) \/ ReadFail(s) \/ FetchHang(s)
                               \/ SetWrite(s)
      PROVE  Uses'
  BY <1>2, <1>8 DEF Ask, Stat, Read, ReadFail, FetchHang, SetWrite
<1>9. CASE Tick \/ Publish \/ UNCHANGED vars
  BY <1>2, <1>9 DEF Tick, Publish, vars
<1>10. QED
  BY <1>3, <1>4, <1>5, <1>6, <1>7, <1>8, <1>9 DEF Next, LoadStep

LEMMA InitUses == Init => Uses
<1> SUFFICES ASSUME Init PROVE Uses
  OBVIOUS
<1>1. \A s \in States, i \in Index : used[s][i].list = {} /\ used[s][i].from = "nothing"
  BY DEF Init, Nothing
<1>2. QED
  BY <1>1 DEF Uses

\* TypeOK, Wholes and Uses hold in every state.
THEOREM WholesInvariance == Spec => [](TypeOK /\ Wholes /\ Uses)
BY InitTypes, TypeStep, InitWholes, WholesStep, InitUses, UsesStep, PTL DEF Spec

\* Sets that overlap on one cache file, and crashes inside them, never make a
\* State use a list that mixes two publications or holds a part of one, nor
\* take an empty one from a fetch or a finished file unless it was published.
THEOREM ListsWholeProved == Spec => []ListsWhole
<1>1. Uses => ListsWhole
  BY DEF Uses, ListsWhole
<1>2. QED
  BY <1>1, WholesInvariance, PTL
===========================================================================
