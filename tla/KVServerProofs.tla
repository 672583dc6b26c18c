--------------------------- MODULE KVServerProofs ---------------------------
(***************************************************************************)
(* Proofs about KVServer, for any threads, keys, values, calls, deaths and *)
(* lives of the process, and any number of SIGINTs: the types, and what    *)
(* the file holds between two lives.                                       *)
(***************************************************************************)
EXTENDS KVServer, SequenceTheorems, TLAPS

-----------------------------------------------------------------------------
\* Types.

\* A map from keys to lists of values, as IsMap of TypeOK.
Map(f) == DOMAIN f \subseteq Keys /\ \A k \in DOMAIN f : f[k] \in Seq(Values)

\* A request's parts are of their sets.
LEMMA RequestHas ==
  ASSUME NEW r \in Requests
  PROVE  r.key \in Keys /\ (r.op = "put" => r.value \in Values)
BY DEF Requests

\* The operations of the store take maps to maps.
LEMMA OpsType ==
  ASSUME NEW f, Map(f), NEW k \in Keys
  PROVE  Map(EraseFrom(f, k)) /\ \A v \in Values : Map(PutInto(f, k, v))
<1>1. Map(EraseFrom(f, k))
  BY DEF Map, EraseFrom
<1>2. ASSUME NEW v \in Values PROVE Map(PutInto(f, k, v))
  <2>1. Lookup(f, k) \in Seq(Values)
    BY DEF Map, Lookup
  <2>2. Append(Lookup(f, k), v) \in Seq(Values)
    BY <2>1, AppendProperties
  <2> DEFINE u == PutInto(f, k, v)
  <2>3. /\ DOMAIN u = DOMAIN f \cup {k}
        /\ \A x \in DOMAIN u : u[x] = IF x = k THEN Append(Lookup(f, k), v) ELSE f[x]
    BY DEF PutInto
  <2> HIDE DEF u
  <2>4. ASSUME NEW x \in DOMAIN u PROVE u[x] \in Seq(Values)
    BY <2>2, <2>3 DEF Map
  <2>5. QED
    BY <2>3, <2>4 DEF Map, u
<1>3. QED
  BY <1>1, <1>2

\* Loading a map into a map makes a map.
LEMMA LoadType ==
  ASSUME NEW f, NEW g, Map(f), Map(g)
  PROVE  Map(LoadInto(f, g))
BY DEF Map, LoadInto

\* The map a process starts with.
LEMMA EmptyType == Map(EmptyStore)
BY DEF Map, EmptyStore

\* What a torn file loads as is a map, too.
LEMMA TornType ==
  ASSUME NEW s, Map(s), NEW f \in Torn(s)
  PROVE  Map(f)
<1> DEFINE Whole == {[k \in D |-> s[k]] : D \in SUBSET DOMAIN s}
           Cut(w, x) == {LoadInto(w, [k \in {x} |-> p]) : p \in Prefixes(s[x])}
<1>1. f \in Whole \cup UNION {UNION {Cut(w, x) : x \in DOMAIN s \ DOMAIN w} : w \in Whole}
  BY DEF Torn
<1>2. \A w \in Whole : Map(w)
  BY DEF Map
<1>3. ASSUME NEW w \in Whole, NEW x \in DOMAIN s, NEW p \in Prefixes(s[x])
      PROVE  Map(LoadInto(w, [k \in {x} |-> p]))
  <2>1. s[x] \in Seq(Values) /\ x \in Keys
    BY DEF Map
  <2>2. p \in Seq(Values)
    <3> DEFINE q == s[x]
    <3>1. q \in Seq(Values) /\ p \in {SubSeq(q, 1, l) : l \in 0 .. Len(q)}
      BY <2>1 DEF Prefixes
    <3> HIDE DEF q
    <3>2. PICK l \in 0 .. Len(q) : p = SubSeq(q, 1, l)
      BY <3>1
    <3>3. \A i \in 1 .. l : q[i] \in Values
      BY <3>1, ElementOfSeq
    <3>4. QED
      BY <3>1, <3>2, <3>3, SubSeqProperties
  <2>3. Map([k \in {x} |-> p])
    BY <2>1, <2>2 DEF Map
  <2>4. QED
    BY <1>2, <2>3, LoadType
<1>4. CASE f \in Whole
  BY <1>2, <1>4
<1>5. CASE f \notin Whole
  <2> DEFINE All(w) == UNION {Cut(w, x) : x \in DOMAIN s \ DOMAIN w}
  <2>1. PICK w \in Whole : f \in All(w)
    <3> HIDE DEF Whole, All
    <3>1. f \in UNION {All(w) : w \in Whole}
      BY <1>1, <1>5 DEF All
    <3>2. QED
      BY <3>1
  <2> HIDE DEF Whole
  <2>2. PICK x \in DOMAIN s \ DOMAIN w : f \in Cut(w, x)
    BY <2>1
  <2>3. PICK p \in Prefixes(s[x]) : f = LoadInto(w, [k \in {x} |-> p])
    BY <2>2
  <2>4. QED
    BY <1>3, <2>3
<1>6. QED
  BY <1>4, <1>5

-----------------------------------------------------------------------------
\* Type correctness.

\* TypeOK, and a thread that is inside a call has a request.
Types ==
  /\ phase \in {"down", "starting", "up"}
  /\ Map(kv_store_) /\ Map(file)
  /\ lock_ \in Threads \cup {NoThread}
  /\ freed \in BOOLEAN /\ torn \in BOOLEAN
  /\ pc \in [Threads -> {"idle", "lock", "body", "notify", "answer"}]
  /\ request \in [Threads -> Requests \cup {NoRequest}]
  /\ handler \in [Hosts -> {"none", "open", "collect", "write", "free", "exit"}]
  /\ DOMAIN allPairs = Hosts /\ \A h \in Hosts : Map(allPairs[h])
  /\ \A t \in Threads : pc[t] # "idle" => request[t] # NoRequest

\* The types hold before the first life.
LEMMA TypesInit == Init => Types
BY EmptyType DEF Init, Types

\* What is written over a map in a file loads as a map.
LEMMA OverType ==
  ASSUME Map(file), NEW f, Map(f), NEW o \in Over(f)
  PROVE  Map(o)
<1>1. PICK D \in SUBSET DOMAIN file : o = LoadInto(f, [k \in D |-> file[k]])
  BY DEF Over
<1>2. Map([k \in D |-> file[k]])
  BY DEF Map
<1>3. QED
  BY <1>1, <1>2, LoadType

\* So does what is written in part.
LEMMA PartType ==
  ASSUME Types, NEW h \in Hosts, NEW o \in Part(h)
  PROVE  Map(o)
<1>1. PICK f \in Torn(allPairs[h]) : o \in Over(f)
  BY DEF Part
<1>2. Map(allPairs[h]) /\ Map(file)
  BY DEF Types
<1>3. Map(f)
  BY <1>2, TornType
<1>4. QED
  BY <1>1, <1>2, <1>3, OverType

\* What the end of the process leaves in memory.
LEMMA EndTypes ==
  ASSUME Types, End, Map(file'), torn' \in BOOLEAN
  PROVE  Types'
BY EmptyType DEF Types, End

\* The process stops: the types hold of what it leaves in the file.
LEMMA StopTypes ==
  ASSUME Types, Stop
  PROVE  Types'
<1>1. Map(file') /\ torn' \in BOOLEAN
  BY PartType DEF Stop, InSave, Types
<1>2. QED
  BY <1>1, EndTypes DEF Stop

\* Every step of the specification keeps the types.
LEMMA TypesNext == Types /\ [Next]_vars => Types'
<1> SUFFICES ASSUME Types, [Next]_vars PROVE Types'
  OBVIOUS
<1> USE DEF bounds
<1>1. CASE UNCHANGED vars
  BY <1>1 DEF vars, Types
<1>2. CASE Start
  BY <1>2 DEF Start, Types
<1>3. CASE Load
  <2>1. Map(file)
    BY DEF Types
  <2>2. Map(LoadInto(EmptyStore, file))
    BY <2>1, EmptyType, LoadType
  <2>3. \A f \in Torn(file) : Map(f)
    BY <2>1, TornType
  <2>4. Map(kv_store_')
    BY <1>3, <2>2, <2>3 DEF Load
  <2>5. QED
    BY <1>3, <2>4 DEF Load, Types
<1>4. CASE Kill
  BY <1>4, StopTypes DEF Kill
<1>5. ASSUME NEW t \in Threads, NEW r \in Requests, Invoke(t, r) PROVE Types'
  BY <1>5, ServerAssumption DEF Invoke, Types
<1>6. ASSUME NEW t \in Threads, Serve(t) \/ Notify(t) PROVE Types'
  <2>1. CASE Lock(t)
    BY <2>1 DEF Lock, At, Types
  <2>2. CASE Apply(t)
    <3>1. request[t] \in Requests
      BY <2>2 DEF Apply, At, Types
    <3>2. Map(kv_store_')
      BY <2>2, <3>1, RequestHas, OpsType DEF Apply, Types
    <3>3. QED
      BY <2>2, <3>2 DEF Apply, At, Types
  <2>3. CASE Answer(t)
    BY <2>3 DEF Answer, At, Types
  <2>4. CASE Notify(t)
    BY <2>4 DEF Notify, At, Types
  <2>5. QED
    BY <1>6, <2>1, <2>2, <2>3, <2>4 DEF Serve
<1>7. ASSUME NEW h \in Hosts, Sigint(h) \/ Open(h) \/ Collect(h) \/ Free(h)
      PROVE  Types'
  <2>1. CASE Sigint(h)
    BY <2>1 DEF Sigint, Types
  <2>2. CASE Open(h)
    BY <2>2, EmptyType DEF Open, Goto, Types
  <2>3. CASE Collect(h)
    BY <2>3, EmptyType DEF Collect, Goto, Types
  <2>4. CASE Free(h)
    BY <2>4 DEF Free, Goto, Types
  <2>5. QED
    BY <1>7, <2>1, <2>2, <2>3, <2>4
<1>8. ASSUME NEW h \in Hosts, Write(h) PROVE Types'
  <2>1. Map(file) /\ Map(allPairs[h])
    BY DEF Types
  <2>2. Map(file') /\ torn' \in BOOLEAN
    BY <1>8, <2>1, OverType, PartType DEF Write, Types
  <2>3. QED
    BY <1>8, <2>2 DEF Write, Goto, Types
<1>9. ASSUME NEW h \in Hosts, Exit(h) \/ UseAfterFree(h) PROVE Types'
  BY <1>9, StopTypes DEF Exit, UseAfterFree
<1>10. QED
  BY <1>1, <1>2, <1>3, <1>4, <1>5, <1>6, <1>7, <1>8, <1>9 DEF Next, Handle

\* Every variable has its type, also after a file was torn by a death and
\* loaded as far as it parses (kvstore_server.cpp:72-118).
THEOREM TypeCorrect == Spec => []TypeOK
<1>1. Init => Types
  BY TypesInit
<1>2. Types => TypeOK
  BY DEF Types, TypeOK, Map
<1>3. QED
  BY <1>1, <1>2, TypesNext, PTL DEF Spec

-----------------------------------------------------------------------------
\* The file.

\* A file f that holds nothing but beginnings of the lists of the store s.
PartOf(f, s) == \A k \in DOMAIN f : k \in DOMAIN s /\ IsPrefix(f[k], s[k])

\* A list is the beginning of itself.
LEMMA PrefixItself ==
  ASSUME NEW q \in Seq(Values)
  PROVE  IsPrefix(q, q)
BY DEF IsPrefix

\* The first elements of a list are the beginning of it.
LEMMA PrefixOfList ==
  ASSUME NEW q \in Seq(Values), NEW p \in Prefixes(q)
  PROVE  IsPrefix(p, q)
<1>1. PICK l \in 0 .. Len(q) : p = SubSeq(q, 1, l)
  BY DEF Prefixes
<1>2. \A i \in 1 .. l : q[i] \in Values
  BY ElementOfSeq
<1>3. p \in Seq(Values) /\ Len(p) = l
  BY <1>1, <1>2, SubSeqProperties
<1>4. SubSeq(p, 1, Len(p)) = p
  BY <1>3
<1>5. QED
  BY <1>1, <1>3, <1>4 DEF IsPrefix

\* A map is part of itself.
LEMMA PartItself ==
  ASSUME NEW f, Map(f)
  PROVE  PartOf(f, f)
BY PrefixItself DEF Map, PartOf

\* What is read from the beginning of a file is part of the map it was to hold.
LEMMA TornIsPart ==
  ASSUME NEW s, Map(s), NEW f \in Torn(s)
  PROVE  PartOf(f, s)
<1> DEFINE Whole == {[k \in D |-> s[k]] : D \in SUBSET DOMAIN s}
           Cut(w, x) == {LoadInto(w, [k \in {x} |-> p]) : p \in Prefixes(s[x])}
           All(w) == UNION {Cut(w, x) : x \in DOMAIN s \ DOMAIN w}
<1>1. f \in Whole \cup UNION {All(w) : w \in Whole}
  BY DEF Torn
<1>2. \A w \in Whole : PartOf(w, s)
  BY PrefixItself DEF Map, PartOf
<1>3. ASSUME NEW w \in Whole, NEW x \in DOMAIN s \ DOMAIN w, NEW p \in Prefixes(s[x])
      PROVE  PartOf(LoadInto(w, [k \in {x} |-> p]), s)
  <2>1. IsPrefix(p, s[x])
    BY PrefixOfList DEF Map
  <2> DEFINE u == LoadInto(w, [k \in {x} |-> p])
  <2>2. DOMAIN u = DOMAIN w \cup {x} /\ \A k \in DOMAIN u : u[k] = IF k = x THEN p ELSE w[k]
    BY DEF LoadInto
  <2> HIDE DEF u, Whole
  <2>3. PartOf(u, s)
    BY <1>2, <2>1, <2>2 DEF PartOf
  <2>4. QED
    BY <2>3 DEF u
<1>4. CASE f \in Whole
  BY <1>2, <1>4
<1>5. CASE f \notin Whole
  <2>1. PICK w \in Whole : f \in All(w)
    <3> HIDE DEF Whole, All
    <3>1. QED
      BY <1>1, <1>5
  <2> HIDE DEF Whole
  <2>2. PICK x \in DOMAIN s \ DOMAIN w : f \in Cut(w, x)
    BY <2>1
  <2>3. PICK p \in Prefixes(s[x]) : f = LoadInto(w, [k \in {x} |-> p])
    BY <2>2
  <2>4. QED
    BY <1>3, <2>3
<1>6. QED
  BY <1>4, <1>5

\* Nothing is left of an empty file that is written over.
LEMMA OverIsPart ==
  ASSUME file = EmptyStore, NEW f, NEW s, PartOf(f, s), NEW o \in Over(f)
  PROVE  PartOf(o, s)
<1>1. PICK D \in SUBSET DOMAIN file : o = LoadInto(f, [k \in D |-> file[k]])
  BY DEF Over
<1>2. D = {}
  BY DEF EmptyStore
<1>3. DOMAIN o = DOMAIN f /\ \A k \in DOMAIN o : o[k] = f[k]
  BY <1>1, <1>2 DEF LoadInto
<1>4. QED
  BY <1>3 DEF PartOf

\* The handlers: none before the first signal or without a process, and one at
\* most until the second; each but the last step of it is for a loaded store.
Handlers ==
  /\ signals \in Nat
  /\ phase = "down" \/ signals = 0 => ~freed /\ \A h \in Hosts : handler[h] = "none"
  /\ \A h \in Hosts : handler[h] \in {"open", "collect", "write", "free"} => phase = "up"
  /\ signals <= 1 =>
       /\ \A h, g \in Hosts : handler[h] # "none" /\ handler[g] # "none" => h = g
       /\ freed => \A h \in Hosts : handler[h] \notin {"open", "collect", "write"}

\* Where the snapshot is: in the file, still in the store, or in the copy that
\* is being written.
Snapshot ==
  /\ InSave = {} => file \in seen
  /\ \A h \in Hosts : handler[h] = "collect" => kv_store_ \in seen
  /\ \A h \in Hosts : handler[h] = "write" => allPairs[h] \in seen

\* Until the second signal nothing but parts of the snapshot come to the file.
Parts ==
  /\ InSave = {} => \E s \in seen : PartOf(file, s)
  /\ \A h \in Hosts : handler[h] = "collect" => kv_store_ \in seen /\ file = EmptyStore
  /\ \A h \in Hosts : handler[h] = "write" => allPairs[h] \in seen /\ file = EmptyStore

File == (torn \/ Snapshot) /\ (signals <= 1 => Parts)
FileInv == Types /\ Handlers /\ File

\* The process stops: the file is a snapshot or the life is one that was torn,
\* and with one signal the file is part of a snapshot.
LEMMA StopFile == FileInv /\ Stop => Handlers' /\ File'
<1> SUFFICES ASSUME FileInv, Stop PROVE Handlers' /\ File'
  OBVIOUS
<1>1. /\ phase' = "down" /\ freed' = FALSE /\ UNCHANGED <<signals, seen>>
      /\ \A h \in Hosts : handler'[h] = "none"
  BY DEF Stop, End
<1>2. Handlers'
  BY <1>1 DEF FileInv, Handlers
<1>3. torn' \/ file' \in seen
  <2>1. CASE InSave # {}
    BY <2>1 DEF Stop
  <2>2. CASE InSave = {}
    BY <2>2 DEF Stop, FileInv, File, Snapshot
  <2>3. QED
    BY <2>1, <2>2
<1>4. ASSUME signals <= 1 PROVE \E s \in seen : PartOf(file', s)
  <2>1. CASE UNCHANGED file
    <3>1. CASE InSave = {}
      BY <1>4, <2>1, <3>1 DEF FileInv, File, Parts
    <3>2. CASE InSave # {}
      <4>1. file = EmptyStore /\ \E s : s \in seen
        BY <1>4, <3>2 DEF FileInv, File, Parts, InSave
      <4>2. QED
        BY <2>1, <4>1 DEF PartOf, EmptyStore
    <3>3. QED
      BY <3>1, <3>2
  <2>2. ASSUME NEW h \in Hosts, handler[h] = "write", file' \in Part(h)
        PROVE  \E s \in seen : PartOf(file', s)
    <3>1. allPairs[h] \in seen /\ file = EmptyStore /\ Map(allPairs[h])
      BY <1>4, <2>2 DEF FileInv, File, Parts, Types
    <3>2. PICK f \in Torn(allPairs[h]) : file' \in Over(f)
      BY <2>2 DEF Part
    <3>3. PartOf(f, allPairs[h])
      BY <3>1, TornIsPart
    <3>4. PartOf(file', allPairs[h])
      BY <3>1, <3>2, <3>3, OverIsPart
    <3>5. QED
      BY <3>1, <3>4
  <2>3. QED
    BY <2>1, <2>2 DEF Stop, InSave
<1>5. QED
  BY <1>1, <1>2, <1>3, <1>4 DEF File, Snapshot, Parts

\* A step of a handler between the signal and its exit.
LEMMA HandlerFile ==
  ASSUME FileInv, NEW h \in Hosts, Open(h) \/ Collect(h) \/ Write(h) \/ Free(h)
  PROVE  Handlers' /\ File'
<1> USE DEF bounds
<1>1. /\ handler[h] \in {"open", "collect", "write", "free"}
      /\ \E label \in {"collect", "write", "free", "exit"} :
           handler' = [handler EXCEPT ![h] = label]
      /\ UNCHANGED <<phase, signals, kv_store_>>
      /\ freed' = freed \/ (freed' /\ Free(h))
  BY DEF Open, Collect, Write, Free, Goto
<1>2. /\ phase = "up" /\ signals # 0 /\ signals \in Nat
      /\ handler'[h] \in {"collect", "write", "free", "exit"}
      /\ \A g \in Hosts : g # h => handler'[g] = handler[g]
  BY <1>1 DEF FileInv, Handlers, Types
<1>3. ASSUME signals <= 1
      PROVE  \A g \in Hosts : g # h => handler[g] = "none" /\ handler'[g] = "none"
  BY <1>1, <1>2, <1>3 DEF FileInv, Handlers
<1>4. Handlers'
  <2>1. ASSUME signals <= 1, freed' PROVE handler'[h] = "exit" \/ handler[h] = "free"
    BY <1>1, <2>1 DEF FileInv, Handlers, Free
  <2>2. handler[h] = "free" => handler'[h] = "exit"
    BY <1>1 DEF Open, Collect, Write, Free, Goto, FileInv, Types
  <2>3. QED
    BY <1>1, <1>2, <1>3, <2>1, <2>2 DEF Handlers
<1>5. CASE Open(h)
  <2>1. handler[h] = "open"
    BY <1>5 DEF Open
  <2>2. CASE handler'[h] = "free"
    <3>1. UNCHANGED <<file, seen, torn, allPairs>>
      BY <1>2, <1>5, <2>2 DEF Open, Goto, FileInv, Types
    <3>2. InSave' = InSave
      BY <1>2, <2>1, <2>2 DEF InSave
    <3>3. QED
      BY <1>1, <1>2, <1>4, <2>1, <2>2, <3>1, <3>2 DEF FileInv, File, Snapshot, Parts
  <2>3. CASE handler'[h] # "free"
    <3>1. /\ handler'[h] = "collect" /\ file' = EmptyStore /\ UNCHANGED allPairs
          /\ seen' = {kv_store_} \cup (IF InSave # {} THEN seen ELSE {})
          /\ torn' = (torn \/ freed)
      BY <1>2, <1>5, <2>3 DEF Open, Goto, FileInv, Types
    <3>2. h \in InSave'
      BY <3>1 DEF InSave
    <3>3. \A g \in Hosts : handler[g] \in {"collect", "write"} => seen \subseteq seen'
      BY <3>1 DEF InSave
    <3>4. torn' \/ Snapshot'
      BY <1>1, <1>2, <3>1, <3>2, <3>3 DEF FileInv, File, Snapshot
    <3>5. signals <= 1 => Parts'
      BY <1>1, <1>2, <1>3, <3>1, <3>2 DEF Parts
    <3>6. QED
      BY <1>1, <1>4, <3>4, <3>5 DEF File
  <2>4. QED
    BY <2>2, <2>3
<1>6. CASE Collect(h)
  <2>1. /\ handler[h] = "collect" /\ handler'[h] = "write"
        /\ torn' = (torn \/ freed) /\ UNCHANGED <<file, seen>>
        /\ \A g \in Hosts : g # h => allPairs'[g] = allPairs[g]
        /\ ~freed => allPairs'[h] = kv_store_
    BY <1>6 DEF Collect, Goto, FileInv, Types
  <2>2. h \in InSave'
    BY <2>1 DEF InSave
  <2>3. torn' \/ Snapshot'
    BY <1>1, <1>2, <2>1, <2>2 DEF FileInv, File, Snapshot
  <2>4. ASSUME signals <= 1 PROVE Parts'
    <3>1. ~freed /\ kv_store_ \in seen /\ file = EmptyStore
      BY <2>1, <2>4 DEF FileInv, Handlers, File, Parts
    <3>2. QED
      BY <1>3, <2>1, <2>2, <2>4, <3>1 DEF Parts
  <2>5. QED
    BY <1>1, <1>4, <2>3, <2>4 DEF File
<1>7. CASE Write(h)
  <2>1. /\ handler[h] = "write" /\ handler'[h] = "free" /\ UNCHANGED <<seen, allPairs>>
        /\ torn' \/ (~torn /\ file' = allPairs[h])
    BY <1>7 DEF Write, Goto, FileInv, Types
  <2>2. torn' \/ Snapshot'
    BY <1>1, <1>2, <2>1 DEF FileInv, File, Snapshot
  <2>3. ASSUME signals <= 1 PROVE Parts'
    <3>1. allPairs[h] \in seen /\ file = EmptyStore /\ Map(allPairs[h])
      BY <2>1, <2>3 DEF FileInv, File, Parts, Types
    <3>2. PICK f : PartOf(f, allPairs[h]) /\ file' \in Over(f)
      <4>1. CASE file' \in Over(allPairs[h])
        BY <3>1, <4>1, PartItself
      <4>2. CASE file' \in Part(h)
        <5>1. PICK f \in Torn(allPairs[h]) : file' \in Over(f)
          BY <4>2 DEF Part
        <5>2. QED
          BY <3>1, <5>1, TornIsPart
      <4>3. QED
        BY <1>7, <4>1, <4>2 DEF Write
    <3>3. PartOf(file', allPairs[h])
      BY <3>1, <3>2, OverIsPart
    <3>4. QED
      BY <1>3, <2>1, <2>3, <3>1, <3>3 DEF Parts
  <2>4. QED
    BY <1>1, <1>4, <2>2, <2>3 DEF File
<1>8. CASE Free(h)
  <2>1. handler[h] = "free" /\ handler'[h] = "exit" /\ UNCHANGED <<file, seen, torn, allPairs>>
    BY <1>8 DEF Free, Goto, FileInv, Types
  <2>2. InSave' = InSave
    BY <1>2, <2>1 DEF InSave
  <2>3. QED
    BY <1>1, <1>2, <1>4, <2>1, <2>2 DEF FileInv, File, Snapshot, Parts
<1>9. QED
  BY <1>5, <1>6, <1>7, <1>8

\* Every step keeps the file or the way to it.
LEMMA FileNext == FileInv /\ [Next]_vars => FileInv'
<1> SUFFICES ASSUME FileInv, [Next]_vars
             PROVE  Handlers' /\ File'
  BY TypesNext DEF FileInv
<1> USE DEF bounds
<1>1. CASE UNCHANGED vars
  BY <1>1 DEF vars, FileInv, Handlers, File, Snapshot, Parts, InSave
<1>2. CASE Start
  <2>1. /\ ~freed' /\ \A h \in Hosts : handler'[h] = "none"
        /\ signals' = 0 /\ seen' = {file} /\ file' = file
    BY <1>2 DEF Start, FileInv, Handlers
  <2>2. PartOf(file, file)
    BY PartItself DEF FileInv, Types
  <2>3. QED
    BY <2>1, <2>2 DEF Handlers, File, Snapshot, Parts
<1>3. CASE Load
  <2>1. /\ phase = "starting" /\ phase' = "up"
        /\ UNCHANGED <<handler, signals, freed, seen, file, torn, allPairs>>
    BY <1>3 DEF Load
  <2>2. \A h \in Hosts : handler[h] # "collect"
    BY <2>1 DEF FileInv, Handlers
  <2>3. InSave' = InSave
    BY <2>1 DEF InSave
  <2>4. QED
    BY <2>1, <2>2, <2>3 DEF FileInv, Handlers, File, Snapshot, Parts
<1>4. ASSUME NEW t \in Threads,
             Lock(t) \/ Notify(t) \/ Answer(t) \/ \E r \in Requests : Invoke(t, r)
      PROVE  Handlers' /\ File'
  <2>1. UNCHANGED <<phase, handler, signals, freed, seen, file, torn, allPairs, kv_store_>>
    BY <1>4 DEF Lock, Notify, Answer, Invoke
  <2>2. InSave' = InSave
    BY <2>1 DEF InSave
  <2>3. QED
    BY <2>1, <2>2 DEF FileInv, Handlers, File, Snapshot, Parts
<1>5. ASSUME NEW t \in Threads, Apply(t)
      PROVE  Handlers' /\ File'
  <2>1. /\ UNCHANGED <<phase, handler, signals, freed, file, torn, allPairs>>
        /\ seen \subseteq seen' /\ (Saving => kv_store_' \in seen')
    BY <1>5 DEF Apply
  <2>2. InSave' = InSave
    BY <2>1 DEF InSave
  <2>3. QED
    BY <2>1, <2>2 DEF FileInv, Handlers, File, Snapshot, Parts, Saving
<1>6. ASSUME NEW h \in Hosts, Sigint(h)
      PROVE  Handlers' /\ File'
  <2>1. /\ signals' = signals + 1 /\ phase # "down" /\ handler[h] = "none"
        /\ handler' = [handler EXCEPT ![h] = IF phase = "up" THEN "open" ELSE "exit"]
        /\ UNCHANGED <<phase, freed, seen, file, torn, allPairs, kv_store_>>
    BY <1>6 DEF Sigint, Takes
  <2>2. /\ handler'[h] = IF phase = "up" THEN "open" ELSE "exit"
        /\ \A g \in Hosts : g # h => handler'[g] = handler[g]
    BY <2>1 DEF FileInv, Types
  <2>3. signals \in Nat /\ (signals' <= 1 => signals = 0)
    BY <2>1 DEF FileInv, Handlers
  <2>4. InSave' = InSave
    BY <2>1, <2>2 DEF InSave
  <2>5. Handlers'
    BY <2>1, <2>2, <2>3 DEF FileInv, Handlers
  <2>6. torn' \/ Snapshot'
    BY <2>1, <2>2, <2>4 DEF FileInv, File, Snapshot
  <2>7. signals' <= 1 => Parts'
    BY <2>1, <2>2, <2>3, <2>4 DEF FileInv, File, Parts
  <2>8. QED
    BY <2>5, <2>6, <2>7 DEF File
<1>7. CASE Kill \/ \E h \in Hosts : Exit(h) \/ UseAfterFree(h)
  BY <1>7, StopFile DEF Kill, Exit, UseAfterFree
<1>8. QED
  BY <1>1, <1>2, <1>3, <1>4, <1>5, <1>6, <1>7, HandlerFile DEF Next, Serve, Handle

\* However many calls and SIGINTs a life of the process gets, wherever it is
\* killed, and whether or not its file can be opened, read or written: the file
\* it leaves holds the store of one moment of the save, or what it held before,
\* unless a save failed, was cut short or met another one; and after one SIGINT
\* it holds parts of one such store in any case (kvstore_server.cpp:72-118).
THEOREM FileStaysASnapshot == Spec => []FileIsASnapshot
<1>1. Init => FileInv
  <2>1. PartOf(EmptyStore, EmptyStore)
    BY DEF PartOf, EmptyStore
  <2>2. Init => Handlers /\ File
    BY <2>1 DEF Init, Handlers, File, Snapshot, Parts
  <2>3. QED
    BY <2>2, TypesInit DEF FileInv
<1>2. FileInv /\ [Next]_vars => FileInv'
  BY FileNext
<1>3. FileInv => FileIsASnapshot
  <2>1. FileInv /\ phase = "down" => InSave = {}
    BY DEF FileInv, Handlers, InSave
  <2>2. QED
    BY <2>1 DEF FileInv, File, Snapshot, Parts, PartOf, FileIsASnapshot
<1>4. QED
  BY <1>1, <1>2, <1>3, PTL DEF Spec
=============================================================================
