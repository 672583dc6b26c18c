-------------------------- MODULE CawFunctionsProofs --------------------------
(***************************************************************************)
(* Proofs about CawFunctions, for any workers, users, requests, failing    *)
(* remote calls and crashes: every caw in the store is kept under its own  *)
(* id, by a registered author, in reply to a caw that is there; the lists  *)
(* of FollowUser mirror each other and the list of children matches the    *)
(* caws, up to the requests between two Puts; what a reply with status OK  *)
(* reports is in the store and stays there; and every variable keeps its   *)
(* type, in particular the numbers PostCaw gives.                          *)
(***************************************************************************)
EXTENDS CawFunctions, SequenceTheorems, FiniteSetTheorems, TLAPS

-----------------------------------------------------------------------------
\* What is proved of a store.

CawsAt(i) == [id : {i}, username : Users, parent_id : CawIds \cup {NoParent}]

Registered(f, u) == u \in ToSet(Lookup(f, UsersKey))
Exists(f, p) == p = NoParent \/ CawKey(p) \in DOMAIN f

Sound(f) ==
  /\ Lookup(f, UsersKey) \in Seq(Users)
  /\ \A i : Lookup(f, CawKey(i)) \in Seq(CawsAt(i))
  /\ \A i : \A c \in ToSet(Lookup(f, CawKey(i))) :
       Registered(f, c.username) /\ Exists(f, c.parent_id)

\* From f to g no user and no caw is lost.
Grows(f, g) ==
  /\ \A u : Registered(f, u) => Registered(g, u)
  /\ \A p : Exists(f, p) => Exists(g, p)

\* The keys of different families differ, and so do those of different caws.
LEMMA KeysDiffer ==
  /\ UsersKey # LatestKey
  /\ \A i, j : CawKey(i) = CawKey(j) => i = j
  /\ \A i : CawKey(i) # UsersKey /\ CawKey(i) # LatestKey
  /\ \A i, j : CawKey(i) # ChildrenKey(j) /\ CawKey(i) # FollowingKey(j)
               /\ CawKey(i) # FollowersKey(j)
  /\ \A j : UsersKey # ChildrenKey(j) /\ UsersKey # FollowingKey(j)
            /\ UsersKey # FollowersKey(j)
BY DEF UsersKey, LatestKey, CawKey, ChildrenKey, FollowingKey, FollowersKey

\* A list after Append.
LEMMA ElementsOfAppend ==
  ASSUME NEW S, NEW q \in Seq(S), NEW v
  PROVE  ToSet(Append(q, v)) = ToSet(q) \cup {v}
<1>1. DOMAIN Append(q, v) = 1 .. Len(q) + 1 /\ DOMAIN q = 1 .. Len(q) /\ Len(q) \in Nat
  BY DEF Append
<1>2. /\ \A i \in 1 .. Len(q) : Append(q, v)[i] = q[i]
      /\ Append(q, v)[Len(q) + 1] = v
  BY <1>1 DEF Append
<1>3. \A i \in 1 .. Len(q) + 1 : i \in 1 .. Len(q) \/ i = Len(q) + 1
  BY <1>1
<1>4. QED
  BY <1>1, <1>2, <1>3 DEF ToSet

\* A store stays sound when neither users nor caws change.
LEMMA SoundElsewhere ==
  ASSUME NEW f, NEW g, Sound(f),
         Lookup(g, UsersKey) = Lookup(f, UsersKey),
         \A i : Lookup(g, CawKey(i)) = Lookup(f, CawKey(i)),
         \A i : CawKey(i) \in DOMAIN f => CawKey(i) \in DOMAIN g
  PROVE  Sound(g) /\ Grows(f, g)
BY DEF Sound, Grows, Registered, Exists

\* Nothing was written.
LEMMA SoundSame ==
  ASSUME NEW f, Sound(f)
  PROVE  Sound(f) /\ Grows(f, f)
BY DEF Grows

\* A user is registered.
LEMMA SoundPutUser ==
  ASSUME NEW f, Sound(f), NEW u \in Users
  PROVE  Sound(PutInto(f, UsersKey, u)) /\ Grows(f, PutInto(f, UsersKey, u))
<1> DEFINE g == PutInto(f, UsersKey, u)
           q == Lookup(f, UsersKey)
<1>1. /\ DOMAIN g = DOMAIN f \cup {UsersKey} /\ Lookup(g, UsersKey) = Append(q, u)
      /\ \A x : x # UsersKey => Lookup(g, x) = Lookup(f, x)
  BY DEF PutInto, Lookup
<1>2. q \in Seq(Users)
  BY DEF Sound
<1> HIDE DEF g, q
<1>3. Append(q, u) \in Seq(Users) /\ ToSet(Append(q, u)) = ToSet(q) \cup {u}
  BY <1>2, AppendProperties, ElementsOfAppend
<1>4. Grows(f, g)
  BY <1>1, <1>3 DEF Grows, Registered, Exists, q
<1>5. \A i : Lookup(g, CawKey(i)) = Lookup(f, CawKey(i))
  BY <1>1, KeysDiffer
<1>6. Sound(g)
  BY <1>1, <1>3, <1>4, <1>5 DEF Sound, Grows
<1>7. QED
  BY <1>4, <1>6 DEF g

\* A caw is stored under its id, by a registered user in reply to a caw that exists.
LEMMA SoundPutCaw ==
  ASSUME NEW f, Sound(f), NEW n, NEW u \in Users, NEW p \in CawIds \cup {NoParent},
         Registered(f, u), Exists(f, p)
  PROVE  LET g == PutInto(f, CawKey(n), [id |-> n, username |-> u, parent_id |-> p])
         IN Sound(g) /\ Grows(f, g)
<1> DEFINE c == [id |-> n, username |-> u, parent_id |-> p]
           g == PutInto(f, CawKey(n), c)
           q == Lookup(f, CawKey(n))
<1>1. /\ DOMAIN g = DOMAIN f \cup {CawKey(n)} /\ Lookup(g, CawKey(n)) = Append(q, c)
      /\ \A x : x # CawKey(n) => Lookup(g, x) = Lookup(f, x)
  BY DEF PutInto, Lookup
<1>2. q \in Seq(CawsAt(n)) /\ c \in CawsAt(n) /\ c.username = u /\ c.parent_id = p
  BY DEF Sound, CawsAt
<1> HIDE DEF g, q, c
<1>3. Append(q, c) \in Seq(CawsAt(n)) /\ ToSet(Append(q, c)) = ToSet(q) \cup {c}
  BY <1>2, AppendProperties, ElementsOfAppend
<1>4. Lookup(g, UsersKey) = Lookup(f, UsersKey)
  BY <1>1, KeysDiffer
<1>5. Grows(f, g)
  BY <1>1, <1>4 DEF Grows, Registered, Exists
<1>6. ASSUME NEW i
      PROVE  /\ Lookup(g, CawKey(i)) \in Seq(CawsAt(i))
             /\ \A d \in ToSet(Lookup(g, CawKey(i))) :
                  Registered(g, d.username) /\ Exists(g, d.parent_id)
  <2>1. CASE i = n
    <3>1. \A d \in ToSet(q) \cup {c} : Registered(f, d.username) /\ Exists(f, d.parent_id)
      BY <1>2 DEF Sound, q
    <3>2. QED
      BY <1>1, <1>3, <1>5, <2>1, <3>1 DEF Grows
  <2>2. CASE i # n
    <3>1. Lookup(g, CawKey(i)) = Lookup(f, CawKey(i))
      BY <1>1, <2>2, KeysDiffer
    <3>2. QED
      BY <1>5, <3>1 DEF Sound, Grows
  <2>3. QED
    BY <2>1, <2>2
<1>7. Sound(g)
  BY <1>4, <1>6 DEF Sound
<1>8. QED
  BY <1>5, <1>7 DEF g, c

\* Something else is stored.
LEMMA SoundPutOther ==
  ASSUME NEW f, Sound(f), NEW k, NEW v, k # UsersKey, \A i : k # CawKey(i)
  PROVE  Sound(PutInto(f, k, v)) /\ Grows(f, PutInto(f, k, v))
<1> DEFINE g == PutInto(f, k, v)
<1>1. /\ DOMAIN g = DOMAIN f \cup {k} /\ \A x : x # k => Lookup(g, x) = Lookup(f, x)
  BY DEF PutInto, Lookup
<1> HIDE DEF g
<1>2. Sound(g) /\ Grows(f, g)
  BY <1>1, SoundElsewhere
<1>3. QED
  BY <1>2 DEF g

\* The last id is removed.
LEMMA SoundErase ==
  ASSUME NEW f, Sound(f)
  PROVE  Sound(EraseFrom(f, LatestKey)) /\ Grows(f, EraseFrom(f, LatestKey))
<1> DEFINE g == EraseFrom(f, LatestKey)
<1>1. /\ DOMAIN g = DOMAIN f \ {LatestKey}
      /\ \A x : x # LatestKey => Lookup(g, x) = Lookup(f, x)
  BY DEF EraseFrom, Lookup
<1> HIDE DEF g
<1>2. Sound(g) /\ Grows(f, g)
  BY <1>1, KeysDiffer, SoundElsewhere
<1>3. QED
  BY <1>2 DEF g

\* What a Get returns, in full or in part, is in the store.
LEMMA GotIs ==
  ASSUME NEW S, NEW k, Stored(k) \in Seq(S), NEW seen \in Got(k)
  PROVE  /\ ToSet(seen) \subseteq ToSet(Stored(k))
         /\ seen # <<>> => k \in DOMAIN kvstore
<1> DEFINE q == Stored(k)
<1>1. q \in Seq(S) /\ (k \notin DOMAIN kvstore => q = <<>>)
  BY DEF Stored, Lookup
<1>2. seen = q \/ seen \in {SubSeq(q, 1, l) : l \in 0 .. Len(q)}
  BY DEF Got, Prefixes
<1> HIDE DEF q
<1>3. CASE seen = q
  BY <1>1, <1>3 DEF q
<1>4. CASE seen \in {SubSeq(q, 1, l) : l \in 0 .. Len(q)}
  <2>1. PICK l \in 0 .. Len(q) : seen = SubSeq(q, 1, l)
    BY <1>4
  <2>2. Len(q) \in Nat /\ DOMAIN q = 1 .. Len(q) /\ \A i \in 1 .. l : q[i] \in S
    BY <1>1, ElementOfSeq
  <2>3. /\ seen \in Seq(S) /\ Len(seen) = l /\ DOMAIN seen = 1 .. l
        /\ \A i \in 1 .. l : seen[i] = q[i]
    BY <2>1, <2>2, SubSeqProperties
  <2>4. ToSet(seen) \subseteq ToSet(q)
    BY <2>2, <2>3 DEF ToSet
  <2>5. q = <<>> => seen = <<>>
    <3>1. q = <<>> => Len(seen) = 0
      BY <2>2, <2>3
    <3>2. QED
      BY <2>3, <3>1, EmptySeq
  <2>6. QED
    BY <1>1, <2>4, <2>5 DEF q
<1>5. QED
  BY <1>2, <1>3, <1>4

-----------------------------------------------------------------------------
\* The inductive invariant.

\* PostCaw past its check of the author, and past that of the parent.
Posting == {"caw_latest", "caw_increment", "caw_remove_latest", "caw_put_latest",
            "caw_put", "caw_put_child"}
PostCawSteps == {"caw", "caw_parent"} \cup Posting
RegisterSteps == {"registeruser", "register_put"}

\* What a thread has checked is still so when it writes: users and caws are
\* never removed.
Checked(w) ==
  /\ pc[w] # "idle" => req[w] \in Requests
  /\ pc[w] \in RegisterSteps => req[w].op = "registeruser"
  /\ pc[w] \in PostCawSteps => req[w].op = "caw"
  /\ pc[w] \in Posting \cup {"caw_parent"} => Registered(kvstore, req[w].username)
  /\ pc[w] \in Posting => Exists(kvstore, req[w].parent_id)

Inv == /\ DOMAIN pc = Workers /\ DOMAIN req = Workers
       /\ Sound(kvstore)
       /\ \A w \in Workers : Checked(w)

\* A step of a thread has to keep the store sound and what it has checked itself.
LEMMA OneWorker ==
  ASSUME Inv, NEW w \in Workers, Sound(kvstore'), Grows(kvstore, kvstore'),
         DOMAIN pc' = Workers, UNCHANGED req, Checked(w)',
         \A u \in Workers : u # w => pc'[u] \in {pc[u], "idle"}
  PROVE  Inv'
<1>1. ASSUME NEW u \in Workers, u # w PROVE Checked(u)'
  <2>1. Checked(u) /\ pc'[u] \in {pc[u], "idle"}
    BY <1>1 DEF Inv
  <2>2. QED
    BY <2>1 DEF Checked, Grows, Posting, PostCawSteps, RegisterSteps
<1>2. QED
  BY <1>1 DEF Inv

\* The other threads when one moves on, answers, or kills the process.
LEMMA Moves ==
  ASSUME Inv, NEW w \in Workers,
         \/ \E label : Goto(w, label)
         \/ \E s : Finish(w, s)
         \/ Undefined
  PROVE  /\ DOMAIN pc' = Workers
         /\ \A u \in Workers : u # w => pc'[u] \in {pc[u], "idle"}
BY DEF Inv, Goto, Finish, Undefined, Die

\* A Put that may be lost.
LEMMA PutDoes ==
  ASSUME NEW w, NEW label, NEW k, NEW v, Put(w, label, k, v)
  PROVE  /\ pc[w] = label /\ UNCHANGED req
         /\ kvstore' = kvstore \/ kvstore' = PutInto(kvstore, k, v)
BY DEF Put, Write

\* A Put leaves the locals of every thread alone.
LEMMA PutKeeps ==
  ASSUME NEW w, NEW label, NEW k, NEW v, Put(w, label, k, v)
  PROVE  UNCHANGED id
BY DEF Put, Write, locals

-----------------------------------------------------------------------------
\* One lemma per kind of step; what each says is that it keeps the invariant.

\* A request arrives.
LEMMA BeginInv ==
  ASSUME Inv, NEW w \in Workers, NEW r \in Requests, Begin(w, r)
  PROVE  Inv'
<1>1. /\ pc' = [pc EXCEPT ![w] = r.op] /\ req' = [req EXCEPT ![w] = r]
      /\ UNCHANGED kvstore
  BY DEF Begin
<1>2. r.op \in {"registeruser", "profile", "caw", "read", "follow"}
  BY DEF Requests
<1>3. Checked(w)'
  BY <1>1, <1>2 DEF Inv, Checked, Posting, PostCawSteps, RegisterSteps
<1>4. \A u \in Workers : u # w => Checked(u)'
  BY <1>1 DEF Inv, Checked
<1>5. QED
  BY <1>1, <1>3, <1>4 DEF Inv

\* RegisterUser.
LEMMA RegisterInv ==
  ASSUME Inv, NEW w \in Workers, RegisterUser_Users(w) \/ RegisterUser_Put(w)
  PROVE  Inv'
<1>1. CASE RegisterUser_Users(w)
  <2>1. /\ pc[w] = "registeruser" /\ UNCHANGED <<kvstore, req>>
        /\ (\E s : Finish(w, s)) \/ Goto(w, "register_put")
    BY <1>1 DEF RegisterUser_Users, Get
  <2>2. pc'[w] \in {"idle", "register_put"}
    BY <2>1 DEF Inv, Goto, Finish
  <2>3. Checked(w)'
    BY <2>1, <2>2 DEF Inv, Checked, Posting, PostCawSteps, RegisterSteps
  <2>4. Sound(kvstore') /\ Grows(kvstore, kvstore')
    BY <2>1, SoundSame DEF Inv
  <2>5. QED
    BY <2>1, <2>3, <2>4, Moves, OneWorker
<1>2. CASE RegisterUser_Put(w)
  <2>1. /\ pc[w] = "register_put" /\ UNCHANGED req /\ Finish(w, "OK")
        /\ kvstore' = kvstore \/ kvstore' = PutInto(kvstore, UsersKey, req[w].username)
    BY <1>2, PutDoes DEF RegisterUser_Put
  <2>2. req[w] \in Requests /\ req[w].op = "registeruser"
    BY <2>1 DEF Inv, Checked, RegisterSteps
  <2>3. req[w].username \in Users
    BY <2>2 DEF Requests
  <2>4. Sound(kvstore') /\ Grows(kvstore, kvstore')
    BY <2>1, <2>3, SoundSame, SoundPutUser DEF Inv
  <2>5. Checked(w)'
    BY <2>1 DEF Inv, Finish, Checked, Posting, PostCawSteps, RegisterSteps
  <2>6. QED
    BY <2>1, <2>4, <2>5, Moves, OneWorker
<1>3. QED
  BY <1>1, <1>2

\* The two checks of PostCaw.
LEMMA ChecksInv ==
  ASSUME Inv, NEW w \in Workers, PostCaw_Users(w) \/ PostCaw_Parent(w)
  PROVE  Inv'
<1>1. /\ pc[w] \in {"caw", "caw_parent"} /\ UNCHANGED <<kvstore, req>>
      /\ req[w] \in Requests /\ req[w].op = "caw"
  BY DEF PostCaw_Users, PostCaw_Parent, Get, Inv, Checked, PostCawSteps
<1>2. Sound(kvstore') /\ Grows(kvstore, kvstore')
  BY <1>1, SoundSame DEF Inv
<1>3. CASE PostCaw_Users(w)
  <2>1. PICK seen \in Got(UsersKey) :
          IF req[w].username \notin ToSet(seen)
            THEN Finish(w, "NOT_FOUND")
            ELSE Goto(w, IF req[w].parent_id = NoParent THEN "caw_latest" ELSE "caw_parent")
    BY <1>3 DEF PostCaw_Users
  <2>2. CASE req[w].username \notin ToSet(seen)
    <3>1. Checked(w)' /\ Finish(w, "NOT_FOUND")
      BY <1>1, <2>1, <2>2
         DEF Inv, Finish, Checked, Posting, PostCawSteps, RegisterSteps
    <3>2. QED
      BY <1>1, <1>2, <3>1, Moves, OneWorker
  <2>3. CASE req[w].username \in ToSet(seen)
    <3>1. Registered(kvstore, req[w].username)
      <4>1. Stored(UsersKey) \in Seq(Users)
        BY DEF Inv, Sound, Stored
      <4>2. ToSet(seen) \subseteq ToSet(Stored(UsersKey))
        BY <4>1, GotIs
      <4>3. QED
        BY <2>3, <4>2 DEF Registered, Stored
    <3> DEFINE label == IF req[w].parent_id = NoParent THEN "caw_latest" ELSE "caw_parent"
    <3>2. Goto(w, label) /\ pc'[w] = label
      BY <2>1, <2>3 DEF Inv, Goto
    <3>3. Checked(w)'
      BY <1>1, <3>1, <3>2
         DEF Checked, Posting, PostCawSteps, RegisterSteps, Exists
    <3>4. QED
      BY <1>1, <1>2, <3>2, <3>3, Moves, OneWorker
  <2>4. QED
    BY <2>2, <2>3
<1>4. CASE PostCaw_Parent(w)
  <2> DEFINE k == CawKey(req[w].parent_id)
  <2>1. PICK seen \in Got(k) :
          IF seen = <<>> THEN Finish(w, "NOT_FOUND") ELSE Goto(w, "caw_latest")
    BY <1>4 DEF PostCaw_Parent
  <2>2. pc[w] = "caw_parent"
    BY <1>4 DEF PostCaw_Parent
  <2>3. CASE seen = <<>>
    <3>1. Checked(w)' /\ Finish(w, "NOT_FOUND")
      BY <1>1, <2>1, <2>3
         DEF Inv, Finish, Checked, Posting, PostCawSteps, RegisterSteps
    <3>2. QED
      BY <1>1, <1>2, <3>1, Moves, OneWorker
  <2>4. CASE seen # <<>>
    <3>1. Stored(k) \in Seq(CawsAt(req[w].parent_id))
      BY DEF Inv, Sound, Stored
    <3> HIDE DEF k
    <3>2. k \in DOMAIN kvstore
      BY <2>4, <3>1, GotIs
    <3>3. Exists(kvstore, req[w].parent_id)
      BY <3>2 DEF Exists, k
    <3>4. Goto(w, "caw_latest") /\ pc'[w] = "caw_latest"
      BY <2>1, <2>4 DEF Inv, Goto
    <3>5. Registered(kvstore, req[w].username)
      BY <2>2 DEF Inv, Checked
    <3>6. Checked(w)'
      BY <1>1, <3>3, <3>4, <3>5
         DEF Checked, Posting, PostCawSteps, RegisterSteps
    <3>7. QED
      BY <1>1, <1>2, <3>4, <3>6, Moves, OneWorker
  <2>5. QED
    BY <2>3, <2>4
<1>5. QED
  BY <1>3, <1>4

\* PostCaw finds the id of the caw: what it checked before stays so.
LEMMA NumberInv ==
  ASSUME Inv, NEW w \in Workers,
         \/ PostCaw_Latest(w) \/ PostCaw_Increment(w)
         \/ PostCaw_RemoveLatest(w) \/ PostCaw_PutLatest(w)
  PROVE  Inv'
<1>1. /\ pc[w] \in Posting /\ UNCHANGED req
      /\ \/ \E label \in Posting : Goto(w, label)
         \/ Undefined
  BY PutDoes
     DEF PostCaw_Latest, PostCaw_Increment, PostCaw_RemoveLatest, PostCaw_PutLatest,
         Get, Write, Posting
<1>2. Sound(kvstore') /\ Grows(kvstore, kvstore')
  <2>1. CASE kvstore' = kvstore
    BY <2>1, SoundSame DEF Inv
  <2>2. CASE kvstore' = EraseFrom(kvstore, LatestKey)
    BY <2>2, SoundErase DEF Inv
  <2>3. CASE kvstore' = PutInto(kvstore, LatestKey, id[w])
    BY <2>3, KeysDiffer, SoundPutOther DEF Inv
  <2>4. QED
    BY <2>1, <2>2, <2>3, PutDoes
       DEF PostCaw_Latest, PostCaw_Increment, PostCaw_RemoveLatest, PostCaw_PutLatest,
           Get, Write
<1>3. /\ req[w] \in Requests /\ req[w].op = "caw"
      /\ Registered(kvstore', req[w].username) /\ Exists(kvstore', req[w].parent_id)
  BY <1>1, <1>2 DEF Inv, Checked, Posting, PostCawSteps, Grows
<1>4. pc'[w] \in Posting \cup {"idle"}
  BY <1>1 DEF Inv, Goto, Undefined, Die
<1>5. Checked(w)'
  BY <1>1, <1>3, <1>4 DEF Checked, Posting, PostCawSteps, RegisterSteps
<1>6. QED
  BY <1>1, <1>2, <1>5, Moves, OneWorker

\* PostCaw stores the caw, and lists it among the children of its parent.
LEMMA StoreCawInv ==
  ASSUME Inv, NEW w \in Workers, PostCaw_Put(w) \/ PostCaw_PutChild(w)
  PROVE  Inv'
<1>1. /\ pc[w] \in {"caw_put", "caw_put_child"} /\ UNCHANGED req
      /\ Goto(w, "caw_put_child") \/ Finish(w, "OK")
  BY PutDoes DEF PostCaw_Put, PostCaw_PutChild
<1>2. /\ req[w] \in Requests /\ req[w].op = "caw"
      /\ Registered(kvstore, req[w].username) /\ Exists(kvstore, req[w].parent_id)
  BY <1>1 DEF Inv, Checked, Posting, PostCawSteps
<1>3. req[w].username \in Users /\ req[w].parent_id \in CawIds \cup {NoParent}
  BY <1>2 DEF Requests
<1>4. Sound(kvstore') /\ Grows(kvstore, kvstore')
  <2>1. CASE kvstore' = kvstore
    BY <2>1, SoundSame DEF Inv
  <2>2. CASE kvstore' = PutInto(kvstore, CawKey(id[w]), Caw(w))
    BY <1>2, <1>3, <2>2, SoundPutCaw DEF Inv, Caw
  <2>3. CASE kvstore' = PutInto(kvstore, ChildrenKey(req[w].parent_id), id[w])
    BY <2>3, KeysDiffer, SoundPutOther DEF Inv
  <2>4. QED
    BY <2>1, <2>2, <2>3, PutDoes DEF PostCaw_Put, PostCaw_PutChild
<1>5. Registered(kvstore', req[w].username) /\ Exists(kvstore', req[w].parent_id)
  BY <1>2, <1>4 DEF Grows
<1>6. pc'[w] \in {"caw_put_child", "idle"}
  BY <1>1 DEF Inv, Goto, Finish
<1>7. Checked(w)'
  BY <1>1, <1>2, <1>5, <1>6 DEF Checked, Posting, PostCawSteps, RegisterSteps
<1>8. QED
  BY <1>1, <1>4, <1>7, Moves, OneWorker

\* Where ReadCaw, FollowUser and GetProfile can be.
OtherSteps == {"read", "read_caw", "read_children", "follow", "follow_check",
               "follow_unknown", "follow_following", "follow_followers", "profile",
               "profile_followers", "profile_following"}

\* ReadCaw, FollowUser and GetProfile write no user and no caw.
LEMMA OtherInv ==
  ASSUME Inv, NEW w \in Workers,
         \/ ReadCaw_Start(w) \/ ReadCaw_Caw(w) \/ ReadCaw_Children(w) \/ ReadCaw_End(w)
         \/ FollowUser_Users(w) \/ FollowUser_Unknown(w) \/ FollowUser_Check(w)
         \/ FollowUser_PutFollowing(w) \/ FollowUser_PutFollowers(w)
         \/ GetProfile_Users(w) \/ GetProfile_Followers(w) \/ GetProfile_Following(w)
  PROVE  Inv'
<1>1. /\ pc[w] \in OtherSteps /\ UNCHANGED req
      /\ \/ \E label \in OtherSteps : Goto(w, label)
         \/ \E s : Finish(w, s)
         \/ Undefined
      /\ \/ kvstore' = kvstore
         \/ kvstore' = PutInto(kvstore, FollowingKey(req[w].username), req[w].to_follow)
         \/ kvstore' = PutInto(kvstore, FollowersKey(req[w].to_follow), req[w].username)
  <2>1. CASE ReadCaw_Start(w) \/ ReadCaw_Caw(w) \/ ReadCaw_Children(w) \/ ReadCaw_End(w)
    BY <2>1 DEF ReadCaw_Start, ReadCaw_Caw, ReadCaw_Children, ReadCaw_End, Get, OtherSteps
  <2>2. CASE FollowUser_Users(w) \/ FollowUser_Unknown(w) \/ FollowUser_Check(w)
    BY <2>2 DEF FollowUser_Users, FollowUser_Unknown, FollowUser_Check, Get, OtherSteps
  <2>3. CASE FollowUser_PutFollowing(w) \/ FollowUser_PutFollowers(w)
    BY <2>3, PutDoes DEF FollowUser_PutFollowing, FollowUser_PutFollowers, OtherSteps
  <2>4. CASE GetProfile_Users(w) \/ GetProfile_Followers(w) \/ GetProfile_Following(w)
    BY <2>4 DEF GetProfile_Users, GetProfile_Followers, GetProfile_Following, Get, OtherSteps
  <2>5. QED
    BY <2>1, <2>2, <2>3, <2>4
<1>2. Sound(kvstore') /\ Grows(kvstore, kvstore')
  <2>1. CASE kvstore' = kvstore
    BY <2>1, SoundSame DEF Inv
  <2>2. CASE kvstore' = PutInto(kvstore, FollowingKey(req[w].username), req[w].to_follow)
    BY <2>2, KeysDiffer, SoundPutOther DEF Inv
  <2>3. CASE kvstore' = PutInto(kvstore, FollowersKey(req[w].to_follow), req[w].username)
    BY <2>3, KeysDiffer, SoundPutOther DEF Inv
  <2>4. QED
    BY <1>1, <2>1, <2>2, <2>3
<1>3. pc'[w] \in OtherSteps \cup {"idle"}
  BY <1>1 DEF Inv, Goto, Finish, Undefined, Die
<1>4. Checked(w)'
  BY <1>1, <1>3 DEF Inv, Checked, OtherSteps, Posting, PostCawSteps, RegisterSteps
<1>5. QED
  BY <1>1, <1>2, <1>4, Moves, OneWorker

-----------------------------------------------------------------------------
\* The invariant holds.

\* Nothing is stored at first.
LEMMA InvInit == Init => Inv
<1> SUFFICES ASSUME Init PROVE Inv
  OBVIOUS
<1>1. \A k : Lookup(kvstore, k) = <<>>
  BY DEF Init, EmptyStore, Lookup
<1>2. \A S : <<>> \in Seq(S)
  OBVIOUS
<1>3. ToSet(<<>>) = {}
  BY DEF ToSet
<1>4. Sound(kvstore)
  BY <1>1, <1>2, <1>3 DEF Sound
<1>5. QED
  BY <1>4 DEF Init, Inv, Checked, Posting, PostCawSteps, RegisterSteps

\* Every step keeps it.
LEMMA InvNext == Inv /\ [Next]_vars => Inv'
<1> SUFFICES ASSUME Inv, [Next]_vars PROVE Inv'
  OBVIOUS
<1>1. CASE UNCHANGED vars
  BY <1>1 DEF vars, Inv, Checked
<1>2. CASE Crash
  BY <1>2 DEF Crash, Die, Inv, Checked, Posting, PostCawSteps, RegisterSteps
<1>3. ASSUME NEW w \in Workers, Step(w) PROVE Inv'
  BY <1>3, RegisterInv, ChecksInv, NumberInv, StoreCawInv, OtherInv DEF Step
<1>4. QED
  BY <1>1, <1>2, <1>3, BeginInv DEF Next

\* Every caw in the store is kept under its own id, its author is registered
\* and the caw it replies to exists (caw_functions.cpp:42-49), however many
\* requests interleave, remote calls fail and processes die: the store only
\* ever gains users and caws, so what PostCaw has checked stays true.
THEOREM CawsStayGrounded == Spec => []CawsGrounded
<1>1. Inv => CawsGrounded
  <2> SUFFICES ASSUME Inv, NEW i \in PostedIds, NEW c \in CawsOf(i)
               PROVE  /\ c.id = i
                      /\ c.username \in ToSet(Stored(UsersKey))
                      /\ c.parent_id # NoParent => c.parent_id \in PostedIds
    BY DEF CawsGrounded
  <2>1. /\ Registered(kvstore, c.username) /\ Exists(kvstore, c.parent_id)
        /\ Lookup(kvstore, CawKey(i)) \in Seq(CawsAt(i))
    BY DEF Inv, Sound, CawsOf, Stored
  <2>2. c \in CawsAt(i)
    BY <2>1 DEF CawsOf, Stored, ToSet
  <2>3. c.id = i /\ c.parent_id \in CawIds \cup {NoParent}
    BY <2>2 DEF CawsAt
  <2>4. QED
    BY <2>1, <2>3 DEF Registered, Exists, Stored, PostedIds
<1>2. QED
  BY <1>1, InvInit, InvNext, PTL DEF Spec
-----------------------------------------------------------------------------
\* Counting in the lists.

Places(q, T) == {j \in DOMAIN q : q[j] \in T}

\* An Append adds the place of the value appended.
LEMMA PlacesOfAppend ==
  ASSUME NEW S, NEW q \in Seq(S), NEW v, NEW T
  PROVE  /\ Cardinality(Places(q, T)) \in Nat
         /\ Cardinality(Places(Append(q, v), T)) =
              IF v \in T THEN Cardinality(Places(q, T)) + 1 ELSE Cardinality(Places(q, T))
<1> DEFINE n == Len(q)
           r == Append(q, v)
<1>1. n \in Nat /\ DOMAIN q = 1 .. n /\ DOMAIN r = 1 .. n + 1
      /\ (\A i \in 1 .. n : r[i] = q[i]) /\ r[n + 1] = v
  BY DEF Append
<1>2. IsFiniteSet(1 .. n)
  BY <1>1, FS_Interval
<1> HIDE DEF n, r
<1>3. Places(q, T) \in SUBSET (1 .. n) /\ n + 1 \notin Places(q, T)
  BY <1>1 DEF Places
<1>4. IsFiniteSet(Places(q, T)) /\ Cardinality(Places(q, T)) \in Nat
  BY <1>2, <1>3, FS_Subset, FS_CardinalityType
<1>5. CASE v \in T
  <2>1. Places(r, T) = Places(q, T) \cup {n + 1}
    BY <1>1, <1>5 DEF Places
  <2>2. QED
    BY <1>3, <1>4, <1>5, <2>1, FS_AddElement DEF r
<1>6. CASE v \notin T
  <2>1. Places(r, T) = Places(q, T)
    BY <1>1, <1>6 DEF Places
  <2>2. QED
    BY <1>4, <1>6, <2>1 DEF r
<1>7. QED
  BY <1>5, <1>6

\* The same of Count.
LEMMA CountOfAppend ==
  ASSUME NEW S, NEW q \in Seq(S), NEW v, NEW x
  PROVE  /\ Count(q, x) \in Nat
         /\ Count(Append(q, v), x) = IF v = x THEN Count(q, x) + 1 ELSE Count(q, x)
<1>1. \A s : Count(s, x) = Cardinality(Places(s, {x}))
  BY DEF Count, Places
<1>2. QED
  BY <1>1, PlacesOfAppend

\* What a failed call and a crash leave behind.
Counted == failures \in Nat /\ crashes \in Nat

\* The calls that failed and the crashes are counted, and never forgotten.
LEMMA CountedNext ==
  ASSUME Counted, [Next]_vars
  PROVE  /\ Counted'
         /\ failures' = 0 => failures = 0
         /\ Stable' => Stable
<1> DEFINE grow == /\ failures' \in {failures, failures + 1}
                   /\ crashes' \in {crashes, crashes + 1}
                   /\ undefined' = undefined \/ undefined' = TRUE
<1>1. grow
  <2>1. CASE UNCHANGED vars
    BY <2>1 DEF vars
  <2>2. CASE Crash
    BY <2>2 DEF Crash
  <2>3. ASSUME NEW w \in Workers, NEW r \in Requests, Begin(w, r) PROVE grow
    BY <2>3 DEF Begin
  <2>4. ASSUME NEW w \in Workers, Step(w) PROVE grow
    <3>1. CASE RegisterUser_Users(w) \/ PostCaw_Users(w) \/ PostCaw_Parent(w)
      BY <3>1 DEF RegisterUser_Users, PostCaw_Users, PostCaw_Parent, Get, Goto, Finish
    <3>2. CASE PostCaw_Latest(w) \/ PostCaw_Increment(w) \/ PostCaw_RemoveLatest(w)
      BY <3>2 DEF PostCaw_Latest, PostCaw_Increment, PostCaw_RemoveLatest, Get, Write,
                  Goto, Undefined
    <3>3. CASE RegisterUser_Put(w) \/ PostCaw_PutLatest(w) \/ PostCaw_Put(w) \/ PostCaw_PutChild(w)
               \/ FollowUser_PutFollowing(w) \/ FollowUser_PutFollowers(w)
      BY <3>3 DEF RegisterUser_Put, PostCaw_PutLatest, PostCaw_Put, PostCaw_PutChild,
                  FollowUser_PutFollowing, FollowUser_PutFollowers, Put, Write, Goto, Finish
    <3>4. CASE ReadCaw_Start(w) \/ ReadCaw_Caw(w) \/ ReadCaw_Children(w) \/ ReadCaw_End(w)
      BY <3>4 DEF ReadCaw_Start, ReadCaw_Caw, ReadCaw_Children, ReadCaw_End, Get, Goto,
                  Finish, Undefined
    <3>5. CASE FollowUser_Users(w) \/ FollowUser_Unknown(w) \/ FollowUser_Check(w)
      BY <3>5 DEF FollowUser_Users, FollowUser_Unknown, FollowUser_Check, Get, Goto, Finish
    <3>6. CASE GetProfile_Users(w) \/ GetProfile_Followers(w) \/ GetProfile_Following(w)
      BY <3>6 DEF GetProfile_Users, GetProfile_Followers, GetProfile_Following, Get, Goto,
                  Finish
    <3>7. QED
      BY <2>4, <3>1, <3>2, <3>3, <3>4, <3>5, <3>6 DEF Step
  <2>5. QED
    BY <2>1, <2>2, <2>3, <2>4 DEF Next
<1>2. QED
  BY <1>1 DEF Counted, Stable

-----------------------------------------------------------------------------
\* The two lists of FollowUser.

FollowSteps == {"follow", "follow_check", "follow_unknown", "follow_following",
                "follow_followers"}

Follows(f, u, v) == Count(Lookup(f, FollowingKey(u)), v)
Followed(f, u, v) == Count(Lookup(f, FollowersKey(v)), u)

\* Requests that have written the first of the two lists.
Between(u, v) == {w \in Workers : /\ pc[w] = "follow_followers"
                                  /\ req[w].username = u
                                  /\ req[w].to_follow = v}

UserLists(f) ==
  \A u : Lookup(f, FollowingKey(u)) \in Seq(Users) /\ Lookup(f, FollowersKey(u)) \in Seq(Users)

Mirrored(u, v) ==
  LET between == Cardinality(Between(u, v))
  IN /\ failures = 0 => Followed(kvstore, u, v) + between <= Follows(kvstore, u, v)
     /\ Stable => Followed(kvstore, u, v) + between = Follows(kvstore, u, v)

FollowInv ==
  /\ Inv
  /\ Counted
  /\ UserLists(kvstore)
  /\ \A w \in Workers : pc[w] \in FollowSteps => req[w].op = "follow"
  /\ \A u, v : Mirrored(u, v)

\* A step that writes neither list, in which no thread comes between the two
\* Puts, and none leaves that place unless something crashes.
LEMMA MirrorElsewhere ==
  ASSUME IsFiniteSet(Workers), FollowInv, [Next]_vars,
         \A u : /\ Lookup(kvstore', FollowingKey(u)) = Lookup(kvstore, FollowingKey(u))
                /\ Lookup(kvstore', FollowersKey(u)) = Lookup(kvstore, FollowersKey(u)),
         \A w \in Workers : pc'[w] = "follow_followers" =>
           pc[w] = "follow_followers" /\ req'[w] = req[w],
         Stable' => \A w \in Workers : pc[w] = "follow_followers" => pc'[w] = "follow_followers"
  PROVE  (\A u, v : Mirrored(u, v))' /\ UserLists(kvstore')
<1>1. UserLists(kvstore')
  BY DEF FollowInv, UserLists
<1>2. ASSUME NEW u, NEW v PROVE Mirrored(u, v)'
  <2> DEFINE old == Between(u, v)
             new == {w \in Workers : /\ pc'[w] = "follow_followers"
                                     /\ req'[w].username = u
                                     /\ req'[w].to_follow = v}
  <2>1. new \in SUBSET old /\ old \in SUBSET Workers
    BY DEF Between
  <2>2. Stable' => new = old
    BY DEF Between
  <2> HIDE DEF new, old
  <2>3. IsFiniteSet(old) /\ Cardinality(old) \in Nat
    BY <2>1, FS_Subset, FS_CardinalityType
  <2>4. Cardinality(new) \in Nat /\ Cardinality(new) <= Cardinality(old)
    BY <2>1, <2>3, FS_Subset, FS_CardinalityType
  <2>5. /\ Followed(kvstore', u, v) = Followed(kvstore, u, v)
        /\ Follows(kvstore', u, v) = Follows(kvstore, u, v)
    BY DEF Followed, Follows
  <2>6. Followed(kvstore, u, v) \in Nat /\ Follows(kvstore, u, v) \in Nat
    BY CountOfAppend DEF FollowInv, UserLists, Followed, Follows
  <2>7. (failures' = 0 => failures = 0) /\ (Stable' => Stable)
    BY CountedNext DEF FollowInv
  <2>8. /\ failures = 0 => Followed(kvstore, u, v) + Cardinality(old) <= Follows(kvstore, u, v)
        /\ Stable => Followed(kvstore, u, v) + Cardinality(old) = Follows(kvstore, u, v)
    BY DEF FollowInv, Mirrored, old
  <2>9. /\ failures' = 0 => Followed(kvstore', u, v) + Cardinality(new) <= Follows(kvstore', u, v)
        /\ Stable' => Followed(kvstore', u, v) + Cardinality(new) = Follows(kvstore', u, v)
    BY <2>2, <2>3, <2>4, <2>5, <2>6, <2>7, <2>8
  <2>10. QED
    BY <2>9 DEF Mirrored, Between, new
<1>3. QED
  BY <1>1, <1>2

\* The first Put of FollowUser: one more follows, one more is between.
LEMMA MirrorFollowing ==
  ASSUME IsFiniteSet(Workers), FollowInv, NEW w \in Workers, FollowUser_PutFollowing(w)
  PROVE  (\A u, v : Mirrored(u, v))' /\ UserLists(kvstore')
<1> DEFINE a == req[w].username
           b == req[w].to_follow
<1>1. /\ pc[w] = "follow_following" /\ pc' = [pc EXCEPT ![w] = "follow_followers"]
      /\ UNCHANGED <<req, crashes, undefined>> /\ failures \in Nat
      /\ \/ kvstore' = kvstore /\ failures' = failures + 1
         \/ kvstore' = PutInto(kvstore, FollowingKey(a), b) /\ failures' = failures
  BY DEF FollowUser_PutFollowing, Put, Write, Goto, FollowInv, Counted
<1>2. a \in Users /\ b \in Users
  <2>1. req[w] \in Requests /\ req[w].op = "follow"
    BY <1>1 DEF FollowInv, Inv, Checked, FollowSteps
  <2>2. QED
    BY <2>1 DEF Requests
<1>3. CASE kvstore' = kvstore /\ failures' = failures + 1
  BY <1>1, <1>3 DEF FollowInv, Mirrored, Stable
<1>4. CASE kvstore' = PutInto(kvstore, FollowingKey(a), b) /\ failures' = failures
  <2> DEFINE k == FollowingKey(a)
             q == Lookup(kvstore, k)
  <2> HIDE DEF a, b
  <2>1. /\ Lookup(kvstore', k) = Append(q, b)
        /\ \A x : x # k => Lookup(kvstore', x) = Lookup(kvstore, x)
    BY <1>4 DEF PutInto, Lookup
  <2>2. /\ \A u : FollowersKey(u) # k
        /\ \A u : FollowingKey(u) = k => u = a
    BY DEF FollowersKey, FollowingKey
  <2>3. q \in Seq(Users) /\ Append(q, b) \in Seq(Users)
    BY <1>2, AppendProperties DEF FollowInv, UserLists
  <2>4. UserLists(kvstore')
    BY <2>1, <2>2, <2>3 DEF FollowInv, UserLists
  <2>5. ASSUME NEW u, NEW v PROVE Mirrored(u, v)'
    <3> DEFINE old == Between(u, v)
               new == {x \in Workers : /\ pc'[x] = "follow_followers"
                                       /\ req'[x].username = u
                                       /\ req'[x].to_follow = v}
               same == u = a /\ v = b
    <3>1. new = IF same THEN old \cup {w} ELSE old
      <4>1. \A x \in Workers : pc'[x] = IF x = w THEN "follow_followers" ELSE pc[x]
        BY <1>1 DEF FollowInv, Inv
      <4>2. QED
        BY <1>1, <4>1 DEF Between, a, b
    <3>2. w \notin old /\ old \in SUBSET Workers
      BY <1>1 DEF Between
    <3> HIDE DEF old, new
    <3>3. IsFiniteSet(old) /\ Cardinality(old) \in Nat
      BY <3>2, FS_Subset, FS_CardinalityType
    <3>4. Cardinality(new) = IF same THEN Cardinality(old) + 1 ELSE Cardinality(old)
      BY <3>1, <3>2, <3>3, FS_AddElement
    <3>5. Followed(kvstore', u, v) = Followed(kvstore, u, v)
      BY <2>1, <2>2 DEF Followed
    <3>6. Follows(kvstore', u, v) =
            IF same THEN Follows(kvstore, u, v) + 1 ELSE Follows(kvstore, u, v)
      <4>1. Count(Append(q, b), v) = IF b = v THEN Count(q, v) + 1 ELSE Count(q, v)
        <5> HIDE DEF q
        <5>1. QED
          BY <2>3, CountOfAppend
      <4>2. CASE u = a
        BY <2>1, <4>1, <4>2 DEF Follows, same
      <4>3. CASE u # a
        BY <2>1, <2>2, <4>3 DEF Follows, same
      <4>4. QED
        BY <4>2, <4>3
    <3>7. Followed(kvstore, u, v) \in Nat /\ Follows(kvstore, u, v) \in Nat
      BY CountOfAppend DEF FollowInv, UserLists, Followed, Follows
    <3>8. /\ failures = 0 => Followed(kvstore, u, v) + Cardinality(old) <= Follows(kvstore, u, v)
          /\ Stable => Followed(kvstore, u, v) + Cardinality(old) = Follows(kvstore, u, v)
      BY DEF FollowInv, Mirrored, old
    <3>9. Stable' = Stable /\ failures' = failures
      BY <1>1, <1>4 DEF Stable
    <3> HIDE DEF same
    <3>10. /\ failures' = 0 => Followed(kvstore', u, v) + Cardinality(new) <= Follows(kvstore', u, v)
           /\ Stable' => Followed(kvstore', u, v) + Cardinality(new) = Follows(kvstore', u, v)
      BY <3>3, <3>4, <3>5, <3>6, <3>7, <3>8, <3>9
    <3>11. QED
      BY <3>10 DEF Mirrored, Between, new
  <2>6. QED
    BY <2>4, <2>5
<1>5. QED
  BY <1>1, <1>3, <1>4

\* The second Put: one more is followed, one fewer is between.
LEMMA MirrorFollowers ==
  ASSUME IsFiniteSet(Workers), FollowInv, NEW w \in Workers, FollowUser_PutFollowers(w)
  PROVE  (\A u, v : Mirrored(u, v))' /\ UserLists(kvstore')
<1> DEFINE a == req[w].username
           b == req[w].to_follow
<1>1. /\ pc[w] = "follow_followers" /\ pc' = [pc EXCEPT ![w] = "idle"]
      /\ UNCHANGED <<req, crashes, undefined>> /\ failures \in Nat
      /\ \/ kvstore' = kvstore /\ failures' = failures + 1
         \/ kvstore' = PutInto(kvstore, FollowersKey(b), a) /\ failures' = failures
  BY DEF FollowUser_PutFollowers, Put, Write, Finish, FollowInv, Counted
<1>2. a \in Users /\ b \in Users
  <2>1. req[w] \in Requests /\ req[w].op = "follow"
    BY <1>1 DEF FollowInv, Inv, Checked, FollowSteps
  <2>2. QED
    BY <2>1 DEF Requests
<1>3. CASE kvstore' = kvstore /\ failures' = failures + 1
  BY <1>1, <1>3 DEF FollowInv, Mirrored, Stable
<1>4. CASE kvstore' = PutInto(kvstore, FollowersKey(b), a) /\ failures' = failures
  <2> DEFINE k == FollowersKey(b)
             q == Lookup(kvstore, k)
  <2> HIDE DEF a, b
  <2>1. /\ Lookup(kvstore', k) = Append(q, a)
        /\ \A x : x # k => Lookup(kvstore', x) = Lookup(kvstore, x)
    BY <1>4 DEF PutInto, Lookup
  <2>2. /\ \A u : FollowingKey(u) # k
        /\ \A v : FollowersKey(v) = k => v = b
    BY DEF FollowersKey, FollowingKey
  <2>3. q \in Seq(Users) /\ Append(q, a) \in Seq(Users)
    BY <1>2, AppendProperties DEF FollowInv, UserLists
  <2>4. UserLists(kvstore')
    BY <2>1, <2>2, <2>3 DEF FollowInv, UserLists
  <2>5. ASSUME NEW u, NEW v PROVE Mirrored(u, v)'
    <3> DEFINE old == Between(u, v)
               new == {x \in Workers : /\ pc'[x] = "follow_followers"
                                       /\ req'[x].username = u
                                       /\ req'[x].to_follow = v}
               same == u = a /\ v = b
    <3>1. new = old \ {w} /\ (w \in old <=> same) /\ old \in SUBSET Workers
      <4>1. \A x \in Workers : pc'[x] = IF x = w THEN "idle" ELSE pc[x]
        BY <1>1 DEF FollowInv, Inv
      <4>2. QED
        BY <1>1, <4>1 DEF Between, a, b
    <3> HIDE DEF old, new, same
    <3>3. IsFiniteSet(old) /\ Cardinality(old) \in Nat
      BY <3>1, FS_Subset, FS_CardinalityType
    <3>4. Cardinality(new) = IF same THEN Cardinality(old) - 1 ELSE Cardinality(old)
      BY <3>1, <3>3, FS_RemoveElement
    <3>5. Follows(kvstore', u, v) = Follows(kvstore, u, v)
      BY <2>1, <2>2 DEF Follows
    <3>6. Followed(kvstore', u, v) =
            IF same THEN Followed(kvstore, u, v) + 1 ELSE Followed(kvstore, u, v)
      <4>1. Count(Append(q, a), u) = IF a = u THEN Count(q, u) + 1 ELSE Count(q, u)
        <5> HIDE DEF q
        <5>1. QED
          BY <2>3, CountOfAppend
      <4>2. CASE v = b
        BY <2>1, <4>1, <4>2 DEF Followed, same
      <4>3. CASE v # b
        BY <2>1, <2>2, <4>3 DEF Followed, same
      <4>4. QED
        BY <4>2, <4>3
    <3>7. Followed(kvstore, u, v) \in Nat /\ Follows(kvstore, u, v) \in Nat
      BY CountOfAppend DEF FollowInv, UserLists, Followed, Follows
    <3>8. /\ failures = 0 => Followed(kvstore, u, v) + Cardinality(old) <= Follows(kvstore, u, v)
          /\ Stable => Followed(kvstore, u, v) + Cardinality(old) = Follows(kvstore, u, v)
      BY DEF FollowInv, Mirrored, old
    <3>9. Stable' = Stable /\ failures' = failures
      BY <1>1, <1>4 DEF Stable
    <3>10. /\ failures' = 0 => Followed(kvstore', u, v) + Cardinality(new) <= Follows(kvstore', u, v)
           /\ Stable' => Followed(kvstore', u, v) + Cardinality(new) = Follows(kvstore', u, v)
      BY <3>3, <3>4, <3>5, <3>6, <3>7, <3>8, <3>9
    <3>11. QED
      BY <3>10 DEF Mirrored, Between, new
  <2>6. QED
    BY <2>4, <2>5
<1>5. QED
  BY <1>1, <1>3, <1>4

\* The calls that write neither list: what they write, and where they go.
LEMMA MirrorOther ==
  ASSUME NEW w \in Workers, Step(w),
         ~FollowUser_PutFollowing(w), ~FollowUser_PutFollowers(w)
  PROVE  /\ \A u : /\ Lookup(kvstore', FollowingKey(u)) = Lookup(kvstore, FollowingKey(u))
                   /\ Lookup(kvstore', FollowersKey(u)) = Lookup(kvstore, FollowersKey(u))
         /\ UNCHANGED req
         /\ pc[w] # "follow_followers"
         /\ \/ \E label : /\ Goto(w, label) /\ label # "follow_followers"
                          /\ label \in FollowSteps => pc[w] \in FollowSteps
            \/ \E s : Finish(w, s)
            \/ Undefined
<1> DEFINE moved ==
      /\ UNCHANGED req
      /\ pc[w] # "follow_followers"
      /\ \/ \E label : /\ Goto(w, label) /\ label # "follow_followers"
                       /\ label \in FollowSteps => pc[w] \in FollowSteps
         \/ \E s : Finish(w, s)
         \/ Undefined
      /\ \/ kvstore' = kvstore
         \/ kvstore' = EraseFrom(kvstore, LatestKey)
         \/ \E k, v : /\ kvstore' = PutInto(kvstore, k, v)
                      /\ \/ k = UsersKey \/ k = LatestKey
                         \/ \E i : k = CawKey(i) \/ k = ChildrenKey(i)
<1>1. moved
  <2>1. CASE RegisterUser_Users(w) \/ PostCaw_Users(w) \/ PostCaw_Parent(w)
    BY <2>1 DEF RegisterUser_Users, PostCaw_Users, PostCaw_Parent, Get, FollowSteps
  <2>2. CASE PostCaw_Latest(w) \/ PostCaw_Increment(w) \/ PostCaw_RemoveLatest(w)
    BY <2>2 DEF PostCaw_Latest, PostCaw_Increment, PostCaw_RemoveLatest, Get, Write, FollowSteps
  <2>3. CASE RegisterUser_Put(w) \/ PostCaw_PutLatest(w)
    BY <2>3, PutDoes DEF RegisterUser_Put, PostCaw_PutLatest, FollowSteps
  <2>4. CASE PostCaw_Put(w) \/ PostCaw_PutChild(w)
    BY <2>4, PutDoes DEF PostCaw_Put, PostCaw_PutChild, FollowSteps
  <2>5. CASE ReadCaw_Start(w) \/ ReadCaw_Caw(w) \/ ReadCaw_Children(w) \/ ReadCaw_End(w)
    BY <2>5 DEF ReadCaw_Start, ReadCaw_Caw, ReadCaw_Children, ReadCaw_End, Get, FollowSteps
  <2>6. CASE FollowUser_Users(w) \/ FollowUser_Unknown(w) \/ FollowUser_Check(w)
    BY <2>6 DEF FollowUser_Users, FollowUser_Unknown, FollowUser_Check, Get, FollowSteps
  <2>7. CASE GetProfile_Users(w) \/ GetProfile_Followers(w) \/ GetProfile_Following(w)
    BY <2>7 DEF GetProfile_Users, GetProfile_Followers, GetProfile_Following, Get, FollowSteps
  <2>8. QED
    BY <2>1, <2>2, <2>3, <2>4, <2>5, <2>6, <2>7 DEF Step
<1>2. \A u, i : /\ FollowingKey(u) # UsersKey /\ FollowersKey(u) # UsersKey
                /\ FollowingKey(u) # LatestKey /\ FollowersKey(u) # LatestKey
                /\ FollowingKey(u) # CawKey(i) /\ FollowersKey(u) # CawKey(i)
                /\ FollowingKey(u) # ChildrenKey(i) /\ FollowersKey(u) # ChildrenKey(i)
  BY DEF FollowingKey, FollowersKey, UsersKey, LatestKey, CawKey, ChildrenKey
<1>3. /\ \A k, v, x : x # k => Lookup(PutInto(kvstore, k, v), x) = Lookup(kvstore, x)
      /\ \A x : x # LatestKey => Lookup(EraseFrom(kvstore, LatestKey), x) = Lookup(kvstore, x)
  BY DEF PutInto, EraseFrom, Lookup
<1>4. \A u : /\ Lookup(kvstore', FollowingKey(u)) = Lookup(kvstore, FollowingKey(u))
             /\ Lookup(kvstore', FollowersKey(u)) = Lookup(kvstore, FollowersKey(u))
  <2>1. CASE kvstore' = kvstore
    BY <2>1
  <2>2. CASE kvstore' = EraseFrom(kvstore, LatestKey)
    BY <2>2, <1>2, <1>3
  <2>3. CASE \E k, v : /\ kvstore' = PutInto(kvstore, k, v)
                       /\ \/ k = UsersKey \/ k = LatestKey
                          \/ \E i : k = CawKey(i) \/ k = ChildrenKey(i)
    BY <2>3, <1>2, <1>3
  <2>4. QED
    BY <1>1, <2>1, <2>2, <2>3
<1>5. QED
  BY <1>1, <1>4

\* Every step keeps the invariant of the two lists.
LEMMA FollowNext ==
  ASSUME IsFiniteSet(Workers), FollowInv, [Next]_vars
  PROVE  FollowInv'
<1> DEFINE kept == (\A u, v : Mirrored(u, v))' /\ UserLists(kvstore')
           ops == \A w \in Workers : pc'[w] \in FollowSteps => req'[w].op = "follow"
<1>1. Inv' /\ Counted'
  BY InvNext, CountedNext DEF FollowInv
<1>2. CASE UNCHANGED vars
  BY <1>1, <1>2 DEF vars, FollowInv, Mirrored, Between, Stable, UserLists
<1>3. CASE Crash
  <2>1. /\ pc' = [w \in Workers |-> "idle"] /\ UNCHANGED <<kvstore, req>>
        /\ crashes' = crashes + 1 /\ crashes \in Nat
    BY <1>3 DEF Crash, Die, FollowInv, Counted
  <2>2. ~Stable'
    BY <2>1 DEF Stable
  <2>3. kept
    BY <2>1, <2>2, MirrorElsewhere
  <2>4. ops
    BY <2>1 DEF FollowSteps
  <2>5. QED
    BY <1>1, <2>3, <2>4 DEF FollowInv
<1>4. ASSUME NEW w \in Workers, NEW r \in Requests, Begin(w, r) PROVE FollowInv'
  <2>1. /\ pc[w] = "idle" /\ pc' = [pc EXCEPT ![w] = r.op] /\ req' = [req EXCEPT ![w] = r]
        /\ UNCHANGED kvstore /\ DOMAIN pc = Workers /\ DOMAIN req = Workers
    BY <1>4 DEF Begin, FollowInv, Inv
  <2>2. r.op \in {"registeruser", "profile", "caw", "read", "follow"}
    BY DEF Requests
  <2>3. \A x \in Workers : IF x = w THEN pc'[x] = r.op /\ req'[x] = r
                                    ELSE pc'[x] = pc[x] /\ req'[x] = req[x]
    BY <2>1
  <2>4. kept
    BY <2>1, <2>2, <2>3, MirrorElsewhere
  <2>5. ops
    BY <2>2, <2>3 DEF FollowInv, FollowSteps
  <2>6. QED
    BY <1>1, <2>4, <2>5 DEF FollowInv
<1>5. ASSUME NEW w \in Workers, Step(w) PROVE FollowInv'
  <2>1. CASE FollowUser_PutFollowing(w) \/ FollowUser_PutFollowers(w)
    <3>1. kept
      BY <2>1, MirrorFollowing, MirrorFollowers
    <3>2. /\ pc[w] \in FollowSteps /\ UNCHANGED req /\ DOMAIN pc = Workers
          /\ Goto(w, "follow_followers") \/ Finish(w, "OK")
      BY <2>1, PutDoes
         DEF FollowUser_PutFollowing, FollowUser_PutFollowers, FollowSteps, FollowInv, Inv
    <3>3. ops
      BY <3>2 DEF Goto, Finish, FollowInv, FollowSteps
    <3>4. QED
      BY <1>1, <3>1, <3>3 DEF FollowInv
  <2>2. CASE ~FollowUser_PutFollowing(w) /\ ~FollowUser_PutFollowers(w)
    <3>1. /\ \A u : /\ Lookup(kvstore', FollowingKey(u)) = Lookup(kvstore, FollowingKey(u))
                    /\ Lookup(kvstore', FollowersKey(u)) = Lookup(kvstore, FollowersKey(u))
          /\ UNCHANGED req
          /\ pc[w] # "follow_followers"
          /\ \/ \E label : /\ Goto(w, label) /\ label # "follow_followers"
                           /\ label \in FollowSteps => pc[w] \in FollowSteps
             \/ \E s : Finish(w, s)
             \/ Undefined
      BY <1>5, <2>2, MirrorOther
    <3>2. DOMAIN pc = Workers
      BY DEF FollowInv, Inv
    <3>3. /\ \A x \in Workers : pc'[x] = "follow_followers" => pc[x] = "follow_followers"
          /\ \A x \in Workers : pc'[x] \in FollowSteps => pc[x] \in FollowSteps
          /\ Stable' => \A x \in Workers : pc[x] = "follow_followers"
                                             => pc'[x] = "follow_followers"
      <4>1. CASE \E label : /\ Goto(w, label) /\ label # "follow_followers"
                            /\ label \in FollowSteps => pc[w] \in FollowSteps
        BY <3>1, <3>2, <4>1 DEF Goto
      <4>2. CASE \E s : Finish(w, s)
        BY <3>1, <3>2, <4>2 DEF Finish, FollowSteps
      <4>3. CASE Undefined
        BY <4>3 DEF Undefined, Die, Stable, FollowSteps
      <4>4. QED
        BY <3>1, <4>1, <4>2, <4>3
    <3>4. kept
      BY <3>1, <3>3, MirrorElsewhere
    <3>5. ops
      BY <3>1, <3>3 DEF FollowInv
    <3>6. QED
      BY <1>1, <3>4, <3>5 DEF FollowInv
  <2>3. QED
    BY <2>1, <2>2
<1>6. QED
  BY <1>2, <1>3, <1>4, <1>5 DEF Next

\* At first both lists are empty.
LEMMA FollowInit == Init => FollowInv
<1> SUFFICES ASSUME Init PROVE FollowInv
  OBVIOUS
<1>1. \A k : Lookup(kvstore, k) = <<>>
  BY DEF Init, EmptyStore, Lookup
<1>2. <<>> \in Seq(Users)
  OBVIOUS
<1>3. \A x : Count(<<>>, x) = 0
  <2>1. ASSUME NEW x PROVE {j \in DOMAIN <<>> : <<>>[j] = x} = {}
    OBVIOUS
  <2>2. QED
    BY <2>1, FS_EmptySet DEF Count
<1>4. \A u, v : Cardinality(Between(u, v)) = 0
  <2>1. \A u, v : Between(u, v) = {}
    BY DEF Init, Between
  <2>2. QED
    BY <2>1, FS_EmptySet
<1>5. \A u, v : Mirrored(u, v)
  BY <1>1, <1>3, <1>4 DEF Mirrored, Follows, Followed
<1>6. QED
  BY <1>1, <1>2, <1>5, InvInit DEF Init, FollowInv, Counted, UserLists, FollowSteps

\* As long as no remote call failed, u is among the followers of v as often as
\* v is among those u follows, up to requests that are between the two Puts of
\* FollowUser (caw_functions.cpp:165-168) and processes that died there, for
\* any number of server threads.
THEOREM FollowListsMirror ==
  ASSUME IsFiniteSet(Workers)
  PROVE  Spec => []FollowMirror
<1>1. FollowInv => FollowMirror
  BY DEF FollowInv, FollowMirror, Mirrored, Between, Follows, Followed, Stored
<1>2. FollowInv /\ [Next]_vars => FollowInv'
  BY FollowNext
<1>3. QED
  BY <1>1, <1>2, FollowInit, PTL DEF Spec

-----------------------------------------------------------------------------
\* The list of children of PostCaw.

\* Caws number i that reply to p.
RepliesTo(i, p) == {c \in CawsAt(i) : c.parent_id = p}

Replies(f, p, i) == Cardinality(Places(Lookup(f, CawKey(i)), RepliesTo(i, p)))
Listed(f, p, i) == Count(Lookup(f, ChildrenKey(p)), i)

\* Requests that have stored their caw, but not yet listed it.
Unlisted(p, i) == {w \in Workers : /\ pc[w] = "caw_put_child"
                                   /\ req[w].parent_id = p
                                   /\ id[w] = i}

IsList(q) == q \in Seq(ToSet(q))

ChildLists(f) == \A p : IsList(Lookup(f, ChildrenKey(p)))

\* Caw i is listed under p as often as it replies to p.
Exact(p, i) ==
  LET unlisted == Cardinality(Unlisted(p, i))
  IN /\ failures = 0 => Listed(kvstore, p, i) + unlisted <= Replies(kvstore, p, i)
     /\ Stable => Listed(kvstore, p, i) + unlisted = Replies(kvstore, p, i)

ChildInv ==
  /\ Inv
  /\ Counted
  /\ DOMAIN id = Workers
  /\ ChildLists(kvstore)
  /\ \A p \in CawIds, i \in CawIds : Exact(p, i)

\* A list with one more value is a list.
LEMMA ListAppend ==
  ASSUME NEW q, IsList(q), NEW v
  PROVE  IsList(Append(q, v))
<1> DEFINE S == ToSet(q) \cup {v}
<1>1. q \in Seq(S)
  <2>1. Len(q) \in Nat /\ q \in [1 .. Len(q) -> ToSet(q)]
    BY DEF IsList
  <2>2. QED
    BY <2>1
<1>2. Append(q, v) \in Seq(S)
  BY <1>1, AppendProperties
<1>3. ToSet(Append(q, v)) = S
  BY ElementsOfAppend DEF IsList
<1>4. QED
  BY <1>2, <1>3 DEF IsList

\* The two counts are numbers.
LEMMA ChildCounts ==
  ASSUME ChildInv, NEW p, NEW i
  PROVE  Listed(kvstore, p, i) \in Nat /\ Replies(kvstore, p, i) \in Nat
<1>1. Listed(kvstore, p, i) \in Nat
  BY CountOfAppend DEF ChildInv, ChildLists, IsList, Listed
<1>2. Replies(kvstore, p, i) \in Nat
  BY PlacesOfAppend DEF ChildInv, Inv, Sound, Replies
<1>3. QED
  BY <1>1, <1>2

\* A step that writes neither caws nor children, in which no thread comes
\* between the two Puts, and none leaves that place unless something crashes.
LEMMA ExactElsewhere ==
  ASSUME IsFiniteSet(Workers), ChildInv, [Next]_vars,
         \A p : /\ Lookup(kvstore', ChildrenKey(p)) = Lookup(kvstore, ChildrenKey(p))
                /\ Lookup(kvstore', CawKey(p)) = Lookup(kvstore, CawKey(p)),
         \A w \in Workers : pc'[w] = "caw_put_child" =>
           pc[w] = "caw_put_child" /\ req'[w] = req[w],
         \A w \in Workers : pc[w] = "caw_put_child" => id'[w] = id[w],
         Stable' => \A w \in Workers : pc[w] = "caw_put_child" => pc'[w] = "caw_put_child"
  PROVE  (\A p \in CawIds, i \in CawIds : Exact(p, i))' /\ ChildLists(kvstore')
<1>1. ChildLists(kvstore')
  BY DEF ChildInv, ChildLists
<1>2. ASSUME NEW p \in CawIds, NEW i \in CawIds PROVE Exact(p, i)'
  <2> DEFINE old == Unlisted(p, i)
             new == {w \in Workers : /\ pc'[w] = "caw_put_child"
                                     /\ req'[w].parent_id = p
                                     /\ id'[w] = i}
  <2>1. new \in SUBSET old /\ old \in SUBSET Workers
    BY DEF Unlisted
  <2>2. Stable' => new = old
    BY DEF Unlisted
  <2> HIDE DEF new, old
  <2>3. IsFiniteSet(old) /\ Cardinality(old) \in Nat
    BY <2>1, FS_Subset, FS_CardinalityType
  <2>4. Cardinality(new) \in Nat /\ Cardinality(new) <= Cardinality(old)
    BY <2>1, <2>3, FS_Subset, FS_CardinalityType
  <2>5. /\ Listed(kvstore', p, i) = Listed(kvstore, p, i)
        /\ Replies(kvstore', p, i) = Replies(kvstore, p, i)
    BY DEF Listed, Replies
  <2>6. Listed(kvstore, p, i) \in Nat /\ Replies(kvstore, p, i) \in Nat
    BY ChildCounts
  <2>7. (failures' = 0 => failures = 0) /\ (Stable' => Stable)
    BY CountedNext DEF ChildInv
  <2>8. /\ failures = 0 => Listed(kvstore, p, i) + Cardinality(old) <= Replies(kvstore, p, i)
        /\ Stable => Listed(kvstore, p, i) + Cardinality(old) = Replies(kvstore, p, i)
    BY DEF ChildInv, Exact, old
  <2>9. /\ failures' = 0 => Listed(kvstore', p, i) + Cardinality(new) <= Replies(kvstore', p, i)
        /\ Stable' => Listed(kvstore', p, i) + Cardinality(new) = Replies(kvstore', p, i)
    BY <2>2, <2>3, <2>4, <2>5, <2>6, <2>7, <2>8
  <2>10. QED
    BY <2>9 DEF Exact, Unlisted, new
<1>3. QED
  BY <1>1, <1>2

\* The caw is stored: one more reply, one more to be listed, unless it has no parent.
LEMMA ExactPut ==
  ASSUME IsFiniteSet(Workers), ChildInv, NEW w \in Workers, PostCaw_Put(w)
  PROVE  (\A p \in CawIds, i \in CawIds : Exact(p, i))' /\ ChildLists(kvstore')
<1> DEFINE n == id[w]
           a == req[w].parent_id
           k == CawKey(n)
           q == Lookup(kvstore, k)
<1>1. /\ pc[w] = "caw_put" /\ UNCHANGED <<req, id, crashes, undefined>> /\ failures \in Nat
      /\ pc' = [pc EXCEPT ![w] = IF a = NoParent THEN "idle" ELSE "caw_put_child"]
      /\ \/ kvstore' = kvstore /\ failures' = failures + 1
         \/ kvstore' = PutInto(kvstore, k, Caw(w)) /\ failures' = failures
  BY DEF PostCaw_Put, Put, Write, locals, Goto, Finish, ChildInv, Counted
<1>2. Caw(w) \in CawsAt(n) /\ Caw(w).parent_id = a /\ q \in Seq(CawsAt(n))
  <2>1. req[w] \in Requests /\ req[w].op = "caw"
    BY <1>1 DEF ChildInv, Inv, Checked, PostCawSteps, Posting
  <2>2. req[w].username \in Users /\ a \in CawIds \cup {NoParent}
    BY <2>1 DEF Requests
  <2>3. QED
    BY <2>2 DEF Caw, CawsAt, ChildInv, Inv, Sound
<1>3. CASE kvstore' = kvstore /\ failures' = failures + 1
  BY <1>1, <1>3 DEF ChildInv, Exact, Stable
<1>4. CASE kvstore' = PutInto(kvstore, k, Caw(w)) /\ failures' = failures
  <2>1. /\ Lookup(kvstore', k) = Append(q, Caw(w))
        /\ \A x : x # k => Lookup(kvstore', x) = Lookup(kvstore, x)
    BY <1>4 DEF PutInto, Lookup
  <2>2. \A p : Lookup(kvstore', ChildrenKey(p)) = Lookup(kvstore, ChildrenKey(p))
    BY <2>1, KeysDiffer
  <2>3. ChildLists(kvstore')
    BY <2>2 DEF ChildInv, ChildLists
  <2>4. ASSUME NEW p \in CawIds, NEW i \in CawIds PROVE Exact(p, i)'
    <3> DEFINE old == Unlisted(p, i)
               new == {x \in Workers : /\ pc'[x] = "caw_put_child"
                                       /\ req'[x].parent_id = p
                                       /\ id'[x] = i}
               same == p = a /\ i = n
    <3>1. p # NoParent
      BY BoundsAssumption DEF CawIds
    <3>2. new = IF same THEN old \cup {w} ELSE old
      <4>1. \A x \in Workers :
              pc'[x] = IF x # w THEN pc[x] ELSE IF a = NoParent THEN "idle" ELSE "caw_put_child"
        BY <1>1 DEF ChildInv, Inv
      <4>2. QED
        BY <1>1, <3>1, <4>1 DEF Unlisted
    <3>3. w \notin old /\ old \in SUBSET Workers
      BY <1>1 DEF Unlisted
    <3> HIDE DEF old, new
    <3>4. IsFiniteSet(old) /\ Cardinality(old) \in Nat
      BY <3>3, FS_Subset, FS_CardinalityType
    <3>5. Cardinality(new) = IF same THEN Cardinality(old) + 1 ELSE Cardinality(old)
      BY <3>2, <3>3, <3>4, FS_AddElement
    <3>6. Listed(kvstore', p, i) = Listed(kvstore, p, i)
      BY <2>2 DEF Listed
    <3>7. Replies(kvstore', p, i) =
            IF same THEN Replies(kvstore, p, i) + 1 ELSE Replies(kvstore, p, i)
      <4> DEFINE T == RepliesTo(n, p)
                 old2 == Cardinality(Places(q, T))
      <4>1. Caw(w) \in T <=> p = a
        BY <1>2 DEF RepliesTo
      <4> HIDE DEF q, n, T
      <4>2. Cardinality(Places(Append(q, Caw(w)), T)) = IF Caw(w) \in T THEN old2 + 1 ELSE old2
        BY <1>2, PlacesOfAppend
      <4>3. CASE i = n
        <5>1. /\ Replies(kvstore, p, i) = old2
              /\ Replies(kvstore', p, i) = Cardinality(Places(Append(q, Caw(w)), T))
          BY <2>1, <4>3 DEF Replies, q, T
        <5>2. QED
          BY <4>1, <4>2, <4>3, <5>1
      <4>4. CASE i # n
        BY <2>1, <4>4, KeysDiffer DEF Replies
      <4>5. QED
        BY <4>3, <4>4
    <3>8. Listed(kvstore, p, i) \in Nat /\ Replies(kvstore, p, i) \in Nat
      BY ChildCounts
    <3>9. /\ failures = 0 => Listed(kvstore, p, i) + Cardinality(old) <= Replies(kvstore, p, i)
          /\ Stable => Listed(kvstore, p, i) + Cardinality(old) = Replies(kvstore, p, i)
      BY DEF ChildInv, Exact, old
    <3>10. Stable' = Stable /\ failures' = failures
      BY <1>1, <1>4 DEF Stable
    <3> HIDE DEF same
    <3>11. /\ failures' = 0 => Listed(kvstore', p, i) + Cardinality(new) <= Replies(kvstore', p, i)
           /\ Stable' => Listed(kvstore', p, i) + Cardinality(new) = Replies(kvstore', p, i)
      BY <3>4, <3>5, <3>6, <3>7, <3>8, <3>9, <3>10
    <3>12. QED
      BY <3>11 DEF Exact, Unlisted, new
  <2>5. QED
    BY <2>3, <2>4
<1>5. QED
  BY <1>1, <1>3, <1>4

\* The caw is listed: one more listed, one fewer to be listed.
LEMMA ExactPutChild ==
  ASSUME IsFiniteSet(Workers), ChildInv, NEW w \in Workers, PostCaw_PutChild(w)
  PROVE  (\A p \in CawIds, i \in CawIds : Exact(p, i))' /\ ChildLists(kvstore')
<1> DEFINE n == id[w]
           a == req[w].parent_id
           k == ChildrenKey(a)
           q == Lookup(kvstore, k)
<1>1. /\ pc[w] = "caw_put_child" /\ UNCHANGED <<req, id, crashes, undefined>>
      /\ failures \in Nat /\ pc' = [pc EXCEPT ![w] = "idle"]
      /\ \/ kvstore' = kvstore /\ failures' = failures + 1
         \/ kvstore' = PutInto(kvstore, k, n) /\ failures' = failures
  BY DEF PostCaw_PutChild, Put, Write, locals, Finish, ChildInv, Counted
<1>2. CASE kvstore' = kvstore /\ failures' = failures + 1
  BY <1>1, <1>2 DEF ChildInv, Exact, Stable
<1>3. CASE kvstore' = PutInto(kvstore, k, n) /\ failures' = failures
  <2>1. /\ Lookup(kvstore', k) = Append(q, n)
        /\ \A x : x # k => Lookup(kvstore', x) = Lookup(kvstore, x)
    BY <1>3 DEF PutInto, Lookup
  <2>2. \A p : ChildrenKey(p) = k => p = a
    BY DEF ChildrenKey
  <2>3. \A i : Lookup(kvstore', CawKey(i)) = Lookup(kvstore, CawKey(i))
    BY <2>1, KeysDiffer
  <2>4. IsList(q)
    BY DEF ChildInv, ChildLists
  <2>5. ChildLists(kvstore')
    BY <2>1, <2>2, <2>4, ListAppend DEF ChildInv, ChildLists
  <2>6. ASSUME NEW p \in CawIds, NEW i \in CawIds PROVE Exact(p, i)'
    <3> DEFINE old == Unlisted(p, i)
               new == {x \in Workers : /\ pc'[x] = "caw_put_child"
                                       /\ req'[x].parent_id = p
                                       /\ id'[x] = i}
               same == p = a /\ i = n
    <3>1. new = old \ {w} /\ (w \in old <=> same) /\ old \in SUBSET Workers
      <4>1. \A x \in Workers : pc'[x] = IF x = w THEN "idle" ELSE pc[x]
        BY <1>1 DEF ChildInv, Inv
      <4>2. QED
        BY <1>1, <4>1 DEF Unlisted
    <3>2. Listed(kvstore', p, i) =
            IF same THEN Listed(kvstore, p, i) + 1 ELSE Listed(kvstore, p, i)
      <4>1. Count(Append(q, n), i) = IF n = i THEN Count(q, i) + 1 ELSE Count(q, i)
        <5> HIDE DEF q, n
        <5>1. QED
          BY <2>4, CountOfAppend DEF IsList
      <4>2. CASE p = a
        BY <2>1, <4>1, <4>2 DEF Listed
      <4>3. CASE p # a
        BY <2>1, <2>2, <4>3 DEF Listed
      <4>4. QED
        BY <4>2, <4>3
    <3> HIDE DEF old, new, same
    <3>3. IsFiniteSet(old) /\ Cardinality(old) \in Nat
      BY <3>1, FS_Subset, FS_CardinalityType
    <3>4. Cardinality(new) = IF same THEN Cardinality(old) - 1 ELSE Cardinality(old)
      BY <3>1, <3>3, FS_RemoveElement
    <3>5. Replies(kvstore', p, i) = Replies(kvstore, p, i)
      BY <2>3 DEF Replies
    <3>6. Listed(kvstore, p, i) \in Nat /\ Replies(kvstore, p, i) \in Nat
      BY ChildCounts
    <3>7. /\ failures = 0 => Listed(kvstore, p, i) + Cardinality(old) <= Replies(kvstore, p, i)
          /\ Stable => Listed(kvstore, p, i) + Cardinality(old) = Replies(kvstore, p, i)
      BY DEF ChildInv, Exact, old
    <3>8. Stable' = Stable /\ failures' = failures
      BY <1>1, <1>3 DEF Stable
    <3>9. /\ failures' = 0 => Listed(kvstore', p, i) + Cardinality(new) <= Replies(kvstore', p, i)
          /\ Stable' => Listed(kvstore', p, i) + Cardinality(new) = Replies(kvstore', p, i)
      BY <3>2, <3>3, <3>4, <3>5, <3>6, <3>7, <3>8
    <3>10. QED
      BY <3>9 DEF Exact, Unlisted, new
  <2>7. QED
    BY <2>5, <2>6
<1>4. QED
  BY <1>1, <1>2, <1>3

\* The calls that write neither caws nor children: what they write, and where
\* they go.
LEMMA ExactOther ==
  ASSUME NEW w \in Workers, Step(w), ~PostCaw_Put(w), ~PostCaw_PutChild(w)
  PROVE  /\ \A p : /\ Lookup(kvstore', ChildrenKey(p)) = Lookup(kvstore, ChildrenKey(p))
                   /\ Lookup(kvstore', CawKey(p)) = Lookup(kvstore, CawKey(p))
         /\ UNCHANGED req
         /\ pc[w] # "caw_put_child"
         /\ UNCHANGED id \/ \E i : id' = [id EXCEPT ![w] = i]
         /\ \/ \E label : Goto(w, label) /\ label # "caw_put_child"
            \/ \E s : Finish(w, s)
            \/ Undefined
<1> DEFINE moved ==
      /\ UNCHANGED req
      /\ pc[w] # "caw_put_child"
      /\ UNCHANGED id \/ \E i : id' = [id EXCEPT ![w] = i]
      /\ \/ \E label : Goto(w, label) /\ label # "caw_put_child"
         \/ \E s : Finish(w, s)
         \/ Undefined
      /\ \/ kvstore' = kvstore
         \/ kvstore' = EraseFrom(kvstore, LatestKey)
         \/ \E k, v : /\ kvstore' = PutInto(kvstore, k, v)
                      /\ \/ k = UsersKey \/ k = LatestKey
                         \/ \E u : k = FollowingKey(u) \/ k = FollowersKey(u)
<1>1. moved
  <2>1. CASE RegisterUser_Users(w) \/ PostCaw_Users(w) \/ PostCaw_Parent(w)
    BY <2>1 DEF RegisterUser_Users, PostCaw_Users, PostCaw_Parent, Get, locals
  <2>2. CASE PostCaw_Latest(w) \/ PostCaw_Increment(w) \/ PostCaw_RemoveLatest(w)
    BY <2>2 DEF PostCaw_Latest, PostCaw_Increment, PostCaw_RemoveLatest, Get, Write, locals
  <2>3. CASE RegisterUser_Put(w) \/ PostCaw_PutLatest(w)
    BY <2>3, PutDoes, PutKeeps DEF RegisterUser_Put, PostCaw_PutLatest
  <2>4. CASE FollowUser_PutFollowing(w) \/ FollowUser_PutFollowers(w)
    BY <2>4, PutDoes, PutKeeps DEF FollowUser_PutFollowing, FollowUser_PutFollowers
  <2>5. CASE ReadCaw_Start(w) \/ ReadCaw_Caw(w) \/ ReadCaw_Children(w) \/ ReadCaw_End(w)
    BY <2>5 DEF ReadCaw_Start, ReadCaw_Caw, ReadCaw_Children, ReadCaw_End, Get, locals
  <2>6. CASE FollowUser_Users(w) \/ FollowUser_Unknown(w) \/ FollowUser_Check(w)
    BY <2>6 DEF FollowUser_Users, FollowUser_Unknown, FollowUser_Check, Get, locals
  <2>7. CASE GetProfile_Users(w) \/ GetProfile_Followers(w) \/ GetProfile_Following(w)
    BY <2>7 DEF GetProfile_Users, GetProfile_Followers, GetProfile_Following, Get, locals
  <2>8. QED
    BY <2>1, <2>2, <2>3, <2>4, <2>5, <2>6, <2>7 DEF Step
<1>2. \A p, u : /\ ChildrenKey(p) # UsersKey /\ CawKey(p) # UsersKey
                /\ ChildrenKey(p) # LatestKey /\ CawKey(p) # LatestKey
                /\ ChildrenKey(p) # FollowingKey(u) /\ CawKey(p) # FollowingKey(u)
                /\ ChildrenKey(p) # FollowersKey(u) /\ CawKey(p) # FollowersKey(u)
  BY DEF FollowingKey, FollowersKey, UsersKey, LatestKey, CawKey, ChildrenKey
<1>3. /\ \A k, v, x : x # k => Lookup(PutInto(kvstore, k, v), x) = Lookup(kvstore, x)
      /\ \A x : x # LatestKey => Lookup(EraseFrom(kvstore, LatestKey), x) = Lookup(kvstore, x)
  BY DEF PutInto, EraseFrom, Lookup
<1>4. \A p : /\ Lookup(kvstore', ChildrenKey(p)) = Lookup(kvstore, ChildrenKey(p))
             /\ Lookup(kvstore', CawKey(p)) = Lookup(kvstore, CawKey(p))
  <2>1. CASE kvstore' = kvstore
    BY <2>1
  <2>2. CASE kvstore' = EraseFrom(kvstore, LatestKey)
    BY <2>2, <1>2, <1>3
  <2>3. CASE \E k, v : /\ kvstore' = PutInto(kvstore, k, v)
                       /\ \/ k = UsersKey \/ k = LatestKey
                          \/ \E u : k = FollowingKey(u) \/ k = FollowersKey(u)
    BY <2>3, <1>2, <1>3
  <2>4. QED
    BY <1>1, <2>1, <2>2, <2>3
<1>5. QED
  BY <1>1, <1>4

\* Every step keeps the invariant of the lists of children.
LEMMA ChildNext ==
  ASSUME IsFiniteSet(Workers), ChildInv, [Next]_vars
  PROVE  ChildInv'
<1> DEFINE kept == (\A p \in CawIds, i \in CawIds : Exact(p, i))' /\ ChildLists(kvstore')
<1>1. Inv' /\ Counted'
  BY InvNext, CountedNext DEF ChildInv
<1>2. CASE UNCHANGED vars
  BY <1>1, <1>2 DEF vars, locals, ChildInv, Exact, Unlisted, Stable
<1>3. CASE Crash
  <2>1. /\ pc' = [w \in Workers |-> "idle"] /\ UNCHANGED <<kvstore, req, id>>
        /\ crashes' = crashes + 1 /\ crashes \in Nat
    BY <1>3 DEF Crash, Die, locals, ChildInv, Counted
  <2>2. ~Stable'
    BY <2>1 DEF Stable
  <2>3. kept
    BY <2>1, <2>2, ExactElsewhere
  <2>4. QED
    BY <1>1, <2>1, <2>3 DEF ChildInv
<1>4. ASSUME NEW w \in Workers, NEW r \in Requests, Begin(w, r) PROVE ChildInv'
  <2>1. /\ pc[w] = "idle" /\ pc' = [pc EXCEPT ![w] = r.op] /\ req' = [req EXCEPT ![w] = r]
        /\ id' = [id EXCEPT ![w] = 0] /\ UNCHANGED kvstore
        /\ DOMAIN pc = Workers /\ DOMAIN req = Workers /\ DOMAIN id = Workers
    BY <1>4 DEF Begin, ChildInv, Inv
  <2>2. r.op # "caw_put_child"
    BY DEF Requests
  <2>3. \A x \in Workers : IF x = w THEN pc'[x] = r.op
                                    ELSE pc'[x] = pc[x] /\ req'[x] = req[x] /\ id'[x] = id[x]
    BY <2>1
  <2>4. kept
    BY <2>1, <2>2, <2>3, ExactElsewhere
  <2>5. DOMAIN id' = Workers
    BY <2>1
  <2>6. QED
    BY <1>1, <2>4, <2>5 DEF ChildInv
<1>5. ASSUME NEW w \in Workers, Step(w) PROVE ChildInv'
  <2>1. CASE PostCaw_Put(w) \/ PostCaw_PutChild(w)
    <3>1. kept
      BY <2>1, ExactPut, ExactPutChild
    <3>2. UNCHANGED id
      BY <2>1, PutKeeps DEF PostCaw_Put, PostCaw_PutChild
    <3>3. QED
      BY <1>1, <3>1, <3>2 DEF ChildInv
  <2>2. CASE ~PostCaw_Put(w) /\ ~PostCaw_PutChild(w)
    <3>1. /\ \A p : /\ Lookup(kvstore', ChildrenKey(p)) = Lookup(kvstore, ChildrenKey(p))
                    /\ Lookup(kvstore', CawKey(p)) = Lookup(kvstore, CawKey(p))
          /\ UNCHANGED req
          /\ pc[w] # "caw_put_child"
          /\ UNCHANGED id \/ \E i : id' = [id EXCEPT ![w] = i]
          /\ \/ \E label : Goto(w, label) /\ label # "caw_put_child"
             \/ \E s : Finish(w, s)
             \/ Undefined
      BY <1>5, <2>2, ExactOther
    <3>2. DOMAIN pc = Workers /\ DOMAIN id = Workers
      BY DEF ChildInv, Inv
    <3>3. DOMAIN id' = Workers /\ \A x \in Workers : x # w => id'[x] = id[x]
      BY <3>1, <3>2
    <3>4. /\ \A x \in Workers : pc'[x] = "caw_put_child" => pc[x] = "caw_put_child"
          /\ Stable' => \A x \in Workers : pc[x] = "caw_put_child" => pc'[x] = "caw_put_child"
      <4>1. CASE \E label : Goto(w, label) /\ label # "caw_put_child"
        BY <3>1, <3>2, <4>1 DEF Goto
      <4>2. CASE \E s : Finish(w, s)
        BY <3>1, <3>2, <4>2 DEF Finish
      <4>3. CASE Undefined
        BY <4>3 DEF Undefined, Die, Stable
      <4>4. QED
        BY <3>1, <4>1, <4>2, <4>3
    <3>5. kept
      BY <3>1, <3>3, <3>4, ExactElsewhere
    <3>6. QED
      BY <1>1, <3>3, <3>5 DEF ChildInv
  <2>3. QED
    BY <2>1, <2>2
<1>6. QED
  BY <1>2, <1>3, <1>4, <1>5 DEF Next

\* At first there is no caw.
LEMMA ChildInit == Init => ChildInv
<1> SUFFICES ASSUME Init PROVE ChildInv
  OBVIOUS
<1>1. \A k : Lookup(kvstore, k) = <<>>
  BY DEF Init, EmptyStore, Lookup
<1>2. IsList(<<>>)
  BY DEF IsList
<1>3. \A x, T : Count(<<>>, x) = 0 /\ Cardinality(Places(<<>>, T)) = 0
  <2>1. ASSUME NEW x, NEW T PROVE {j \in DOMAIN <<>> : <<>>[j] = x} = {} /\ Places(<<>>, T) = {}
    BY DEF Places
  <2>2. QED
    BY <2>1, FS_EmptySet DEF Count
<1>4. \A p, i : Cardinality(Unlisted(p, i)) = 0
  <2>1. \A p, i : Unlisted(p, i) = {}
    BY DEF Init, Unlisted
  <2>2. QED
    BY <2>1, FS_EmptySet
<1>5. \A p, i : Exact(p, i)
  BY <1>1, <1>3, <1>4 DEF Exact, Listed, Replies
<1>6. QED
  BY <1>1, <1>2, <1>5, InvInit DEF Init, ChildInv, Counted, ChildLists

\* As long as no remote call failed, a caw is listed under its parent only
\* after it was stored, and every stored reply is listed as often as it was
\* stored, except while its PostCaw is between the two Puts or if the process
\* died there (caw_functions.cpp:85-91), for any number of server threads.
THEOREM ChildListsExact ==
  ASSUME IsFiniteSet(Workers)
  PROVE  Spec => []ChildrenExact
<1>1. ChildInv => ChildrenExact
  <2> SUFFICES ASSUME ChildInv, NEW p \in CawIds, NEW i \in CawIds
               PROVE  LET q == Lookup(kvstore, CawKey(i))
                      IN {j \in DOMAIN q : q[j].parent_id = p} = Places(q, RepliesTo(i, p))
    BY DEF ChildInv, ChildrenExact, Exact, Unlisted, Listed, Replies, Stored, Children
  <2> DEFINE q == Lookup(kvstore, CawKey(i))
  <2>1. q \in Seq(CawsAt(i))
    BY DEF ChildInv, Inv, Sound
  <2> HIDE DEF q
  <2>2. \A j \in DOMAIN q : q[j] \in CawsAt(i)
    BY <2>1
  <2>3. {j \in DOMAIN q : q[j].parent_id = p} = Places(q, RepliesTo(i, p))
    BY <2>2 DEF Places, RepliesTo
  <2>4. QED
    BY <2>3 DEF q
<1>2. ChildInv /\ [Next]_vars => ChildInv'
  BY ChildNext
<1>3. QED
  BY <1>1, <1>2, ChildInit, PTL DEF Spec

-----------------------------------------------------------------------------
\* Lists only ever grow, latestCawId excepted.

Lists(f) == \A k : IsList(Lookup(f, k))

PrefixOf(x, q) ==
  /\ IsList(x)
  /\ Len(x) <= Len(q)
  /\ \A j \in 1 .. Len(x) : x[j] = q[j]

Extends(f, g) ==
  \A k : k # LatestKey =>
    /\ ToSet(Lookup(f, k)) \subseteq ToSet(Lookup(g, k))
    /\ \A x : PrefixOf(x, Lookup(f, k)) => PrefixOf(x, Lookup(g, k))

\* A store extends itself.
LEMMA ExtendsSame == \A f : Extends(f, f)
BY DEF Extends

\* A Put extends the store.
LEMMA ExtendsPut ==
  ASSUME NEW f, Lists(f), NEW k, NEW v
  PROVE  Lists(PutInto(f, k, v)) /\ Extends(f, PutInto(f, k, v))
<1> DEFINE g == PutInto(f, k, v)
           q == Lookup(f, k)
<1>1. /\ Lookup(g, k) = Append(q, v)
      /\ \A x : x # k => Lookup(g, x) = Lookup(f, x)
  BY DEF PutInto, Lookup
<1>2. IsList(q)
  BY DEF Lists
<1> HIDE DEF g, q
<1>3. IsList(Append(q, v)) /\ ToSet(q) \subseteq ToSet(Append(q, v))
  BY <1>2, ListAppend, ElementsOfAppend DEF IsList
<1>4. ASSUME NEW x, PrefixOf(x, q) PROVE PrefixOf(x, Append(q, v))
  <2>1. Len(q) \in Nat /\ Len(x) \in Nat
    BY <1>2, <1>4 DEF IsList, PrefixOf
  <2>2. Len(Append(q, v)) = Len(q) + 1 /\ \A j \in 1 .. Len(q) : Append(q, v)[j] = q[j]
    BY <1>2 DEF IsList, Append
  <2>3. QED
    BY <1>4, <2>1, <2>2 DEF PrefixOf
<1>5. Lists(g)
  BY <1>1, <1>3 DEF Lists
<1>6. Extends(f, g)
  BY <1>1, <1>3, <1>4 DEF Extends, q
<1>7. QED
  BY <1>5, <1>6 DEF g

\* So does the removal of the last id.
LEMMA ExtendsErase ==
  ASSUME NEW f, Lists(f)
  PROVE  Lists(EraseFrom(f, LatestKey)) /\ Extends(f, EraseFrom(f, LatestKey))
<1> DEFINE g == EraseFrom(f, LatestKey)
<1>1. /\ Lookup(g, LatestKey) = <<>>
      /\ \A x : x # LatestKey => Lookup(g, x) = Lookup(f, x)
  BY DEF EraseFrom, Lookup
<1>2. IsList(<<>>)
  BY DEF IsList
<1> HIDE DEF g
<1>3. Lists(g) /\ Extends(f, g)
  BY <1>1, <1>2 DEF Lists, Extends
<1>4. QED
  BY <1>3 DEF g

\* A store operation a step may do.
Written == \/ kvstore' = kvstore
           \/ kvstore' = EraseFrom(kvstore, LatestKey)
           \/ \E k, v : kvstore' = PutInto(kvstore, k, v)

\* Every step extends the store.
LEMMA StoreExtends ==
  ASSUME Lists(kvstore), [Next]_vars
  PROVE  Lists(kvstore') /\ Extends(kvstore, kvstore')
<1>1. CASE UNCHANGED vars \/ Crash \/ \E w \in Workers, r \in Requests : Begin(w, r)
  <2>1. kvstore' = kvstore
    BY <1>1 DEF vars, Crash, Begin
  <2>2. QED
    BY <2>1, ExtendsSame
<1>2. ASSUME NEW w \in Workers, Step(w) PROVE Lists(kvstore') /\ Extends(kvstore, kvstore')
  <2>1. CASE PostCaw_Put(w) \/ PostCaw_PutChild(w)
    BY <2>1, PutDoes, ExtendsPut, ExtendsSame DEF PostCaw_Put, PostCaw_PutChild
  <2>2. CASE FollowUser_PutFollowing(w) \/ FollowUser_PutFollowers(w)
    BY <2>2, PutDoes, ExtendsPut, ExtendsSame
       DEF FollowUser_PutFollowing, FollowUser_PutFollowers
  <2>3. CASE RegisterUser_Put(w) \/ PostCaw_PutLatest(w)
    BY <2>3, PutDoes, ExtendsPut, ExtendsSame DEF RegisterUser_Put, PostCaw_PutLatest
  <2>4. CASE PostCaw_RemoveLatest(w)
    BY <2>4, ExtendsErase, ExtendsSame DEF PostCaw_RemoveLatest, Write
  <2>5. CASE \/ RegisterUser_Users(w) \/ PostCaw_Users(w) \/ PostCaw_Parent(w)
             \/ PostCaw_Latest(w) \/ PostCaw_Increment(w)
    BY <2>5, ExtendsSame DEF RegisterUser_Users, PostCaw_Users, PostCaw_Parent,
                             PostCaw_Latest, PostCaw_Increment, Get
  <2>6. CASE ReadCaw_Start(w) \/ ReadCaw_Caw(w) \/ ReadCaw_Children(w) \/ ReadCaw_End(w)
    BY <2>6, ExtendsSame DEF ReadCaw_Start, ReadCaw_Caw, ReadCaw_Children, ReadCaw_End, Get
  <2>7. CASE FollowUser_Users(w) \/ FollowUser_Unknown(w) \/ FollowUser_Check(w)
    BY <2>7, ExtendsSame DEF FollowUser_Users, FollowUser_Unknown, FollowUser_Check, Get
  <2>8. CASE GetProfile_Users(w) \/ GetProfile_Followers(w) \/ GetProfile_Following(w)
    BY <2>8, ExtendsSame DEF GetProfile_Users, GetProfile_Followers, GetProfile_Following, Get
  <2>9. QED
    BY <1>2, <2>1, <2>2, <2>3, <2>4, <2>5, <2>6, <2>7, <2>8 DEF Step
<1>3. QED
  BY <1>1, <1>2 DEF Next

-----------------------------------------------------------------------------
\* What a reply reports.

ReadSteps == {"read", "read_caw", "read_children"}
ProfileSteps == {"profile", "profile_followers", "profile_following"}

ReadSoFar(w) == IsList(out[w]) /\ \A c \in ToSet(out[w]) : c \in CawsOf(c.id)

Reported(w) ==
  LET r == req[w]
  IN /\ r.op \in {"registeruser", "caw", "read", "follow", "profile"}
     /\ r.op = "registeruser" => r.username \in ToSet(Stored(UsersKey))
     /\ r.op = "caw" => /\ Caw(w) \in CawsOf(id[w])
                        /\ r.parent_id # NoParent => id[w] \in ToSet(Children(r.parent_id))
     /\ r.op = "read" => ReadSoFar(w)
     /\ r.op = "follow" => /\ r.to_follow \in ToSet(Stored(FollowingKey(r.username)))
                           /\ r.username \in ToSet(Stored(FollowersKey(r.to_follow)))
     /\ r.op = "profile" => /\ PrefixOf(out[w][1], Stored(FollowersKey(r.username)))
                            /\ PrefixOf(out[w][2], Stored(FollowingKey(r.username)))

\* What has been reported, or will be, is in the store.
Honest(w) ==
  LET r == req[w]
  IN /\ pc[w] = "idle" /\ status[w] = "OK" => Reported(w)
     /\ pc[w] = "caw_put_child" => Caw(w) \in CawsOf(id[w])
     /\ pc[w] \in ReadSteps => r.op = "read" /\ ReadSoFar(w)
     /\ pc[w] \in FollowSteps => r.op = "follow"
     /\ pc[w] = "follow_followers" => r.to_follow \in ToSet(Stored(FollowingKey(r.username)))
     /\ pc[w] \in ProfileSteps => r.op = "profile"
     /\ pc[w] = "profile_following" =>
          \E x : out[w] = <<x>> /\ PrefixOf(x, Stored(FollowersKey(r.username)))

AnswerInv ==
  /\ Inv
  /\ Counted
  /\ DOMAIN id = Workers /\ DOMAIN out = Workers /\ DOMAIN status = Workers
  /\ Lists(kvstore)
  /\ failures = 0 => \A w \in Workers : Honest(w)

\* A thread that does not move, or is killed, and the store extended by others.
LEMMA HonestStays ==
  ASSUME NEW w \in Workers, Honest(w), Extends(kvstore, kvstore'),
         req'[w] = req[w], id'[w] = id[w], out'[w] = out[w],
         \/ pc'[w] = pc[w] /\ status'[w] = status[w]
         \/ pc'[w] = "idle" /\ status'[w] # "OK"
  PROVE  Honest(w)'
<1>1. \A k : k # LatestKey =>
        /\ ToSet(Lookup(kvstore, k)) \subseteq ToSet(Lookup(kvstore', k))
        /\ \A x : PrefixOf(x, Lookup(kvstore, k)) => PrefixOf(x, Lookup(kvstore', k))
  BY DEF Extends
<1>2. \A x : /\ CawKey(x) # LatestKey /\ ChildrenKey(x) # LatestKey
             /\ FollowingKey(x) # LatestKey /\ FollowersKey(x) # LatestKey
             /\ UsersKey # LatestKey
  BY DEF CawKey, ChildrenKey, FollowingKey, FollowersKey, UsersKey, LatestKey
<1>3. \A i : \A c : c \in CawsOf(i) => c \in ToSet(Lookup(kvstore', CawKey(i)))
  BY <1>1, <1>2 DEF CawsOf, Stored
<1>4. Caw(w)' = Caw(w)
  BY DEF Caw
<1>5. ReadSoFar(w) => ReadSoFar(w)'
  BY <1>3 DEF ReadSoFar, CawsOf, Stored
<1>6. Reported(w) => Reported(w)'
  BY <1>1, <1>2, <1>3, <1>4, <1>5 DEF Reported, CawsOf, Children, Stored
<1>7. CASE pc'[w] = pc[w] /\ status'[w] = status[w]
  BY <1>1, <1>2, <1>3, <1>4, <1>5, <1>6, <1>7 DEF Honest, CawsOf, Stored
<1>8. CASE pc'[w] = "idle" /\ status'[w] # "OK"
  BY <1>8 DEF Honest, ReadSteps, FollowSteps, ProfileSteps
<1>9. QED
  BY <1>7, <1>8

\* The other threads while w takes a step.
LEMMA OthersStay ==
  ASSUME AnswerInv, NEW w \in Workers, Step(w)
  PROVE  /\ UNCHANGED req
         /\ DOMAIN id' = Workers /\ DOMAIN out' = Workers /\ DOMAIN status' = Workers
         /\ \A u \in Workers : u # w =>
              /\ id'[u] = id[u] /\ out'[u] = out[u]
              /\ \/ pc'[u] = pc[u] /\ status'[u] = status[u]
                 \/ pc'[u] = "idle" /\ status'[u] # "OK"
<1> DEFINE moved == /\ UNCHANGED req
                    /\ UNCHANGED id \/ \E i : id' = [id EXCEPT ![w] = i]
                    /\ UNCHANGED out \/ \E o : out' = [out EXCEPT ![w] = o]
                    /\ (\E label : Goto(w, label)) \/ (\E s : Finish(w, s)) \/ Undefined
<1>1. moved
  <2>1. CASE RegisterUser_Users(w) \/ PostCaw_Users(w) \/ PostCaw_Parent(w)
    BY <2>1 DEF RegisterUser_Users, PostCaw_Users, PostCaw_Parent, Get, locals
  <2>2. CASE PostCaw_Latest(w) \/ PostCaw_Increment(w) \/ PostCaw_RemoveLatest(w)
    BY <2>2 DEF PostCaw_Latest, PostCaw_Increment, PostCaw_RemoveLatest, Get, Write, locals
  <2>3. CASE RegisterUser_Put(w) \/ PostCaw_PutLatest(w)
    BY <2>3 DEF RegisterUser_Put, PostCaw_PutLatest, Put, Write, locals
  <2>4. CASE PostCaw_Put(w) \/ PostCaw_PutChild(w)
    BY <2>4 DEF PostCaw_Put, PostCaw_PutChild, Put, Write, locals
  <2>5. CASE ReadCaw_Start(w) \/ ReadCaw_Caw(w) \/ ReadCaw_Children(w) \/ ReadCaw_End(w)
    BY <2>5 DEF ReadCaw_Start, ReadCaw_Caw, ReadCaw_Children, ReadCaw_End, Get, locals
  <2>6. CASE \/ FollowUser_Users(w) \/ FollowUser_Unknown(w) \/ FollowUser_Check(w)
             \/ FollowUser_PutFollowing(w) \/ FollowUser_PutFollowers(w)
    BY <2>6 DEF FollowUser_Users, FollowUser_Unknown, FollowUser_Check,
                FollowUser_PutFollowing, FollowUser_PutFollowers, Get, Put, Write, locals
  <2>7. CASE GetProfile_Users(w) \/ GetProfile_Followers(w) \/ GetProfile_Following(w)
    BY <2>7 DEF GetProfile_Users, GetProfile_Followers, GetProfile_Following, Get, locals
  <2>8. QED
    BY <2>1, <2>2, <2>3, <2>4, <2>5, <2>6, <2>7 DEF Step
<1>2. DOMAIN pc = Workers /\ DOMAIN id = Workers /\ DOMAIN out = Workers
      /\ DOMAIN status = Workers
  BY DEF AnswerInv, Inv
<1>3. /\ DOMAIN id' = Workers /\ DOMAIN out' = Workers
      /\ \A u \in Workers : u # w => id'[u] = id[u] /\ out'[u] = out[u]
  BY <1>1, <1>2
<1>4. /\ DOMAIN status' = Workers
      /\ \A u \in Workers : u # w =>
           \/ pc'[u] = pc[u] /\ status'[u] = status[u]
           \/ pc'[u] = "idle" /\ status'[u] # "OK"
  <2>1. CASE \E label : Goto(w, label)
    BY <1>2, <2>1 DEF Goto
  <2>2. CASE \E s : Finish(w, s)
    BY <1>2, <2>2 DEF Finish
  <2>3. CASE Undefined
    BY <1>2, <2>3 DEF Undefined, Die
  <2>4. QED
    BY <1>1, <2>1, <2>2, <2>3
<1>5. QED
  BY <1>1, <1>3, <1>4

\* A Put was not lost, and a Get was complete, if no call has failed after it.
LEMMA CallSucceeds ==
  ASSUME Counted, failures' = 0
  PROVE  /\ \A w, label, k, v : Put(w, label, k, v) => kvstore' = PutInto(kvstore, k, v)
         /\ \A k, seen : Get(k, seen) => seen = Stored(k) /\ kvstore' = kvstore
BY DEF Counted, Put, Write, Get

\* What a Put has put is there.
LEMMA PutIsThere ==
  ASSUME Lists(kvstore), NEW k, NEW v, kvstore' = PutInto(kvstore, k, v)
  PROVE  v \in ToSet(Lookup(kvstore', k))
<1> DEFINE q == Lookup(kvstore, k)
<1>1. Lookup(kvstore', k) = Append(q, v) /\ q \in Seq(ToSet(q))
  BY DEF PutInto, Lookup, Lists, IsList
<1> HIDE DEF q
<1>2. QED
  BY <1>1, ElementsOfAppend

\* A thread that moves to where nothing is reported.
LEMMA HonestElsewhere ==
  ASSUME AnswerInv, NEW w \in Workers,
         \/ \E label : /\ Goto(w, label)
                       /\ label \notin {"idle", "caw_put_child"} \cup ReadSteps \cup FollowSteps
                                         \cup ProfileSteps
         \/ \E s : Finish(w, s) /\ s # "OK"
         \/ Undefined /\ pc[w] # "idle"
  PROVE  Honest(w)'
<1>1. DOMAIN pc = Workers /\ DOMAIN status = Workers
  BY DEF AnswerInv, Inv
<1>2. CASE \E label : /\ Goto(w, label)
                      /\ label \notin {"idle", "caw_put_child"} \cup ReadSteps \cup FollowSteps
                                        \cup ProfileSteps
  BY <1>1, <1>2 DEF Goto, Honest, FollowSteps, ProfileSteps
<1>3. CASE \E s : Finish(w, s) /\ s # "OK"
  BY <1>1, <1>3 DEF Finish, Honest, ReadSteps, FollowSteps, ProfileSteps
<1>4. CASE Undefined /\ pc[w] # "idle"
  BY <1>1, <1>4 DEF Undefined, Die, Honest, ReadSteps, FollowSteps, ProfileSteps
<1>5. QED
  BY <1>2, <1>3, <1>4

\* A thread that answers OK.
LEMMA HonestAnswer ==
  ASSUME AnswerInv, NEW w \in Workers, Finish(w, "OK"), Reported(w)'
  PROVE  Honest(w)'
BY DEF AnswerInv, Inv, Finish, Honest, ReadSteps, FollowSteps, ProfileSteps

\* RegisterUser answers honestly.
LEMMA HonestRegister ==
  ASSUME AnswerInv, failures' = 0, NEW w \in Workers,
         RegisterUser_Users(w) \/ RegisterUser_Put(w)
  PROVE  Honest(w)'
<1>1. CASE RegisterUser_Users(w)
  <2>1. \/ Finish(w, "ALREADY_EXISTS")
        \/ Goto(w, "register_put")
    BY <1>1 DEF RegisterUser_Users
  <2>2. QED
    BY <2>1, HonestElsewhere DEF ReadSteps, FollowSteps, ProfileSteps
<1>2. CASE RegisterUser_Put(w)
  <2>1. /\ req[w].op = "registeruser" /\ UNCHANGED req /\ Finish(w, "OK")
    BY <1>2, PutDoes DEF RegisterUser_Put, AnswerInv, Inv, Checked, RegisterSteps
  <2>2. req[w].username \in ToSet(Lookup(kvstore', UsersKey))
    BY <1>2, CallSucceeds, PutIsThere DEF RegisterUser_Put, AnswerInv
  <2>3. Reported(w)'
    BY <2>1, <2>2 DEF Reported, Stored
  <2>4. QED
    BY <2>1, <2>3, HonestAnswer
<1>3. QED
  BY <1>1, <1>2

\* PostCaw answers honestly.
LEMMA HonestPostCaw ==
  ASSUME AnswerInv, failures' = 0, NEW w \in Workers, Extends(kvstore, kvstore'), Honest(w),
         \/ PostCaw_Users(w) \/ PostCaw_Parent(w) \/ PostCaw_Latest(w)
         \/ PostCaw_Increment(w) \/ PostCaw_RemoveLatest(w) \/ PostCaw_PutLatest(w)
         \/ PostCaw_Put(w) \/ PostCaw_PutChild(w)
  PROVE  Honest(w)'
<1>1. CASE \/ PostCaw_Users(w) \/ PostCaw_Parent(w) \/ PostCaw_Latest(w)
           \/ PostCaw_Increment(w) \/ PostCaw_RemoveLatest(w) \/ PostCaw_PutLatest(w)
  <2>1. \/ \E label \in {"caw_latest", "caw_parent", "caw_put_latest", "caw_increment",
                         "caw_remove_latest", "caw_put"} : Goto(w, label)
        \/ Finish(w, "NOT_FOUND")
        \/ Undefined /\ pc[w] # "idle"
    BY <1>1 DEF PostCaw_Users, PostCaw_Parent, PostCaw_Latest, PostCaw_Increment,
                PostCaw_RemoveLatest, PostCaw_PutLatest
  <2>2. QED
    BY <2>1, HonestElsewhere DEF ReadSteps, FollowSteps, ProfileSteps
<1>2. CASE PostCaw_Put(w)
  <2>1. req[w].op = "caw" /\ UNCHANGED <<req, id>>
    BY <1>2, PutDoes, PutKeeps
       DEF PostCaw_Put, AnswerInv, Inv, Checked, PostCawSteps, Posting
  <2>2. Caw(w) \in ToSet(Lookup(kvstore', CawKey(id[w])))
    BY <1>2, CallSucceeds, PutIsThere DEF PostCaw_Put, AnswerInv
  <2>3. Caw(w)' \in CawsOf(id[w])'
    BY <2>1, <2>2 DEF Caw, CawsOf, Stored
  <2>4. CASE req[w].parent_id = NoParent
    <3>1. Reported(w)'
      BY <2>1, <2>3, <2>4 DEF Reported
    <3>2. QED
      BY <1>2, <2>4, <3>1, HonestAnswer DEF PostCaw_Put
  <2>5. CASE req[w].parent_id # NoParent
    <3>1. pc'[w] = "caw_put_child"
      BY <1>2, <2>5 DEF PostCaw_Put, Goto, AnswerInv, Inv
    <3>2. QED
      BY <2>3, <3>1 DEF Honest, ReadSteps, FollowSteps, ProfileSteps
  <2>6. QED
    BY <2>4, <2>5
<1>3. CASE PostCaw_PutChild(w)
  <2>1. /\ pc[w] = "caw_put_child" /\ req[w].op = "caw" /\ UNCHANGED <<req, id>>
        /\ Finish(w, "OK")
    BY <1>3, PutDoes, PutKeeps
       DEF PostCaw_PutChild, AnswerInv, Inv, Checked, PostCawSteps, Posting
  <2>2. id[w] \in ToSet(Lookup(kvstore', ChildrenKey(req[w].parent_id)))
    BY <1>3, CallSucceeds, PutIsThere DEF PostCaw_PutChild, AnswerInv
  <2>3. Caw(w) \in ToSet(Lookup(kvstore', CawKey(id[w])))
    BY <2>1, KeysDiffer DEF Honest, Extends, CawsOf, Stored
  <2>4. Reported(w)'
    BY <2>1, <2>2, <2>3 DEF Reported, Caw, CawsOf, Children, Stored
  <2>5. QED
    BY <2>1, <2>4, HonestAnswer
<1>4. QED
  BY <1>1, <1>2, <1>3

\* The reply of ReadCaw with one more caw.
LEMMA BoundedAppend ==
  ASSUME NEW q, IsList(q), NEW v
  PROVE  LET b == Bounded(Append(q, v))
         IN IsList(b) /\ ToSet(b) \subseteq ToSet(q) \cup {v}
<1> DEFINE r == Append(q, v)
           m == IF Len(r) < MaxThread THEN Len(r) ELSE MaxThread
           b == SubSeq(r, 1, m)
<1>1. IsList(r) /\ ToSet(r) = ToSet(q) \cup {v}
  BY ListAppend, ElementsOfAppend DEF IsList
<1> HIDE DEF r
<1>2. r \in Seq(ToSet(r)) /\ Len(r) \in Nat /\ m \in 0 .. Len(r)
  BY <1>1, BoundsAssumption DEF IsList
<1> HIDE DEF m
<1>3. /\ b \in Seq(ToSet(r)) /\ Len(b) = m /\ DOMAIN b = 1 .. m
      /\ \A j \in 1 .. m : b[j] = r[j]
  <2>1. \A j \in 1 .. m : r[j] \in ToSet(r)
    BY <1>2, ElementOfSeq
  <2>2. QED
    BY <1>2, <2>1, SubSeqProperties
<1> HIDE DEF b
<1>4. ToSet(b) \subseteq ToSet(r)
  BY <1>2, <1>3 DEF ToSet
<1>5. b \in Seq(ToSet(b))
  <2>1. \A j \in 1 .. m : b[j] \in ToSet(b)
    BY <1>3 DEF ToSet
  <2>2. b = [j \in 1 .. m |-> b[j]]
    BY <1>2, <1>3
  <2>3. b \in [1 .. m -> ToSet(b)] /\ m \in Nat
    BY <1>2, <2>1, <2>2
  <2>4. QED
    BY <2>3
<1>6. QED
  BY <1>1, <1>4, <1>5 DEF IsList, Bounded, b, m, r

\* ReadCaw answers honestly: each caw it adds was read under its own id.
LEMMA HonestReadCaw ==
  ASSUME AnswerInv, failures' = 0, NEW w \in Workers, Extends(kvstore, kvstore'), Honest(w),
         ReadCaw_Start(w) \/ ReadCaw_Caw(w) \/ ReadCaw_Children(w) \/ ReadCaw_End(w)
  PROVE  Honest(w)'
<1>1. /\ pc[w] \in ReadSteps /\ UNCHANGED <<kvstore, req>>
      /\ req[w].op = "read" /\ ReadSoFar(w)
  BY DEF ReadCaw_Start, ReadCaw_Caw, ReadCaw_Children, ReadCaw_End, Get, Honest, ReadSteps
<1>2. CASE UNCHANGED out
  <2>1. ReadSoFar(w)'
    BY <1>1, <1>2 DEF ReadSoFar, CawsOf, Stored
  <2>2. \/ \E label \in ReadSteps : Goto(w, label)
        \/ Finish(w, "OK")
        \/ Finish(w, "NOT_FOUND")
        \/ Undefined
    BY DEF ReadCaw_Start, ReadCaw_Caw, ReadCaw_Children, ReadCaw_End, ReadSteps
  <2>3. CASE \E label \in ReadSteps : Goto(w, label)
    <3>1. pc'[w] \in ReadSteps
      BY <2>3 DEF Goto, AnswerInv, Inv
    <3>2. QED
      BY <1>1, <2>1, <3>1 DEF Honest, ReadSteps, FollowSteps, ProfileSteps
  <2>4. CASE Finish(w, "OK")
    <3>1. Reported(w)'
      BY <1>1, <2>1 DEF Reported
    <3>2. QED
      BY <2>4, <3>1, HonestAnswer
  <2>5. CASE Finish(w, "NOT_FOUND") \/ Undefined
    BY <1>1, <2>5, HonestElsewhere DEF ReadSteps
  <2>6. QED
    BY <2>2, <2>3, <2>4, <2>5
<1>3. CASE ~UNCHANGED out
  <2> DEFINE i == Head(stack[w])
             q == Stored(CawKey(i))
  <2>1. /\ q # <<>> /\ out' = [out EXCEPT ![w] = Bounded(Append(@, q[1]))]
        /\ Goto(w, "read_children")
    <3>1. ReadCaw_Caw(w)
      BY <1>3 DEF ReadCaw_Start, ReadCaw_Children, ReadCaw_End, locals
    <3>2. \E seen \in Got(CawKey(i)) :
            /\ Get(CawKey(i), seen) /\ seen # <<>>
            /\ out' = [out EXCEPT ![w] = Bounded(Append(@, seen[1]))]
            /\ Goto(w, "read_children")
      BY <1>3, <3>1 DEF ReadCaw_Caw
    <3>3. QED
      BY <3>2, CallSucceeds DEF AnswerInv
  <2>2. q \in Seq(CawsAt(i)) /\ q # <<>>
    BY <2>1 DEF AnswerInv, Inv, Sound, Stored
  <2> DEFINE c == q[1]
  <2>3. c \in CawsOf(i) /\ c.id = i
    <3> HIDE DEF i, q
    <3>1. 1 \in DOMAIN q /\ q[1] \in CawsAt(i)
      BY <2>2
    <3>2. QED
      BY <3>1 DEF CawsOf, ToSet, CawsAt, q
  <2>4. out'[w] = Bounded(Append(out[w], c))
    BY <2>1 DEF AnswerInv
  <2> HIDE DEF c, q
  <2>5. IsList(out'[w]) /\ ToSet(out'[w]) \subseteq ToSet(out[w]) \cup {c}
    BY <1>1, <2>4, BoundedAppend DEF ReadSoFar
  <2>6. ReadSoFar(w)'
    BY <1>1, <2>3, <2>5 DEF ReadSoFar, CawsOf, Stored
  <2>7. pc'[w] = "read_children"
    BY <2>1 DEF Goto, AnswerInv, Inv
  <2>8. QED
    BY <1>1, <2>6, <2>7 DEF Honest, ReadSteps, FollowSteps, ProfileSteps
<1>4. QED
  BY <1>2, <1>3

\* FollowUser answers honestly.
LEMMA HonestFollow ==
  ASSUME AnswerInv, failures' = 0, NEW w \in Workers, Extends(kvstore, kvstore'), Honest(w),
         \/ FollowUser_Users(w) \/ FollowUser_Unknown(w) \/ FollowUser_Check(w)
         \/ FollowUser_PutFollowing(w) \/ FollowUser_PutFollowers(w)
  PROVE  Honest(w)'
<1>1. pc[w] \in FollowSteps /\ UNCHANGED req /\ req[w].op = "follow" /\ DOMAIN pc = Workers
  BY PutDoes
     DEF FollowUser_Users, FollowUser_Unknown, FollowUser_Check, FollowUser_PutFollowing,
         FollowUser_PutFollowers, Get, Honest, FollowSteps, AnswerInv, Inv
<1>2. CASE FollowUser_Users(w) \/ FollowUser_Unknown(w) \/ FollowUser_Check(w)
  <2>1. \/ \E label \in FollowSteps \ {"follow_followers"} : Goto(w, label)
        \/ \E s : Finish(w, s) /\ s # "OK"
    BY <1>2 DEF FollowUser_Users, FollowUser_Unknown, FollowUser_Check, FollowSteps
  <2>2. CASE \E label \in FollowSteps \ {"follow_followers"} : Goto(w, label)
    BY <1>1, <2>2 DEF Goto, Honest, FollowSteps, ReadSteps, ProfileSteps
  <2>3. CASE \E s : Finish(w, s) /\ s # "OK"
    BY <2>3, HonestElsewhere
  <2>4. QED
    BY <2>1, <2>2, <2>3
<1>3. CASE FollowUser_PutFollowing(w)
  <2>1. req[w].to_follow \in ToSet(Lookup(kvstore', FollowingKey(req[w].username)))
    BY <1>3, CallSucceeds, PutIsThere DEF FollowUser_PutFollowing, AnswerInv
  <2>2. pc'[w] = "follow_followers"
    BY <1>1, <1>3 DEF FollowUser_PutFollowing, Goto
  <2>3. QED
    BY <1>1, <2>1, <2>2 DEF Honest, FollowSteps, ReadSteps, ProfileSteps, Stored
<1>4. CASE FollowUser_PutFollowers(w)
  <2>1. req[w].username \in ToSet(Lookup(kvstore', FollowersKey(req[w].to_follow)))
    BY <1>4, CallSucceeds, PutIsThere DEF FollowUser_PutFollowers, AnswerInv
  <2>2. pc[w] = "follow_followers" /\ Finish(w, "OK")
    BY <1>4, PutDoes DEF FollowUser_PutFollowers
  <2>3. FollowingKey(req[w].username) # LatestKey
    BY DEF FollowingKey, LatestKey
  <2>4. req[w].to_follow \in ToSet(Lookup(kvstore', FollowingKey(req[w].username)))
    BY <2>2, <2>3 DEF Honest, Extends, Stored
  <2>5. Reported(w)'
    BY <1>1, <2>1, <2>4 DEF Reported, Stored
  <2>6. QED
    BY <2>2, <2>5, HonestAnswer
<1>5. QED
  BY <1>2, <1>3, <1>4

\* GetProfile answers honestly: what it read was all there was, and stays.
LEMMA HonestProfile ==
  ASSUME AnswerInv, failures' = 0, NEW w \in Workers, Extends(kvstore, kvstore'), Honest(w),
         GetProfile_Users(w) \/ GetProfile_Followers(w) \/ GetProfile_Following(w)
  PROVE  Honest(w)'
<1>1. /\ pc[w] \in ProfileSteps /\ UNCHANGED <<kvstore, req>> /\ req[w].op = "profile"
      /\ DOMAIN pc = Workers /\ DOMAIN out = Workers
  BY DEF GetProfile_Users, GetProfile_Followers, GetProfile_Following, Get, Honest,
         ProfileSteps, AnswerInv, Inv
<1>2. \A k : PrefixOf(Stored(k), Stored(k))
  <2>1. \A k : IsList(Stored(k)) /\ Len(Stored(k)) \in Nat
    BY DEF AnswerInv, Lists, Stored, IsList
  <2>2. QED
    BY <2>1 DEF PrefixOf
<1>3. CASE GetProfile_Users(w)
  <2>1. Goto(w, "profile_followers") \/ Finish(w, "NOT_FOUND")
    BY <1>3 DEF GetProfile_Users
  <2>2. CASE Goto(w, "profile_followers")
    BY <1>1, <2>2 DEF Goto, Honest, FollowSteps, ReadSteps, ProfileSteps
  <2>3. CASE Finish(w, "NOT_FOUND")
    BY <2>3, HonestElsewhere
  <2>4. QED
    BY <2>1, <2>2, <2>3
<1>4. CASE GetProfile_Followers(w)
  <2> DEFINE q == Stored(FollowersKey(req[w].username))
  <2>1. out' = [out EXCEPT ![w] = <<q>>] /\ Goto(w, "profile_following")
    BY <1>4, CallSucceeds DEF GetProfile_Followers, AnswerInv
  <2>2. out'[w] = <<q>> /\ pc'[w] = "profile_following"
    BY <1>1, <2>1 DEF Goto
  <2>3. \E x : out'[w] = <<x>> /\ PrefixOf(x, Stored(FollowersKey(req[w].username)))
    BY <1>2, <2>2
  <2>4. QED
    BY <1>1, <2>2, <2>3 DEF Honest, FollowSteps, ReadSteps, ProfileSteps, Stored
<1>5. CASE GetProfile_Following(w)
  <2> DEFINE q == Stored(FollowingKey(req[w].username))
  <2>1. /\ out' = [out EXCEPT ![w] = Append(@, q)] /\ Finish(w, "OK")
        /\ pc[w] = "profile_following"
    BY <1>5, CallSucceeds DEF GetProfile_Following, AnswerInv
  <2>2. PICK x : out[w] = <<x>> /\ PrefixOf(x, Stored(FollowersKey(req[w].username)))
    BY <2>1 DEF Honest
  <2>3. out'[w] = Append(<<x>>, q)
    BY <1>1, <2>1, <2>2
  <2> HIDE DEF q
  <2>4. out'[w][1] = x /\ out'[w][2] = q
    BY <2>3
  <2>5. Reported(w)'
    BY <1>1, <1>2, <2>2, <2>4 DEF Reported, Stored, q
  <2>6. QED
    BY <2>1, <2>5, HonestAnswer
<1>6. QED
  BY <1>3, <1>4, <1>5

\* Every step keeps the invariant of the replies.
LEMMA AnswerNext ==
  ASSUME AnswerInv, [Next]_vars
  PROVE  AnswerInv'
<1>1. /\ Inv' /\ Counted' /\ Lists(kvstore') /\ Extends(kvstore, kvstore')
      /\ failures' = 0 => failures = 0
  BY InvNext, CountedNext, StoreExtends DEF AnswerInv
<1>2. failures' = 0 => \A w \in Workers : Honest(w)
  BY <1>1 DEF AnswerInv
<1>3. CASE UNCHANGED vars
  <2>1. \A w \in Workers : Honest(w) => Honest(w)'
    BY <1>1, <1>3, HonestStays DEF vars, locals
  <2>2. UNCHANGED <<id, out, status>>
    BY <1>3 DEF vars, locals
  <2>3. QED
    BY <1>1, <1>2, <2>1, <2>2 DEF AnswerInv
<1>4. CASE Crash
  <2>1. /\ UNCHANGED <<req, id, out>> /\ DOMAIN status' = Workers
        /\ \A w \in Workers : \/ pc'[w] = pc[w] /\ status'[w] = status[w]
                              \/ pc'[w] = "idle" /\ status'[w] # "OK"
    BY <1>4 DEF Crash, Die, locals
  <2>2. \A w \in Workers : Honest(w) => Honest(w)'
    BY <1>1, <2>1, HonestStays
  <2>3. QED
    BY <1>1, <1>2, <2>1, <2>2 DEF AnswerInv
<1>5. ASSUME NEW w \in Workers, NEW r \in Requests, Begin(w, r) PROVE AnswerInv'
  <2>1. /\ pc' = [pc EXCEPT ![w] = r.op] /\ req' = [req EXCEPT ![w] = r]
        /\ status' = [status EXCEPT ![w] = "none"] /\ id' = [id EXCEPT ![w] = 0]
        /\ out' = [out EXCEPT ![w] = <<>>] /\ UNCHANGED kvstore
        /\ DOMAIN pc = Workers /\ DOMAIN req = Workers /\ DOMAIN id = Workers
        /\ DOMAIN out = Workers /\ DOMAIN status = Workers
    BY <1>5 DEF Begin, AnswerInv, Inv
  <2>2. /\ DOMAIN id' = Workers /\ DOMAIN out' = Workers /\ DOMAIN status' = Workers
        /\ pc'[w] = r.op /\ req'[w] = r /\ out'[w] = <<>>
        /\ \A u \in Workers : u # w =>
             /\ pc'[u] = pc[u] /\ req'[u] = req[u] /\ id'[u] = id[u] /\ out'[u] = out[u]
             /\ status'[u] = status[u]
    BY <2>1
  <2>3. ReadSoFar(w)'
    <3>1. IsList(<<>>) /\ ToSet(<<>>) = {}
      BY DEF IsList, ToSet
    <3>2. QED
      BY <2>2, <3>1 DEF ReadSoFar
  <2>4. Honest(w)'
    <3>1. r.op \in {"registeruser", "profile", "caw", "read", "follow"}
      BY DEF Requests
    <3>2. QED
      BY <2>2, <2>3, <3>1 DEF Honest, ReadSteps, FollowSteps, ProfileSteps
  <2>5. \A u \in Workers : u # w => (Honest(u) => Honest(u)')
    BY <1>1, <2>2, HonestStays
  <2>6. QED
    BY <1>1, <1>2, <2>2, <2>4, <2>5 DEF AnswerInv
<1>6. ASSUME NEW w \in Workers, Step(w) PROVE AnswerInv'
  <2>1. /\ UNCHANGED req
        /\ DOMAIN id' = Workers /\ DOMAIN out' = Workers /\ DOMAIN status' = Workers
        /\ \A u \in Workers : u # w =>
             /\ id'[u] = id[u] /\ out'[u] = out[u]
             /\ \/ pc'[u] = pc[u] /\ status'[u] = status[u]
                \/ pc'[u] = "idle" /\ status'[u] # "OK"
    BY <1>6, OthersStay
  <2>2. \A u \in Workers : u # w => (Honest(u) => Honest(u)')
    BY <1>1, <2>1, HonestStays
  <2>3. ASSUME failures' = 0 PROVE Honest(w)'
    BY <1>1, <1>2, <1>6, <2>3, HonestRegister, HonestPostCaw, HonestReadCaw, HonestFollow,
       HonestProfile DEF Step
  <2>4. QED
    BY <1>1, <1>2, <2>1, <2>2, <2>3 DEF AnswerInv
<1>7. QED
  BY <1>3, <1>4, <1>5, <1>6 DEF Next

\* At first nothing has been answered.
LEMMA AnswerInit == Init => AnswerInv
<1> SUFFICES ASSUME Init PROVE AnswerInv
  OBVIOUS
<1>1. Lists(kvstore)
  <2>1. \A k : Lookup(kvstore, k) = <<>>
    BY DEF Init, EmptyStore, Lookup
  <2>2. IsList(<<>>)
    BY DEF IsList
  <2>3. QED
    BY <2>1, <2>2 DEF Lists
<1>2. \A w \in Workers : Honest(w)
  BY DEF Init, Honest, ReadSteps, FollowSteps, ProfileSteps
<1>3. QED
  BY <1>1, <1>2, InvInit DEF Init, AnswerInv, Counted

\* As long as no remote call failed, what a reply with status OK reports is in
\* the store and stays there, whatever the other threads do and however often
\* the process dies (caw_functions.cpp:27, 85, 165: OK is answered without a
\* look at the result of Put).
THEOREM AnswersStayTrue == Spec => []AnswerTrue
<1>1. AnswerInv => AnswerTrue
  <2> SUFFICES ASSUME AnswerInv, failures = 0, NEW w \in Workers,
                      pc[w] = "idle", status[w] = "OK"
               PROVE  LET r == req[w]
                      IN CASE r.op = "registeruser" -> r.username \in ToSet(Stored(UsersKey))
                           [] r.op = "caw" -> /\ Caw(w) \in CawsOf(id[w])
                                              /\ r.parent_id # NoParent =>
                                                   id[w] \in ToSet(Children(r.parent_id))
                           [] r.op = "read" ->
                                \A j \in DOMAIN out[w] : out[w][j] \in CawsOf(out[w][j].id)
                           [] r.op = "follow" ->
                                /\ r.to_follow \in ToSet(Stored(FollowingKey(r.username)))
                                /\ r.username \in ToSet(Stored(FollowersKey(r.to_follow)))
                           [] r.op = "profile" ->
                                /\ IsPrefix(out[w][1], Stored(FollowersKey(r.username)))
                                /\ IsPrefix(out[w][2], Stored(FollowingKey(r.username)))
    BY DEF AnswerTrue
  <2>1. Reported(w)
    BY DEF AnswerInv, Honest
  <2>2. ASSUME NEW x, NEW k, PrefixOf(x, Stored(k)) PROVE IsPrefix(x, Stored(k))
    <3> DEFINE q == Stored(k)
    <3>1. IsList(q)
      BY DEF AnswerInv, Lists, Stored
    <3>2. PrefixOf(x, q)
      BY <2>2
    <3> HIDE DEF q
    <3>3. x \in Seq(ToSet(x)) /\ q \in Seq(ToSet(q)) /\ Len(x) <= Len(q)
          /\ \A j \in 1 .. Len(x) : x[j] = q[j]
      BY <3>1, <3>2 DEF IsList, PrefixOf
    <3>4. SubSeq(x, 1, Len(x)) = SubSeq(q, 1, Len(x))
      BY <3>3
    <3>5. QED
      BY <3>3, <3>4 DEF IsPrefix, q
  <2>3. ReadSoFar(w) => \A j \in DOMAIN out[w] : out[w][j] \in CawsOf(out[w][j].id)
    BY DEF ReadSoFar, ToSet
  <2>4. QED
    BY <2>1, <2>2, <2>3 DEF Reported
<1>2. AnswerInv /\ [Next]_vars => AnswerInv'
  BY AnswerNext
<1>3. QED
  BY <1>1, <1>2, AnswerInit, PTL DEF Spec

-----------------------------------------------------------------------------
\* The numbers PostCaw gives.

\* PostCaw before it has a number, and with one.
Unnumbered == {"caw", "caw_parent", "caw_latest", "caw_increment"}
NumberSteps == {"caw_remove_latest", "caw_put_latest", "caw_put", "caw_put_child"}

Numbering == {w \in Workers : pc[w] \in Unnumbered}

\* No number above m is in use, and the requests that have still to take one
\* cannot take more than there are requests.
Within(m) ==
  /\ m + Cardinality(Numbering) <= requests
  /\ \A w \in Workers : id[w] \in 0 .. m
  /\ Lookup(kvstore, LatestKey) \in Seq(1 .. m)

Numbered ==
  /\ DOMAIN pc = Workers /\ DOMAIN id = Workers
  /\ requests \in Nat /\ requests <= MaxRequests
  /\ \E m \in Nat : Within(m)
  /\ \A w \in Workers : pc[w] \in NumberSteps => id[w] # 0

\* What a Get returns is a sequence of what is in the list.
LEMMA GotSeq ==
  ASSUME NEW S, NEW k, Stored(k) \in Seq(S), NEW seen \in Got(k)
  PROVE  seen \in Seq(S)
<1> DEFINE q == Stored(k)
<1>1. seen = q \/ seen \in {SubSeq(q, 1, l) : l \in 0 .. Len(q)}
  BY DEF Got, Prefixes
<1> HIDE DEF q
<1>2. ASSUME NEW l \in 0 .. Len(q), seen = SubSeq(q, 1, l) PROVE seen \in Seq(S)
  <2>1. q \in Seq(S) /\ Len(q) \in Nat
    BY DEF q
  <2>2. \A i \in 1 .. l : q[i] \in S
    BY <2>1, ElementOfSeq
  <2>3. QED
    BY <1>2, <2>1, <2>2, SubSeqProperties
<1>3. QED
  BY <1>1, <1>2 DEF q

\* Where a step goes that gives no number.
LEMMA NumberOther ==
  ASSUME NEW w \in Workers, Step(w), ~PostCaw_Latest(w), ~PostCaw_Increment(w),
         ~PostCaw_RemoveLatest(w), ~PostCaw_PutLatest(w)
  PROVE  /\ UNCHANGED <<id, requests>>
         /\ Lookup(kvstore', LatestKey) = Lookup(kvstore, LatestKey)
         /\ \/ \E label : /\ Goto(w, label)
                          /\ label \in Unnumbered => pc[w] \in Unnumbered
                          /\ label \in NumberSteps => pc[w] \in NumberSteps
            \/ \E s : Finish(w, s)
            \/ Undefined
<1> DEFINE moved ==
      /\ UNCHANGED <<id, requests>>
      /\ \/ \E label : /\ Goto(w, label)
                       /\ label \in Unnumbered => pc[w] \in Unnumbered
                       /\ label \in NumberSteps => pc[w] \in NumberSteps
         \/ \E s : Finish(w, s)
         \/ Undefined
      /\ \/ kvstore' = kvstore
         \/ \E k, v : /\ kvstore' = PutInto(kvstore, k, v)
                      /\ \/ k = UsersKey
                         \/ \E x : \/ k = CawKey(x) \/ k = ChildrenKey(x)
                                   \/ k = FollowingKey(x) \/ k = FollowersKey(x)
<1>1. moved
  <2>1. CASE RegisterUser_Users(w) \/ PostCaw_Users(w) \/ PostCaw_Parent(w)
    BY <2>1 DEF RegisterUser_Users, PostCaw_Users, PostCaw_Parent, Get, locals, Unnumbered,
                NumberSteps
  <2>2. CASE RegisterUser_Put(w)
    BY <2>2 DEF RegisterUser_Put, Put, Write, locals
  <2>3. CASE PostCaw_Put(w) \/ PostCaw_PutChild(w)
    BY <2>3 DEF PostCaw_Put, PostCaw_PutChild, Put, Write, locals, Unnumbered, NumberSteps
  <2>4. CASE ReadCaw_Start(w) \/ ReadCaw_Caw(w) \/ ReadCaw_Children(w) \/ ReadCaw_End(w)
    BY <2>4 DEF ReadCaw_Start, ReadCaw_Caw, ReadCaw_Children, ReadCaw_End, Get, locals,
                Unnumbered, NumberSteps
  <2>5. CASE FollowUser_Users(w) \/ FollowUser_Unknown(w) \/ FollowUser_Check(w)
    BY <2>5 DEF FollowUser_Users, FollowUser_Unknown, FollowUser_Check, Get, locals,
                Unnumbered, NumberSteps
  <2>6. CASE FollowUser_PutFollowing(w) \/ FollowUser_PutFollowers(w)
    BY <2>6 DEF FollowUser_PutFollowing, FollowUser_PutFollowers, Put, Write, locals,
                Unnumbered, NumberSteps
  <2>7. CASE GetProfile_Users(w) \/ GetProfile_Followers(w) \/ GetProfile_Following(w)
    BY <2>7 DEF GetProfile_Users, GetProfile_Followers, GetProfile_Following, Get, locals,
                Unnumbered, NumberSteps
  <2>8. QED
    BY <2>1, <2>2, <2>3, <2>4, <2>5, <2>6, <2>7 DEF Step
<1>2. /\ UsersKey # LatestKey
      /\ \A x : /\ CawKey(x) # LatestKey /\ ChildrenKey(x) # LatestKey
                /\ FollowingKey(x) # LatestKey /\ FollowersKey(x) # LatestKey
  BY DEF FollowingKey, FollowersKey, UsersKey, LatestKey, CawKey, ChildrenKey
<1>3. \A k, v : k # LatestKey =>
        Lookup(PutInto(kvstore, k, v), LatestKey) = Lookup(kvstore, LatestKey)
  BY DEF PutInto, Lookup
<1>4. Lookup(kvstore', LatestKey) = Lookup(kvstore, LatestKey)
  BY <1>1, <1>2, <1>3
<1>5. QED
  BY <1>1, <1>4


\* No number is taken, and no request starts.
LEMMA WithinSame ==
  ASSUME IsFiniteSet(Workers), NEW m \in Nat, Within(m), requests \in Nat,
         UNCHANGED <<id, requests>>, Lookup(kvstore', LatestKey) \in Seq(1 .. m),
         \A u \in Workers : pc'[u] \in Unnumbered => pc[u] \in Unnumbered
  PROVE  Within(m)'
<1> DEFINE old == Numbering
           new == {u \in Workers : pc'[u] \in Unnumbered}
<1>1. old \in SUBSET Workers /\ new \in SUBSET old
  BY DEF Numbering
<1>2. m + Cardinality(old) <= requests
  BY DEF Within
<1> HIDE DEF old, new
<1>3. IsFiniteSet(old) /\ Cardinality(old) \in Nat
  BY <1>1, FS_Subset, FS_CardinalityType
<1>4. Cardinality(new) \in Nat /\ Cardinality(new) <= Cardinality(old)
  BY <1>1, <1>3, FS_Subset, FS_CardinalityType
<1>5. m + Cardinality(new) <= requests
  BY <1>2, <1>3, <1>4
<1>6. QED
  BY <1>5 DEF Within, Numbering, new

\* One request takes a number, at most the next.
LEMMA WithinTaken ==
  ASSUME IsFiniteSet(Workers), NEW m \in Nat, Within(m), requests \in Nat,
         NEW w \in Workers, UNCHANGED <<requests, kvstore>>,
         pc[w] \in Unnumbered, pc'[w] \notin Unnumbered, id'[w] \in 0 .. m + 1,
         \A u \in Workers : u # w => pc'[u] = pc[u] /\ id'[u] = id[u]
  PROVE  Within(m + 1)'
<1> DEFINE old == Numbering
           new == {u \in Workers : pc'[u] \in Unnumbered}
<1>1. old \in SUBSET Workers /\ new \in SUBSET (old \ {w}) /\ w \in old
  BY DEF Numbering
<1>2. m + Cardinality(old) <= requests
  BY DEF Within
<1> HIDE DEF old, new
<1>3. IsFiniteSet(old) /\ Cardinality(old) \in Nat
  BY <1>1, FS_Subset, FS_CardinalityType
<1>4. IsFiniteSet(old \ {w}) /\ Cardinality(old \ {w}) = Cardinality(old) - 1
  BY <1>1, <1>3, FS_RemoveElement
<1>5. Cardinality(new) \in Nat /\ Cardinality(new) <= Cardinality(old \ {w})
  BY <1>1, <1>4, FS_Subset, FS_CardinalityType
<1>6. (m + 1) + Cardinality(new) <= requests
  BY <1>2, <1>3, <1>4, <1>5
<1>7. \A u \in Workers : id'[u] \in 0 .. m + 1
  BY DEF Within
<1>8. Lookup(kvstore', LatestKey) \in Seq(1 .. m + 1)
  <2>1. Lookup(kvstore, LatestKey) \in Seq(1 .. m) /\ 1 .. m \subseteq 1 .. m + 1
    BY DEF Within
  <2>2. QED
    BY <2>1, SeqMonotonic
<1>9. QED
  BY <1>6, <1>7, <1>8 DEF Within, Numbering, new

\* A step that gives no number.
LEMMA NumberKept ==
  ASSUME IsFiniteSet(Workers), Numbered, UNCHANGED <<id, requests>>,
         Lookup(kvstore', LatestKey) = Lookup(kvstore, LatestKey),
         DOMAIN pc' = Workers,
         \A u \in Workers : /\ pc'[u] \in Unnumbered => pc[u] \in Unnumbered
                            /\ pc'[u] \in NumberSteps => pc[u] \in NumberSteps
  PROVE  Numbered'
<1>1. PICK m \in Nat : Within(m)
  BY DEF Numbered
<1>2. Within(m)'
  <2>1. Lookup(kvstore', LatestKey) \in Seq(1 .. m) /\ requests \in Nat
    BY <1>1 DEF Within, Numbered
  <2>2. QED
    BY <1>1, <2>1, WithinSame
<1>3. QED
  BY <1>2 DEF Numbered

\* The steps of PostCaw that give a number or write latestCawId.
LEMMA NumberGiven ==
  ASSUME IsFiniteSet(Workers), Numbered, NEW w \in Workers,
         \/ PostCaw_Latest(w) \/ PostCaw_Increment(w)
         \/ PostCaw_RemoveLatest(w) \/ PostCaw_PutLatest(w)
  PROVE  Numbered'
<1>1. PICK m \in Nat : Within(m)
  BY DEF Numbered
<1>2. /\ DOMAIN pc = Workers /\ DOMAIN id = Workers /\ requests \in Nat
      /\ id[w] \in 0 .. m /\ Stored(LatestKey) \in Seq(1 .. m)
  BY <1>1 DEF Numbered, Within, Stored
<1>3. CASE PostCaw_Latest(w)
  <2>1. PICK seen \in Got(LatestKey) :
          /\ Get(LatestKey, seen)
          /\ \/ /\ seen = <<>>
                /\ id' = [id EXCEPT ![w] = 1]
                /\ Goto(w, "caw_put_latest")
             \/ /\ seen # <<>>
                /\ UNCHANGED id
                /\ Goto(w, "caw_increment")
    BY <1>3 DEF PostCaw_Latest
  <2>2. pc[w] = "caw_latest" /\ UNCHANGED <<kvstore, requests>>
    BY <1>3, <2>1 DEF PostCaw_Latest, Get
  <2>3. CASE id' = [id EXCEPT ![w] = 1] /\ Goto(w, "caw_put_latest")
    <3>1. /\ DOMAIN pc' = Workers /\ DOMAIN id' = Workers
          /\ pc'[w] = "caw_put_latest" /\ id'[w] = 1
          /\ \A u \in Workers : u # w => pc'[u] = pc[u] /\ id'[u] = id[u]
      BY <1>2, <2>3 DEF Goto
    <3>2. Within(m + 1)'
      <4>1. id'[w] \in 0 .. m + 1
        BY <3>1
      <4>2. QED
        BY <1>1, <1>2, <2>2, <3>1, <4>1, WithinTaken DEF Unnumbered
    <3>3. QED
      BY <2>2, <3>1, <3>2 DEF Numbered
  <2>4. CASE UNCHANGED id /\ Goto(w, "caw_increment")
    <3>1. /\ DOMAIN pc' = Workers /\ pc'[w] = "caw_increment"
          /\ \A u \in Workers : u # w => pc'[u] = pc[u]
      BY <1>2, <2>4 DEF Goto
    <3>2. QED
      BY <2>2, <2>4, <3>1, NumberKept DEF Unnumbered, NumberSteps
  <2>5. QED
    BY <2>1, <2>3, <2>4
<1>4. CASE PostCaw_Increment(w)
  <2>1. PICK seen \in Got(LatestKey) :
          /\ Get(LatestKey, seen)
          /\ \/ /\ seen = <<>>
                /\ UNCHANGED id
                /\ Undefined
             \/ /\ seen # <<>>
                /\ id' = [id EXCEPT ![w] = seen[1] + 1]
                /\ Goto(w, "caw_remove_latest")
    BY <1>4 DEF PostCaw_Increment
  <2>2. pc[w] = "caw_increment" /\ UNCHANGED <<kvstore, requests>>
    BY <1>4, <2>1 DEF PostCaw_Increment, Get
  <2>3. CASE seen # <<>> /\ id' = [id EXCEPT ![w] = seen[1] + 1]
             /\ Goto(w, "caw_remove_latest")
    <3>1. seen \in Seq(1 .. m)
      BY <1>2, GotSeq
    <3>2. seen[1] \in 1 .. m
      BY <2>3, <3>1, EmptySeq, ElementOfSeq
    <3>3. /\ DOMAIN pc' = Workers /\ DOMAIN id' = Workers
          /\ pc'[w] = "caw_remove_latest" /\ id'[w] = seen[1] + 1
          /\ \A u \in Workers : u # w => pc'[u] = pc[u] /\ id'[u] = id[u]
      BY <1>2, <2>3 DEF Goto
    <3>4. id'[w] \in 0 .. m + 1 /\ id'[w] # 0
      BY <3>2, <3>3
    <3>5. Within(m + 1)'
      BY <1>1, <1>2, <2>2, <3>3, <3>4, WithinTaken DEF Unnumbered
    <3>6. QED
      BY <2>2, <3>3, <3>4, <3>5 DEF Numbered
  <2>4. CASE UNCHANGED id /\ Undefined
    <3>1. DOMAIN pc' = Workers /\ \A u \in Workers : pc'[u] = "idle"
      BY <2>4 DEF Undefined, Die
    <3>2. QED
      BY <2>2, <2>4, <3>1, NumberKept DEF Unnumbered, NumberSteps
  <2>5. QED
    BY <2>1, <2>3, <2>4
<1>5. CASE PostCaw_RemoveLatest(w) \/ PostCaw_PutLatest(w)
  <2>1. /\ pc[w] \in {"caw_remove_latest", "caw_put_latest"} /\ UNCHANGED <<id, requests>>
        /\ Goto(w, "caw_put_latest") \/ Goto(w, "caw_put")
        /\ \/ kvstore' = kvstore
           \/ kvstore' = EraseFrom(kvstore, LatestKey)
           \/ pc[w] = "caw_put_latest" /\ kvstore' = PutInto(kvstore, LatestKey, id[w])
    BY <1>5 DEF PostCaw_RemoveLatest, PostCaw_PutLatest, Put, Write, locals
  <2>2. /\ DOMAIN pc' = Workers /\ pc'[w] \in NumberSteps /\ pc'[w] \notin Unnumbered
        /\ \A u \in Workers : u # w => pc'[u] = pc[u]
    BY <1>2, <2>1 DEF Goto, NumberSteps, Unnumbered
  <2>3. Lookup(kvstore', LatestKey) \in Seq(1 .. m)
    <3>1. CASE kvstore' = kvstore
      BY <1>2, <3>1 DEF Stored
    <3>2. CASE kvstore' = EraseFrom(kvstore, LatestKey)
      <4>1. Lookup(kvstore', LatestKey) = <<>>
        BY <3>2 DEF EraseFrom, Lookup
      <4>2. QED
        BY <4>1
    <3>3. CASE pc[w] = "caw_put_latest" /\ kvstore' = PutInto(kvstore, LatestKey, id[w])
      <4>1. id[w] # 0
        BY <3>3 DEF Numbered, NumberSteps
      <4>2. id[w] \in 1 .. m
        BY <1>2, <4>1
      <4>3. Lookup(kvstore', LatestKey) = Append(Stored(LatestKey), id[w])
        BY <3>3 DEF PutInto, Lookup, Stored
      <4>4. QED
        BY <1>2, <4>2, <4>3, AppendProperties
    <3>4. QED
      BY <2>1, <3>1, <3>2, <3>3
  <2>4. Within(m)'
    BY <1>1, <1>2, <2>1, <2>2, <2>3, WithinSame
  <2>5. pc[w] \in NumberSteps
    BY <2>1 DEF NumberSteps
  <2>6. QED
    BY <2>1, <2>2, <2>4, <2>5 DEF Numbered
<1>6. QED
  BY <1>3, <1>4, <1>5

\* A request starts: one more number may be taken.
LEMMA NumberBegin ==
  ASSUME IsFiniteSet(Workers), Numbered, NEW w \in Workers, NEW r \in Requests, Begin(w, r)
  PROVE  Numbered'
<1>1. PICK m \in Nat : Within(m)
  BY DEF Numbered
<1>2. /\ DOMAIN pc = Workers /\ DOMAIN id = Workers /\ requests \in Nat
      /\ MaxRequests \in Nat
  BY BoundsAssumption DEF Numbered
<1>3. /\ requests < MaxRequests /\ requests' = requests + 1 /\ UNCHANGED kvstore
      /\ DOMAIN pc' = Workers /\ DOMAIN id' = Workers /\ id'[w] = 0 /\ pc'[w] = r.op
      /\ \A u \in Workers : u # w => pc'[u] = pc[u] /\ id'[u] = id[u]
  BY <1>2 DEF Begin
<1>4. r.op \notin NumberSteps
  BY DEF Requests, NumberSteps
<1> DEFINE old == Numbering
           new == {u \in Workers : pc'[u] \in Unnumbered}
<1>5. old \in SUBSET Workers /\ new \in SUBSET (old \cup {w})
  BY <1>3 DEF Numbering
<1>6. m + Cardinality(old) <= requests
  BY <1>1 DEF Within
<1> HIDE DEF old, new
<1>7. IsFiniteSet(old) /\ Cardinality(old) \in Nat
  BY <1>5, FS_Subset, FS_CardinalityType
<1>8. /\ IsFiniteSet(old \cup {w})
      /\ Cardinality(old \cup {w}) \in {Cardinality(old), Cardinality(old) + 1}
  BY <1>7, FS_AddElement
<1>9. Cardinality(new) \in Nat /\ Cardinality(new) <= Cardinality(old \cup {w})
  BY <1>5, <1>8, FS_Subset, FS_CardinalityType
<1>10. m + Cardinality(new) <= requests'
  BY <1>2, <1>3, <1>6, <1>7, <1>8, <1>9
<1>11. \A u \in Workers : id'[u] \in 0 .. m
  BY <1>1, <1>3 DEF Within
<1>12. Within(m)'
  BY <1>1, <1>3, <1>10, <1>11 DEF Within, Numbering, new
<1>13. requests' \in Nat /\ requests' <= MaxRequests
  BY <1>2, <1>3
<1>14. QED
  BY <1>3, <1>4, <1>12, <1>13 DEF Numbered

\* At first no number is taken.
LEMMA NumberInit == IsFiniteSet(Workers) /\ Init => Numbered
<1> SUFFICES ASSUME IsFiniteSet(Workers), Init PROVE Numbered
  OBVIOUS
<1>1. Lookup(kvstore, LatestKey) = <<>>
  BY DEF Init, EmptyStore, Lookup
<1>2. Numbering = {}
  BY DEF Init, Numbering, Unnumbered
<1>3. Within(0)
  BY <1>1, <1>2, FS_EmptySet DEF Init, Within
<1>4. QED
  BY <1>3, BoundsAssumption DEF Init, Numbered, NumberSteps

\* Every step keeps the numbers within the requests.
LEMMA NumberNext == IsFiniteSet(Workers) /\ Numbered /\ [Next]_vars => Numbered'
<1> SUFFICES ASSUME IsFiniteSet(Workers), Numbered, [Next]_vars PROVE Numbered'
  OBVIOUS
<1>1. CASE UNCHANGED vars
  BY <1>1, NumberKept DEF vars, Numbered
<1>2. CASE Crash
  BY <1>2, NumberKept DEF Crash, Die, locals, Unnumbered, NumberSteps
<1>3. ASSUME NEW w \in Workers, Step(w), ~PostCaw_Latest(w), ~PostCaw_Increment(w),
             ~PostCaw_RemoveLatest(w), ~PostCaw_PutLatest(w)
      PROVE  Numbered'
  <2>1. /\ DOMAIN pc' = Workers
        /\ \A u \in Workers : /\ pc'[u] \in Unnumbered => pc[u] \in Unnumbered
                              /\ pc'[u] \in NumberSteps => pc[u] \in NumberSteps
    <3>1. CASE \E label : /\ Goto(w, label)
                          /\ label \in Unnumbered => pc[w] \in Unnumbered
                          /\ label \in NumberSteps => pc[w] \in NumberSteps
      BY <3>1 DEF Goto, Numbered
    <3>2. CASE \E s : Finish(w, s)
      BY <3>2 DEF Finish, Numbered, Unnumbered, NumberSteps
    <3>3. CASE Undefined
      BY <3>3 DEF Undefined, Die, Unnumbered, NumberSteps
    <3>4. QED
      BY <1>3, <3>1, <3>2, <3>3, NumberOther
  <2>2. UNCHANGED <<id, requests>> /\ Lookup(kvstore', LatestKey) = Lookup(kvstore, LatestKey)
    BY <1>3, NumberOther
  <2>3. QED
    BY <2>1, <2>2, NumberKept
<1>4. QED
  BY <1>1, <1>2, <1>3, NumberGiven, NumberBegin DEF Next
-----------------------------------------------------------------------------
\* The types of the other variables.

\* No key is left with an empty list.
Full(f) == \A k \in DOMAIN f : f[k] # <<>>

IdLists(f) == \A p : Lookup(f, ChildrenKey(p)) \in Seq(CawIds)

\* What ReadCaw and GetProfile have built so far.
Shape(w) ==
  /\ stack[w] \in Seq(CawIds) /\ Len(stack[w]) <= MaxThread
  /\ Len(out[w]) \in Nat /\ Len(out[w]) <= MaxThread
  /\ pc[w] \in ReadSteps => req[w].op = "read" /\ IsList(out[w])
  /\ pc[w] = "read_children" => stack[w] # <<>>
  /\ pc[w] \in {"profile", "profile_followers"} => out[w] = <<>>
  /\ pc[w] = "profile_following" => \E x : out[w] = <<x>>

\* The stack and the id of every thread.
Maps == /\ stack = [w \in Workers |-> stack[w]]
        /\ id = [w \in Workers |-> id[w]]

TypeInv ==
  /\ FollowInv
  /\ AnswerInv
  /\ Numbered
  /\ Full(kvstore)
  /\ IdLists(kvstore)
  /\ req \in [Workers -> Requests \cup {[op |-> "none"]}]
  /\ Maps
  /\ \A w \in Workers : Shape(w)

\* What Bounded keeps of a list.
LEMMA BoundedList ==
  ASSUME NEW S, NEW q \in Seq(S)
  PROVE  Bounded(q) \in Seq(S) /\ Len(Bounded(q)) <= MaxThread
<1> DEFINE m == IF Len(q) < MaxThread THEN Len(q) ELSE MaxThread
<1>1. m \in 0 .. Len(q) /\ m <= MaxThread /\ Len(q) \in Nat
  BY BoundsAssumption
<1> HIDE DEF m
<1>2. \A i \in 1 .. m : q[i] \in S
  BY <1>1, ElementOfSeq
<1>3. SubSeq(q, 1, m) \in Seq(S) /\ Len(SubSeq(q, 1, m)) = m
  BY <1>1, <1>2, SubSeqProperties
<1>4. QED
  BY <1>1, <1>3 DEF Bounded, m

\* The numbers in use are caw ids.
LEMMA NumbersAreIds ==
  ASSUME IsFiniteSet(Workers), Numbered
  PROVE  /\ \A w \in Workers : id[w] \in CawIds \cup {0}
         /\ Lookup(kvstore, LatestKey) \in Seq(CawIds)
<1>1. PICK m \in Nat : Within(m)
  BY DEF Numbered
<1>2. Numbering \in SUBSET Workers
  BY DEF Numbering
<1>3. Cardinality(Numbering) \in Nat
  BY <1>2, FS_Subset, FS_CardinalityType
<1>4. m <= MaxRequests /\ MaxRequests \in Nat
  BY <1>1, <1>3, BoundsAssumption DEF Within, Numbered
<1>5. 1 .. m \subseteq CawIds
  BY <1>4 DEF CawIds
<1>6. Lookup(kvstore, LatestKey) \in Seq(CawIds)
  BY <1>1, <1>5, SeqMonotonic DEF Within
<1>7. \A w \in Workers : id[w] \in CawIds \cup {0}
  BY <1>1, <1>4 DEF Within, CawIds
<1>8. QED
  BY <1>6, <1>7

\* No step leaves an empty list in the store, or anything but ids among the children.
LEMMA StoreTyped ==
  ASSUME IsFiniteSet(Workers), TypeInv, [Next]_vars
  PROVE  Full(kvstore') /\ IdLists(kvstore')
<1>1. \/ kvstore' = kvstore
      \/ kvstore' = EraseFrom(kvstore, LatestKey)
      \/ \E k, v : kvstore' = PutInto(kvstore, k, v) /\ \A p : k # ChildrenKey(p)
      \/ \E w \in Workers : \E p : /\ pc[w] = "caw_put_child"
                                   /\ kvstore' = PutInto(kvstore, ChildrenKey(p), id[w])
  <2> DEFINE other == \/ kvstore' = kvstore
                      \/ kvstore' = EraseFrom(kvstore, LatestKey)
                      \/ \E k, v : kvstore' = PutInto(kvstore, k, v) /\ \A p : k # ChildrenKey(p)
             child == \E w \in Workers : \E p : /\ pc[w] = "caw_put_child"
                                                /\ kvstore' = PutInto(kvstore, ChildrenKey(p), id[w])
  <2>0. \A p, x : /\ UsersKey # ChildrenKey(p) /\ LatestKey # ChildrenKey(p)
                  /\ CawKey(x) # ChildrenKey(p)
                  /\ FollowingKey(x) # ChildrenKey(p) /\ FollowersKey(x) # ChildrenKey(p)
    BY DEF FollowingKey, FollowersKey, UsersKey, LatestKey, CawKey, ChildrenKey
  <2>1. CASE UNCHANGED vars \/ Crash \/ \E w \in Workers, r \in Requests : Begin(w, r)
    BY <2>1 DEF vars, Crash, Begin
  <2>2. ASSUME NEW w \in Workers, Step(w) PROVE other \/ child
    <3>1. CASE RegisterUser_Put(w) \/ PostCaw_PutLatest(w) \/ PostCaw_Put(w)
      BY <2>0, <3>1, PutDoes DEF RegisterUser_Put, PostCaw_PutLatest, PostCaw_Put
    <3>2. CASE PostCaw_PutChild(w)
      BY <3>2, PutDoes DEF PostCaw_PutChild
    <3>3. CASE FollowUser_PutFollowing(w) \/ FollowUser_PutFollowers(w)
      BY <2>0, <3>3, PutDoes DEF FollowUser_PutFollowing, FollowUser_PutFollowers
    <3>4. CASE PostCaw_RemoveLatest(w)
      BY <3>4 DEF PostCaw_RemoveLatest, Write
    <3>5. CASE \/ RegisterUser_Users(w) \/ PostCaw_Users(w) \/ PostCaw_Parent(w)
               \/ PostCaw_Latest(w) \/ PostCaw_Increment(w)
      BY <3>5 DEF RegisterUser_Users, PostCaw_Users, PostCaw_Parent, PostCaw_Latest,
                  PostCaw_Increment, Get
    <3>6. CASE ReadCaw_Start(w) \/ ReadCaw_Caw(w) \/ ReadCaw_Children(w) \/ ReadCaw_End(w)
      BY <3>6 DEF ReadCaw_Start, ReadCaw_Caw, ReadCaw_Children, ReadCaw_End, Get
    <3>7. CASE FollowUser_Users(w) \/ FollowUser_Unknown(w) \/ FollowUser_Check(w)
      BY <3>7 DEF FollowUser_Users, FollowUser_Unknown, FollowUser_Check, Get
    <3>8. CASE GetProfile_Users(w) \/ GetProfile_Followers(w) \/ GetProfile_Following(w)
      BY <3>8 DEF GetProfile_Users, GetProfile_Followers, GetProfile_Following, Get
    <3>9. QED
      BY <2>2, <3>1, <3>2, <3>3, <3>4, <3>5, <3>6, <3>7, <3>8 DEF Step
  <2>3. QED
    BY <2>1, <2>2 DEF Next
<1>2. Full(kvstore) /\ IdLists(kvstore) /\ Lists(kvstore)
  BY DEF TypeInv, AnswerInv
<1>3. ASSUME NEW k, NEW v, kvstore' = PutInto(kvstore, k, v)
      PROVE  /\ Full(kvstore')
             /\ Lookup(kvstore', k) = Append(Lookup(kvstore, k), v)
             /\ \A x : x # k => Lookup(kvstore', x) = Lookup(kvstore, x)
  <2> DEFINE q == Lookup(kvstore, k)
  <2>1. /\ DOMAIN kvstore' = DOMAIN kvstore \cup {k} /\ kvstore'[k] = Append(q, v)
        /\ \A x \in DOMAIN kvstore : x # k => kvstore'[x] = kvstore[x]
        /\ Lookup(kvstore', k) = Append(q, v)
        /\ \A x : x # k => Lookup(kvstore', x) = Lookup(kvstore, x)
    BY <1>3 DEF PutInto, Lookup
  <2>2. IsList(q)
    BY <1>2 DEF Lists
  <2> HIDE DEF q
  <2>3. Append(q, v) # <<>>
    <3>1. Len(q) \in Nat /\ Len(Append(q, v)) = Len(q) + 1
      BY <2>2 DEF IsList, Append
    <3>2. QED
      BY <3>1
  <2>4. Full(kvstore')
    BY <1>2, <2>1, <2>3 DEF Full
  <2>5. QED
    BY <2>1, <2>4 DEF q
<1>4. CASE kvstore' = kvstore
  BY <1>2, <1>4
<1>5. CASE kvstore' = EraseFrom(kvstore, LatestKey)
  <2>1. /\ DOMAIN kvstore' \subseteq DOMAIN kvstore
        /\ \A x \in DOMAIN kvstore' : kvstore'[x] = kvstore[x]
        /\ \A x : x # LatestKey => Lookup(kvstore', x) = Lookup(kvstore, x)
    BY <1>5 DEF EraseFrom, Lookup
  <2>2. \A p : ChildrenKey(p) # LatestKey
    BY DEF ChildrenKey, LatestKey
  <2>3. QED
    BY <1>2, <2>1, <2>2 DEF Full, IdLists
<1>6. CASE \E k, v : kvstore' = PutInto(kvstore, k, v) /\ \A p : k # ChildrenKey(p)
  <2>1. PICK k, v : kvstore' = PutInto(kvstore, k, v) /\ \A p : k # ChildrenKey(p)
    BY <1>6
  <2>2. QED
    BY <1>2, <1>3, <2>1 DEF IdLists
<1>7. CASE \E w \in Workers : \E p : /\ pc[w] = "caw_put_child"
                                     /\ kvstore' = PutInto(kvstore, ChildrenKey(p), id[w])
  <2>0. PICK w \in Workers : \E p : /\ pc[w] = "caw_put_child"
                                    /\ kvstore' = PutInto(kvstore, ChildrenKey(p), id[w])
    BY <1>7
  <2>1. PICK p : pc[w] = "caw_put_child" /\ kvstore' = PutInto(kvstore, ChildrenKey(p), id[w])
    BY <2>0
  <2>2. id[w] \in CawIds
    <3>1. Numbered /\ id[w] # 0
      BY <2>1 DEF TypeInv, Numbered, NumberSteps
    <3>2. QED
      BY <3>1, NumbersAreIds
  <2> DEFINE q == Lookup(kvstore, ChildrenKey(p))
  <2>3. q \in Seq(CawIds)
    BY <1>2 DEF IdLists
  <2> HIDE DEF q
  <2>4. Append(q, id[w]) \in Seq(CawIds)
    BY <2>2, <2>3, AppendProperties
  <2>5. /\ Full(kvstore')
        /\ Lookup(kvstore', ChildrenKey(p)) = Append(q, id[w])
        /\ \A x : x # ChildrenKey(p) => Lookup(kvstore', x) = Lookup(kvstore, x)
    BY <1>3, <2>1 DEF q
  <2>6. QED
    BY <1>2, <2>4, <2>5 DEF IdLists
<1>8. QED
  BY <1>1, <1>4, <1>5, <1>6, <1>7

\* The stacks of the other threads.
LEMMA StacksStay ==
  ASSUME NEW w \in Workers, Step(w), Maps
  PROVE  Maps' /\ \A u \in Workers : u # w => stack'[u] = stack[u]
<1> DEFINE moved == /\ UNCHANGED stack \/ \E s : stack' = [stack EXCEPT ![w] = s]
                    /\ UNCHANGED id \/ \E i : id' = [id EXCEPT ![w] = i]
<1>1. moved
  <2>1. CASE RegisterUser_Users(w) \/ PostCaw_Users(w) \/ PostCaw_Parent(w)
    BY <2>1 DEF RegisterUser_Users, PostCaw_Users, PostCaw_Parent, locals
  <2>2. CASE PostCaw_Latest(w) \/ PostCaw_Increment(w) \/ PostCaw_RemoveLatest(w)
    BY <2>2 DEF PostCaw_Latest, PostCaw_Increment, PostCaw_RemoveLatest, Write, locals
  <2>3. CASE RegisterUser_Put(w) \/ PostCaw_PutLatest(w)
    BY <2>3 DEF RegisterUser_Put, PostCaw_PutLatest, Put, Write, locals
  <2>4. CASE PostCaw_Put(w) \/ PostCaw_PutChild(w)
    BY <2>4 DEF PostCaw_Put, PostCaw_PutChild, Put, Write, locals
  <2>5. CASE ReadCaw_Start(w) \/ ReadCaw_Caw(w) \/ ReadCaw_Children(w) \/ ReadCaw_End(w)
    BY <2>5 DEF ReadCaw_Start, ReadCaw_Caw, ReadCaw_Children, ReadCaw_End, locals
  <2>6. CASE \/ FollowUser_Users(w) \/ FollowUser_Unknown(w) \/ FollowUser_Check(w)
             \/ FollowUser_PutFollowing(w) \/ FollowUser_PutFollowers(w)
    BY <2>6 DEF FollowUser_Users, FollowUser_Unknown, FollowUser_Check,
                FollowUser_PutFollowing, FollowUser_PutFollowers, Put, Write, locals
  <2>7. CASE GetProfile_Users(w) \/ GetProfile_Followers(w) \/ GetProfile_Following(w)
    BY <2>7 DEF GetProfile_Users, GetProfile_Followers, GetProfile_Following, locals
  <2>8. QED
    BY <2>1, <2>2, <2>3, <2>4, <2>5, <2>6, <2>7 DEF Step
<1>2. DOMAIN stack = Workers /\ DOMAIN id = Workers
  BY DEF Maps
<1>3. /\ stack' = [u \in Workers |-> stack'[u]]
      /\ \A u \in Workers : u # w => stack'[u] = stack[u]
  BY <1>1, <1>2 DEF Maps
<1>4. id' = [u \in Workers |-> id'[u]]
  BY <1>1, <1>2 DEF Maps
<1>5. QED
  BY <1>3, <1>4 DEF Maps

\* A thread that builds nothing in this step, and does not go on building.
LEMMA ShapeElsewhere ==
  ASSUME NEW w \in Workers, Shape(w), stack'[w] = stack[w], out'[w] = out[w],
         pc'[w] \notin ReadSteps \cup ProfileSteps
  PROVE  Shape(w)'
BY DEF Shape, ReadSteps, ProfileSteps

\* ReadCaw keeps its stack and its reply typed.
LEMMA ShapeReadCaw ==
  ASSUME IsFiniteSet(Workers), MaxThread >= 2, TypeInv, NEW w \in Workers,
         ReadCaw_Start(w) \/ ReadCaw_Caw(w) \/ ReadCaw_Children(w) \/ ReadCaw_End(w)
  PROVE  Shape(w)'
<1>1. /\ DOMAIN pc = Workers /\ DOMAIN stack = Workers /\ DOMAIN out = Workers /\ Shape(w)
      /\ pc[w] \in ReadSteps /\ UNCHANGED req
  BY DEF TypeInv, Maps, AnswerInv, Inv, ReadCaw_Start, ReadCaw_Caw, ReadCaw_Children,
         ReadCaw_End, Get, ReadSteps
<1>2. req[w].op = "read" /\ IsList(out[w]) /\ stack[w] \in Seq(CawIds) /\ MaxThread \in Nat
  BY <1>1, BoundsAssumption DEF Shape
<1>3. CASE ReadCaw_Start(w)
  <2>1. \/ Finish(w, "NOT_FOUND") /\ UNCHANGED stack
        \/ /\ stack' = [stack EXCEPT ![w] = <<req[w].caw_id>>]
           /\ Goto(w, "read_caw")
    BY <1>3 DEF ReadCaw_Start
  <2>2. UNCHANGED out
    BY <1>3 DEF ReadCaw_Start
  <2>3. CASE Finish(w, "NOT_FOUND") /\ UNCHANGED stack
    <3>1. pc'[w] = "idle"
      BY <1>1, <2>3 DEF Finish
    <3>2. QED
      BY <1>1, <2>2, <2>3, <3>1, ShapeElsewhere DEF ReadSteps, ProfileSteps
  <2>4. CASE stack' = [stack EXCEPT ![w] = <<req[w].caw_id>>] /\ Goto(w, "read_caw")
    <3>1. pc'[w] = "read_caw" /\ stack'[w] = <<req[w].caw_id>>
      BY <1>1, <2>4 DEF Goto
    <3>2. req[w] \in Requests \cup {[op |-> "none"]}
      BY DEF TypeInv
    <3>3. req[w].caw_id \in CawIds
      BY <1>2, <3>2 DEF Requests
    <3>4. stack'[w] \in Seq(CawIds) /\ Len(stack'[w]) = 1
      BY <3>1, <3>3
    <3>5. 1 <= MaxThread
      BY <1>2
    <3>6. QED
      BY <1>1, <1>2, <2>2, <3>1, <3>4, <3>5 DEF Shape
  <2>5. QED
    BY <2>1, <2>3, <2>4
<1>4. CASE ReadCaw_Caw(w)
  <2>1. stack[w] # <<>> /\ UNCHANGED stack
    BY <1>4 DEF ReadCaw_Caw
  <2>2. \/ Undefined /\ UNCHANGED out
        \/ \E v : /\ out' = [out EXCEPT ![w] = Bounded(Append(@, v))]
                  /\ Goto(w, "read_children")
    BY <1>4 DEF ReadCaw_Caw
  <2>3. CASE Undefined /\ UNCHANGED out
    <3>1. pc'[w] = "idle"
      BY <2>3 DEF Undefined, Die
    <3>2. QED
      BY <1>1, <2>1, <2>3, <3>1, ShapeElsewhere DEF ReadSteps, ProfileSteps
  <2>4. CASE \E v : /\ out' = [out EXCEPT ![w] = Bounded(Append(@, v))]
                    /\ Goto(w, "read_children")
    <3>1. PICK v : out'[w] = Bounded(Append(out[w], v)) /\ pc'[w] = "read_children"
      BY <1>1, <2>4 DEF Goto
    <3>2. IsList(Append(out[w], v))
      BY <1>2, ListAppend
    <3> DEFINE q == Append(out[w], v)
    <3>3. q \in Seq(ToSet(q))
      BY <3>2 DEF IsList
    <3> HIDE DEF q
    <3>4. Bounded(q) \in Seq(ToSet(q)) /\ Len(Bounded(q)) <= MaxThread
      BY <3>3, BoundedList
    <3>5. Len(Bounded(q)) \in Nat
      BY <3>4
    <3>6. IsList(out'[w])
      BY <1>2, <3>1, BoundedAppend
    <3>7. QED
      BY <1>1, <1>2, <2>1, <3>1, <3>4, <3>5, <3>6 DEF Shape, q
  <2>5. QED
    BY <2>2, <2>3, <2>4
<1>5. CASE ReadCaw_Children(w)
  <2> DEFINE k == ChildrenKey(Head(stack[w]))
  <2>1. PICK seen \in Got(k) :
          /\ stack' = [stack EXCEPT ![w] = Bounded(seen \o Tail(@))]
          /\ Goto(w, "read_caw")
    BY <1>5 DEF ReadCaw_Children
  <2>2. pc'[w] = "read_caw" /\ stack'[w] = Bounded(seen \o Tail(stack[w])) /\ UNCHANGED out
    BY <1>1, <1>5, <2>1 DEF ReadCaw_Children, Goto
  <2>3. Stored(k) \in Seq(CawIds)
    BY DEF TypeInv, IdLists, Stored
  <2> HIDE DEF k
  <2>4. seen \in Seq(CawIds)
    BY <2>3, GotSeq
  <2>5. pc[w] = "read_children"
    BY <1>5 DEF ReadCaw_Children
  <2>6. Tail(stack[w]) \in Seq(CawIds)
    BY <1>1, <1>2, <2>5, HeadTailProperties DEF Shape
  <2>7. seen \o Tail(stack[w]) \in Seq(CawIds)
    BY <2>4, <2>6, ConcatProperties
  <2>8. stack'[w] \in Seq(CawIds) /\ Len(stack'[w]) <= MaxThread
    BY <2>2, <2>7, BoundedList
  <2>9. QED
    BY <1>1, <1>2, <2>2, <2>8 DEF Shape
<1>6. CASE ReadCaw_End(w)
  <2>1. pc'[w] = "idle" /\ UNCHANGED <<stack, out>>
    BY <1>1, <1>6 DEF ReadCaw_End, Finish, locals
  <2>2. QED
    BY <1>1, <2>1, ShapeElsewhere DEF ReadSteps, ProfileSteps
<1>7. QED
  BY <1>3, <1>4, <1>5, <1>6

\* GetProfile replies with two lists.
LEMMA ShapeProfile ==
  ASSUME MaxThread >= 2, TypeInv, NEW w \in Workers,
         GetProfile_Users(w) \/ GetProfile_Followers(w) \/ GetProfile_Following(w)
  PROVE  Shape(w)'
<1>1. /\ DOMAIN pc = Workers /\ DOMAIN out = Workers /\ Shape(w) /\ UNCHANGED stack
      /\ MaxThread \in Nat
  BY BoundsAssumption
     DEF TypeInv, AnswerInv, Inv, GetProfile_Users, GetProfile_Followers,
         GetProfile_Following, locals
<1>2. CASE GetProfile_Users(w)
  <2>1. pc[w] = "profile" /\ UNCHANGED out /\ pc'[w] \in {"profile_followers", "idle"}
    BY <1>1, <1>2 DEF GetProfile_Users, Goto, Finish, locals
  <2>2. QED
    BY <1>1, <2>1 DEF Shape, ReadSteps
<1>3. CASE GetProfile_Followers(w)
  <2>1. PICK x : out'[w] = <<x>> /\ pc'[w] = "profile_following"
    BY <1>1, <1>3 DEF GetProfile_Followers, Goto
  <2>2. Len(out'[w]) = 1 /\ 1 <= MaxThread
    BY <1>1, <2>1
  <2>3. QED
    BY <1>1, <2>1, <2>2 DEF Shape, ReadSteps
<1>4. CASE GetProfile_Following(w)
  <2>1. PICK x, y : out[w] = <<x>> /\ out'[w] = Append(out[w], y) /\ pc'[w] = "idle"
    BY <1>1, <1>4 DEF GetProfile_Following, Finish, Shape
  <2>2. Len(out'[w]) = 2
    BY <2>1
  <2>3. QED
    BY <1>1, <2>1, <2>2 DEF Shape, ReadSteps
<1>5. QED
  BY <1>2, <1>3, <1>4

\* A step of a thread keeps what every thread builds typed.
LEMMA ShapeStep ==
  ASSUME IsFiniteSet(Workers), MaxThread >= 2, TypeInv, NEW w \in Workers, Step(w)
  PROVE  /\ Maps' /\ UNCHANGED req
         /\ \A u \in Workers : Shape(u)'
<1>1. /\ Maps' /\ UNCHANGED req
      /\ \A u \in Workers : u # w =>
           /\ stack'[u] = stack[u] /\ out'[u] = out[u]
           /\ pc'[u] = pc[u] \/ pc'[u] = "idle"
  BY OthersStay, StacksStay DEF TypeInv
<1>2. ASSUME NEW u \in Workers, u # w PROVE Shape(u)'
  <2>1. Shape(u) /\ req'[u] = req[u]
    BY <1>1 DEF TypeInv
  <2>2. QED
    BY <1>1, <1>2, <2>1 DEF Shape, ReadSteps
<1>3. CASE ReadCaw_Start(w) \/ ReadCaw_Caw(w) \/ ReadCaw_Children(w) \/ ReadCaw_End(w)
  BY <1>1, <1>2, <1>3, ShapeReadCaw
<1>4. CASE GetProfile_Users(w) \/ GetProfile_Followers(w) \/ GetProfile_Following(w)
  BY <1>1, <1>2, <1>4, ShapeProfile
<1>5. CASE /\ ~(ReadCaw_Start(w) \/ ReadCaw_Caw(w) \/ ReadCaw_Children(w) \/ ReadCaw_End(w))
           /\ ~(GetProfile_Users(w) \/ GetProfile_Followers(w) \/ GetProfile_Following(w))
  <2> DEFINE moved == /\ UNCHANGED <<stack, out>>
                      /\ \/ \E label : Goto(w, label) /\ label \notin ReadSteps \cup ProfileSteps
                         \/ \E s : Finish(w, s)
                         \/ Undefined
  <2>1. moved
    <3>1. CASE RegisterUser_Users(w) \/ RegisterUser_Put(w)
      BY <3>1 DEF RegisterUser_Users, RegisterUser_Put, Put, Write, locals, ReadSteps,
                  ProfileSteps
    <3>2. CASE PostCaw_Users(w) \/ PostCaw_Parent(w) \/ PostCaw_Latest(w)
      BY <3>2 DEF PostCaw_Users, PostCaw_Parent, PostCaw_Latest, locals, ReadSteps,
                  ProfileSteps
    <3>3. CASE PostCaw_Increment(w) \/ PostCaw_RemoveLatest(w) \/ PostCaw_PutLatest(w)
      BY <3>3 DEF PostCaw_Increment, PostCaw_RemoveLatest, PostCaw_PutLatest, Put, Write,
                  locals, ReadSteps, ProfileSteps
    <3>4. CASE PostCaw_Put(w) \/ PostCaw_PutChild(w)
      BY <3>4 DEF PostCaw_Put, PostCaw_PutChild, Put, Write, locals, ReadSteps, ProfileSteps
    <3>5. CASE FollowUser_Users(w) \/ FollowUser_Unknown(w) \/ FollowUser_Check(w)
      BY <3>5 DEF FollowUser_Users, FollowUser_Unknown, FollowUser_Check, locals,
                  ReadSteps, ProfileSteps
    <3>6. CASE FollowUser_PutFollowing(w) \/ FollowUser_PutFollowers(w)
      BY <3>6 DEF FollowUser_PutFollowing, FollowUser_PutFollowers, Put, Write, locals,
                  ReadSteps, ProfileSteps
    <3>7. QED
      BY <1>5, <3>1, <3>2, <3>3, <3>4, <3>5, <3>6 DEF Step
  <2>2. DOMAIN pc = Workers /\ Shape(w)
    BY DEF TypeInv, AnswerInv, Inv
  <2>3. pc'[w] \notin ReadSteps \cup ProfileSteps
    <3>1. CASE \E label : Goto(w, label) /\ label \notin ReadSteps \cup ProfileSteps
      BY <2>2, <3>1 DEF Goto
    <3>2. CASE (\E s : Finish(w, s)) \/ Undefined
      BY <2>2, <3>2 DEF Finish, Undefined, Die, ReadSteps, ProfileSteps
    <3>3. QED
      BY <2>1, <3>1, <3>2
  <2>4. Shape(w)'
    BY <2>1, <2>2, <2>3, ShapeElsewhere
  <2>5. QED
    BY <1>1, <1>2, <2>4
<1>6. QED
  BY <1>3, <1>4, <1>5

\* Every step keeps the types.
LEMMA TypeNext ==
  ASSUME IsFiniteSet(Workers), MaxThread >= 2, TypeInv, [Next]_vars
  PROVE  TypeInv'
<1>1. FollowInv' /\ AnswerInv' /\ Numbered' /\ Full(kvstore') /\ IdLists(kvstore')
  BY FollowNext, AnswerNext, NumberNext, StoreTyped DEF TypeInv
<1> DEFINE shaped == /\ req' \in [Workers -> Requests \cup {[op |-> "none"]}]
                     /\ Maps'
                     /\ \A w \in Workers : Shape(w)'
<1>2. ASSUME UNCHANGED vars PROVE shaped
  BY <1>2 DEF vars, TypeInv, Shape, Maps
<1>3. ASSUME Crash PROVE shaped
  <2>1. UNCHANGED <<req, id, stack, out>> /\ \A w \in Workers : pc'[w] = "idle"
    BY <1>3 DEF Crash, Die, locals
  <2>2. QED
    BY <2>1 DEF TypeInv, Shape, Maps, ReadSteps
<1>4. ASSUME NEW w \in Workers, NEW r \in Requests, Begin(w, r) PROVE shaped
  <2>1. /\ pc' = [pc EXCEPT ![w] = r.op] /\ req' = [req EXCEPT ![w] = r]
        /\ stack' = [stack EXCEPT ![w] = <<>>] /\ out' = [out EXCEPT ![w] = <<>>]
        /\ DOMAIN pc = Workers /\ DOMAIN stack = Workers /\ DOMAIN out = Workers
        /\ id' = [id EXCEPT ![w] = 0] /\ Maps
        /\ req \in [Workers -> Requests \cup {[op |-> "none"]}]
    BY <1>4 DEF Begin, TypeInv, Maps, AnswerInv, Inv
  <2>2. /\ pc'[w] = r.op /\ req'[w] = r /\ stack'[w] = <<>> /\ out'[w] = <<>>
        /\ req' \in [Workers -> Requests \cup {[op |-> "none"]}]
        /\ \A u \in Workers : u # w =>
             pc'[u] = pc[u] /\ req'[u] = req[u] /\ stack'[u] = stack[u] /\ out'[u] = out[u]
    BY <2>1
  <2>3. r.op \in {"registeruser", "profile", "caw", "read", "follow"}
    BY DEF Requests
  <2>4. <<>> \in Seq(CawIds) /\ Len(<<>>) = 0 /\ IsList(<<>>) /\ MaxThread \in Nat
    BY BoundsAssumption DEF IsList
  <2>5. Shape(w)'
    BY <2>2, <2>3, <2>4 DEF Shape, ReadSteps
  <2>6. \A u \in Workers : u # w => Shape(u)'
    BY <2>2 DEF TypeInv, Shape
  <2>7. Maps'
    BY <2>1 DEF Maps
  <2>8. QED
    BY <2>2, <2>5, <2>6, <2>7
<1>5. ASSUME NEW w \in Workers, Step(w) PROVE shaped
  BY <1>5, ShapeStep DEF TypeInv
<1>6. shaped
  BY <1>2, <1>3, <1>4, <1>5 DEF Next
<1>7. QED
  BY <1>1, <1>6 DEF TypeInv

\* The types hold at first.
LEMMA TypeInit == IsFiniteSet(Workers) /\ Init => TypeInv
<1> SUFFICES ASSUME IsFiniteSet(Workers), Init PROVE TypeInv
  OBVIOUS
<1>1. FollowInv /\ AnswerInv /\ Numbered
  BY FollowInit, AnswerInit, NumberInit
<1>2. \A k : Lookup(kvstore, k) = <<>>
  BY DEF Init, EmptyStore, Lookup
<1>3. Full(kvstore)
  BY DEF Init, EmptyStore, Full
<1>4. <<>> \in Seq(CawIds) /\ Len(<<>>) = 0 /\ MaxThread \in Nat
  BY BoundsAssumption
<1>5. IdLists(kvstore)
  BY <1>2, <1>4 DEF IdLists
<1>6. \A w \in Workers : Shape(w)
  BY <1>4 DEF Init, Shape, ReadSteps
<1>7. QED
  BY <1>1, <1>3, <1>5, <1>6 DEF Init, TypeInv, Maps

\* Every variable keeps its type, whatever fails, crashes or is interleaved: in
\* particular the number a PostCaw takes is at most the number of requests that
\* have asked for one, though two of them may take the same
\* (caw_functions.cpp:51-64), and the stack of ReadCaw holds ids only
\* (caw_functions.cpp:118-136).  A profile is a reply of two parts, hence the
\* bound on MaxThread.
THEOREM TypesHold ==
  ASSUME IsFiniteSet(Workers), MaxThread >= 2
  PROVE  Spec => []TypeOK
<1>1. ASSUME TypeInv PROVE TypeOK
  <2> DEFINE Caws == [id : CawIds, username : Users, parent_id : CawIds \cup {NoParent}]
  <2>1. \A k \in DOMAIN kvstore : kvstore[k] # <<>>
    BY <1>1 DEF TypeInv, Full
  <2>2. Stored(UsersKey) \in Seq(Users)
    BY <1>1 DEF TypeInv, AnswerInv, Inv, Sound, Stored
  <2>3. Stored(LatestKey) \in Seq(CawIds) /\ \A w \in Workers : id[w] \in CawIds \cup {0}
    BY <1>1, NumbersAreIds DEF TypeInv, Stored
  <2>4. ASSUME NEW i \in CawIds PROVE Stored(CawKey(i)) \in Seq(Caws)
    <3>1. Lookup(kvstore, CawKey(i)) \in Seq(CawsAt(i))
      BY <1>1 DEF TypeInv, AnswerInv, Inv, Sound
    <3>2. CawsAt(i) \subseteq Caws
      BY DEF CawsAt
    <3> HIDE DEF Caws
    <3>3. Lookup(kvstore, CawKey(i)) \in Seq(Caws)
      BY <3>1, <3>2, SeqMonotonic
    <3>4. QED
      BY <3>3 DEF Stored
  <2>5. \A i \in CawIds : Children(i) \in Seq(CawIds)
    BY <1>1 DEF TypeInv, IdLists, Children, Stored
  <2>6. \A u \in Users : {Stored(FollowingKey(u)), Stored(FollowersKey(u))} \subseteq Seq(Users)
    BY <1>1 DEF TypeInv, FollowInv, UserLists, Stored
  <2>7. req \in [Workers -> Requests \cup {[op |-> "none"]}]
    BY <1>1 DEF TypeInv
  <2>8. id \in [Workers -> CawIds \cup {0}] /\ stack \in [Workers -> Seq(CawIds)]
    <3>1. Maps
      BY <1>1 DEF TypeInv
    <3>2. \A w \in Workers : stack[w] \in Seq(CawIds)
      BY <1>1 DEF TypeInv, Shape
    <3>3. QED
      BY <2>3, <3>1, <3>2 DEF Maps
  <2>9. \A w \in Workers : Len(stack[w]) <= MaxThread /\ Len(out[w]) <= MaxThread
    BY <1>1 DEF TypeInv, Shape
  <2>10. QED
    BY <2>1, <2>2, <2>3, <2>4, <2>5, <2>6, <2>7, <2>8, <2>9 DEF TypeOK
<1>2. Init => TypeInv
  BY TypeInit
<1>3. TypeInv /\ [Next]_vars => TypeInv'
  BY TypeNext
<1>4. QED
  BY <1>1, <1>2, <1>3, PTL DEF Spec
=============================================================================
