------------------------ MODULE CawSequentialProofs -------------------------
(***************************************************************************)
(* Proofs about CawFunctions as the tests use it: one thread of Faz serves *)
(* requests, and no remote call fails.  Names are then registered once and *)
(* users followed once, also when the process is killed in between; when   *)
(* it is not, the caws are numbered without gaps, each under an id of its  *)
(* own, threads are trees, and ReadCaw answers with the whole thread in    *)
(* preorder.                                                               *)
(* Two threads, a failing call or, for the last four, a kill make these    *)
(* false; caw_read_cycle shows it for two threads.                         *)
(***************************************************************************)
EXTENDS CawFunctionsProofs, SequenceFacts

\* At most one thread serves requests, and every remote call succeeds.
OneAtATime == \A v, w \in Workers : v = w
Sequential == OneAtATime /\ MaxFailures = 0

\* One thread is a finite number of threads.
LEMMA OneIsFinite == OneAtATime => IsFiniteSet(Workers)
<1> SUFFICES ASSUME OneAtATime PROVE IsFiniteSet(Workers)
  OBVIOUS
<1>1. CASE Workers = {}
  BY <1>1, FS_EmptySet
<1>2. ASSUME NEW w \in Workers PROVE IsFiniteSet(Workers)
  <2>1. Workers = {w}
    BY DEF OneAtATime
  <2>2. QED
    BY <2>1, FS_Singleton
<1>3. QED
  BY <1>1, <1>2

\* A Get returns all there is, and a Put or a Remove is not lost.
LEMMA CallsAreReliable ==
  ASSUME Sequential, Counted
  PROVE  /\ \A k : Got(k) = {Stored(k)}
         /\ Lost = {FALSE}
         /\ \A w, label, k, v : Put(w, label, k, v) => kvstore' = PutInto(kvstore, k, v)
<1>1. ~(failures < MaxFailures)
  BY DEF Sequential, Counted
<1>2. Lost = {FALSE} /\ \A k : Got(k) = {Stored(k)}
  BY <1>1 DEF Lost, Got
<1>3. QED
  BY <1>2 DEF Put, Write

\* What is not in a list is counted zero times.
LEMMA CountOfAbsent ==
  ASSUME NEW q, NEW x, x \notin ToSet(q)
  PROVE  Count(q, x) = 0
<1>1. {j \in DOMAIN q : q[j] = x} = {}
  BY DEF ToSet
<1>2. QED
  BY <1>1, FS_EmptySet DEF Count

-----------------------------------------------------------------------------
\* Names and follows.

\* A name that is about to be registered, or a user that is about to be
\* followed, is not yet on the list.
Fresh(w) ==
  /\ pc[w] = "register_put" => req[w].username \notin ToSet(Lookup(kvstore, UsersKey))
  /\ pc[w] = "follow_following" =>
       /\ req[w].to_follow # req[w].username
       /\ req[w].to_follow \notin ToSet(Lookup(kvstore, FollowingKey(req[w].username)))

Once ==
  /\ \A u : Count(Lookup(kvstore, UsersKey), u) <= 1
  /\ \A u, v : Count(Lookup(kvstore, FollowingKey(u)), v) <= IF u = v THEN 0 ELSE 1

OnceInv == FollowInv /\ Once /\ \A w \in Workers : Fresh(w)

\* Steps that write neither the users nor a list of the followed, and that do
\* not end before the Put of one.
LEMMA OnceElsewhere ==
  ASSUME OnceInv, NEW w \in Workers, Step(w),
         ~RegisterUser_Users(w), ~RegisterUser_Put(w),
         ~FollowUser_Check(w), ~FollowUser_PutFollowing(w)
  PROVE  /\ Lookup(kvstore', UsersKey) = Lookup(kvstore, UsersKey)
         /\ \A u : Lookup(kvstore', FollowingKey(u)) = Lookup(kvstore, FollowingKey(u))
         /\ UNCHANGED req
         /\ pc'[w] \notin {"register_put", "follow_following"}
<1> DEFINE moved ==
      /\ UNCHANGED req
      /\ \/ \E label : Goto(w, label) /\ label \notin {"register_put", "follow_following"}
         \/ \E s : Finish(w, s)
         \/ Undefined
      /\ \/ kvstore' = kvstore
         \/ kvstore' = EraseFrom(kvstore, LatestKey)
         \/ \E k, v : /\ kvstore' = PutInto(kvstore, k, v)
                      /\ \/ k = LatestKey
                         \/ \E x : k = CawKey(x) \/ k = ChildrenKey(x) \/ k = FollowersKey(x)
<1>1. moved
  <2>1. CASE PostCaw_Users(w) \/ PostCaw_Parent(w) \/ PostCaw_Latest(w) \/ PostCaw_Increment(w)
    BY <2>1 DEF PostCaw_Users, PostCaw_Parent, PostCaw_Latest, PostCaw_Increment, Get
  <2>2. CASE PostCaw_RemoveLatest(w)
    BY <2>2 DEF PostCaw_RemoveLatest, Write
  <2>3. CASE PostCaw_PutLatest(w) \/ PostCaw_Put(w) \/ PostCaw_PutChild(w)
    BY <2>3 DEF PostCaw_PutLatest, PostCaw_Put, PostCaw_PutChild, Put, Write
  <2>4. CASE ReadCaw_Start(w) \/ ReadCaw_Caw(w) \/ ReadCaw_Children(w) \/ ReadCaw_End(w)
    BY <2>4 DEF ReadCaw_Start, ReadCaw_Caw, ReadCaw_Children, ReadCaw_End, Get
  <2>5. CASE FollowUser_Users(w) \/ FollowUser_Unknown(w)
    BY <2>5 DEF FollowUser_Users, FollowUser_Unknown, Get
  <2>6. CASE FollowUser_PutFollowers(w)
    BY <2>6 DEF FollowUser_PutFollowers, Put, Write
  <2>7. CASE GetProfile_Users(w) \/ GetProfile_Followers(w) \/ GetProfile_Following(w)
    BY <2>7 DEF GetProfile_Users, GetProfile_Followers, GetProfile_Following, Get
  <2>8. QED
    BY <2>1, <2>2, <2>3, <2>4, <2>5, <2>6, <2>7 DEF Step
<1>2. \A x, u : /\ UsersKey # LatestKey /\ UsersKey # CawKey(x) /\ UsersKey # ChildrenKey(x)
                /\ UsersKey # FollowersKey(x)
                /\ FollowingKey(u) # LatestKey /\ FollowingKey(u) # CawKey(x)
                /\ FollowingKey(u) # ChildrenKey(x) /\ FollowingKey(u) # FollowersKey(x)
  BY DEF UsersKey, LatestKey, CawKey, ChildrenKey, FollowingKey, FollowersKey
<1>3. /\ \A k, v, x : x # k => Lookup(PutInto(kvstore, k, v), x) = Lookup(kvstore, x)
      /\ \A k, x : x # k => Lookup(EraseFrom(kvstore, k), x) = Lookup(kvstore, x)
  BY DEF PutInto, EraseFrom, Lookup
<1>4. /\ Lookup(kvstore', UsersKey) = Lookup(kvstore, UsersKey)
      /\ \A u : Lookup(kvstore', FollowingKey(u)) = Lookup(kvstore, FollowingKey(u))
  BY <1>1, <1>2, <1>3
<1>5. pc'[w] \notin {"register_put", "follow_following"}
  <2>1. DOMAIN pc = Workers
    BY DEF OnceInv, FollowInv, Inv
  <2>2. CASE \E label : Goto(w, label) /\ label \notin {"register_put", "follow_following"}
    BY <2>1, <2>2 DEF Goto
  <2>3. CASE (\E s : Finish(w, s)) \/ Undefined
    BY <2>1, <2>3 DEF Finish, Undefined, Die
  <2>4. QED
    BY <1>1, <2>2, <2>3
<1>6. QED
  BY <1>1, <1>4, <1>5

\* RegisterUser looks for the name, and nothing comes between that and its Put.
LEMMA OnceRegister ==
  ASSUME Sequential, OnceInv, NEW w \in Workers, RegisterUser_Users(w) \/ RegisterUser_Put(w)
  PROVE  Once' /\ Fresh(w)'
<1>1. DOMAIN pc = Workers /\ Counted /\ UserLists(kvstore) /\ Once /\ Fresh(w)
      /\ Lookup(kvstore, UsersKey) \in Seq(Users)
  BY DEF OnceInv, FollowInv, Inv, Sound
<1>2. CASE RegisterUser_Users(w)
  <2>1. /\ UNCHANGED <<kvstore, req>>
        /\ IF req[w].username \in ToSet(Stored(UsersKey))
             THEN Finish(w, "ALREADY_EXISTS") ELSE Goto(w, "register_put")
    BY <1>1, <1>2, CallsAreReliable DEF RegisterUser_Users, Get
  <2>2. \/ pc'[w] = "idle"
        \/ pc'[w] = "register_put" /\ req[w].username \notin ToSet(Lookup(kvstore, UsersKey))
    BY <1>1, <2>1 DEF Finish, Goto, Stored
  <2>3. QED
    BY <1>1, <2>1, <2>2 DEF Once, Fresh
<1>3. CASE RegisterUser_Put(w)
  <2> DEFINE u == req[w].username
             q == Lookup(kvstore, UsersKey)
  <2>1. kvstore' = PutInto(kvstore, UsersKey, u) /\ pc[w] = "register_put" /\ pc'[w] = "idle"
    BY <1>1, <1>3, CallsAreReliable, PutDoes DEF RegisterUser_Put, Finish
  <2>2. /\ Lookup(kvstore', UsersKey) = Append(q, u)
        /\ \A x : x # UsersKey => Lookup(kvstore', x) = Lookup(kvstore, x)
    BY <2>1 DEF PutInto, Lookup
  <2>3. Count(q, u) = 0
    BY <1>1, <2>1, CountOfAbsent DEF Fresh
  <2>4. \A x : Count(q, x) <= 1 /\ Count(q, x) \in Nat
    BY <1>1, CountOfAppend DEF Once
  <2> HIDE DEF q, u
  <2>5. \A x : Count(Append(q, u), x) = IF u = x THEN Count(q, x) + 1 ELSE Count(q, x)
    BY <1>1, CountOfAppend DEF q
  <2>6. \A x : Count(Append(q, u), x) <= 1
    BY <2>3, <2>4, <2>5
  <2>7. \A x : FollowingKey(x) # UsersKey
    BY KeysDiffer
  <2>8. Once'
    BY <1>1, <2>2, <2>6, <2>7 DEF Once
  <2>9. QED
    BY <2>1, <2>8 DEF Fresh
<1>4. QED
  BY <1>2, <1>3

\* FollowUser looks for the followed, and nothing comes between that and its Put.
LEMMA OnceFollow ==
  ASSUME Sequential, OnceInv, NEW w \in Workers,
         FollowUser_Check(w) \/ FollowUser_PutFollowing(w)
  PROVE  Once' /\ Fresh(w)'
<1>1. DOMAIN pc = Workers /\ Counted /\ UserLists(kvstore) /\ Once /\ Fresh(w)
  BY DEF OnceInv, FollowInv, Inv
<1>2. CASE FollowUser_Check(w)
  <2>1. /\ UNCHANGED <<kvstore, req>>
        /\ IF req[w].to_follow \in
                {req[w].username} \cup ToSet(Stored(FollowingKey(req[w].username)))
             THEN Finish(w, "INVALID_ARGUMENT") ELSE Goto(w, "follow_following")
    BY <1>1, <1>2, CallsAreReliable DEF FollowUser_Check, Get
  <2>2. \/ pc'[w] = "idle"
        \/ /\ pc'[w] = "follow_following"
           /\ req[w].to_follow # req[w].username
           /\ req[w].to_follow \notin ToSet(Lookup(kvstore, FollowingKey(req[w].username)))
    BY <1>1, <2>1 DEF Finish, Goto, Stored
  <2>3. QED
    BY <1>1, <2>1, <2>2 DEF Once, Fresh
<1>3. CASE FollowUser_PutFollowing(w)
  <2> DEFINE u == req[w].username
             v == req[w].to_follow
             q == Lookup(kvstore, FollowingKey(u))
  <2>1. /\ kvstore' = PutInto(kvstore, FollowingKey(u), v)
        /\ pc[w] = "follow_following" /\ pc'[w] = "follow_followers"
    BY <1>1, <1>3, CallsAreReliable, PutDoes DEF FollowUser_PutFollowing, Goto
  <2>2. /\ Lookup(kvstore', FollowingKey(u)) = Append(q, v)
        /\ \A x : x # FollowingKey(u) => Lookup(kvstore', x) = Lookup(kvstore, x)
    BY <2>1 DEF PutInto, Lookup
  <2>3. Count(q, v) = 0 /\ v # u
    BY <1>1, <2>1, CountOfAbsent DEF Fresh
  <2>4. \A x : Count(q, x) <= (IF u = x THEN 0 ELSE 1) /\ Count(q, x) \in Nat
    BY <1>1, CountOfAppend DEF Once, UserLists
  <2>5. q \in Seq(Users)
    BY <1>1 DEF UserLists
  <2> HIDE DEF q, u, v
  <2>6. \A x : Count(Append(q, v), x) = IF v = x THEN Count(q, x) + 1 ELSE Count(q, x)
    BY <2>5, CountOfAppend
  <2>7. \A x : Count(Append(q, v), x) <= IF u = x THEN 0 ELSE 1
    BY <2>3, <2>4, <2>6
  <2>8. /\ \A x : UsersKey # FollowingKey(x)
        /\ \A x, y : FollowingKey(x) = FollowingKey(y) => x = y
    BY DEF UsersKey, FollowingKey
  <2>9. \A x : x # u => Lookup(kvstore', FollowingKey(x)) = Lookup(kvstore, FollowingKey(x))
    BY <2>2, <2>8
  <2>10. Once'
    BY <1>1, <2>2, <2>7, <2>8, <2>9 DEF Once
  <2>11. QED
    BY <2>1, <2>10 DEF Fresh
<1>4. QED
  BY <1>2, <1>3

\* Every step keeps it.
LEMMA OnceNext ==
  ASSUME Sequential, OnceInv, [Next]_vars
  PROVE  OnceInv'
<1>1. FollowInv'
  BY OneIsFinite, FollowNext DEF OnceInv, Sequential
<1> DEFINE kept == Once' /\ \A w \in Workers : Fresh(w)'
<1>2. ASSUME UNCHANGED vars PROVE kept
  BY <1>2 DEF vars, OnceInv, Once, Fresh
<1>3. ASSUME Crash PROVE kept
  BY <1>3 DEF Crash, Die, OnceInv, Once, Fresh
<1>4. ASSUME NEW w \in Workers, NEW r \in Requests, Begin(w, r) PROVE kept
  <2>1. /\ UNCHANGED kvstore /\ pc'[w] = r.op
        /\ \A u \in Workers : u = w
    BY <1>4 DEF Begin, OnceInv, FollowInv, Inv, Sequential, OneAtATime
  <2>2. r.op \notin {"register_put", "follow_following"}
    BY DEF Requests
  <2>3. QED
    BY <2>1, <2>2 DEF OnceInv, Once, Fresh
<1>5. ASSUME NEW w \in Workers, Step(w) PROVE kept
  <2>1. \A u \in Workers : u = w
    BY DEF Sequential, OneAtATime
  <2>2. CASE \/ RegisterUser_Users(w) \/ RegisterUser_Put(w)
             \/ FollowUser_Check(w) \/ FollowUser_PutFollowing(w)
    BY <2>1, <2>2, OnceRegister, OnceFollow
  <2>3. CASE ~\/ RegisterUser_Users(w) \/ RegisterUser_Put(w)
              \/ FollowUser_Check(w) \/ FollowUser_PutFollowing(w)
    <3>1. /\ Lookup(kvstore', UsersKey) = Lookup(kvstore, UsersKey)
          /\ \A u : Lookup(kvstore', FollowingKey(u)) = Lookup(kvstore, FollowingKey(u))
          /\ pc'[w] \notin {"register_put", "follow_following"}
      BY <1>5, <2>3, OnceElsewhere
    <3>2. QED
      BY <2>1, <3>1 DEF OnceInv, Once, Fresh
  <2>4. QED
    BY <2>2, <2>3
<1>6. kept
  BY <1>2, <1>3, <1>4, <1>5 DEF Next
<1>7. QED
  BY <1>1, <1>6 DEF OnceInv

\* At first there is no name and no follow.
LEMMA OnceInit == Init => OnceInv
<1> SUFFICES ASSUME Init PROVE OnceInv
  OBVIOUS
<1>1. \A k : Lookup(kvstore, k) = <<>>
  BY DEF Init, EmptyStore, Lookup
<1>2. \A x : Count(<<>>, x) = 0
  BY CountOfAbsent DEF ToSet
<1>3. Once
  BY <1>1, <1>2 DEF Once
<1>4. QED
  BY <1>3, FollowInit DEF Init, OnceInv, Fresh

\* One request at a time, with calls that succeed, registers no name twice, even
\* if the process is killed between two calls: nothing is written between the
\* look at the users and the Put (caw_functions.cpp:20-27).
THEOREM NamesRegisteredOnce ==
  ASSUME Sequential
  PROVE  Spec => []UsersUnique
<1>1. ASSUME OnceInv PROVE UsersUnique
  BY <1>1 DEF OnceInv, Once, UsersUnique, Stored
<1>2. OnceInv /\ [Next]_vars => OnceInv'
  BY OnceNext
<1>3. QED
  BY <1>1, <1>2, OnceInit, PTL DEF Spec

\* Under the same conditions nobody follows a user twice, or itself
\* (caw_functions.cpp:150-168).
THEOREM FollowsOnce ==
  ASSUME Sequential
  PROVE  Spec => []FollowOnce
<1>1. ASSUME OnceInv PROVE FollowOnce
  BY <1>1 DEF OnceInv, Once, FollowOnce, Stored
<1>2. OnceInv /\ [Next]_vars => OnceInv'
  BY OnceNext
<1>3. QED
  BY <1>1, <1>2, OnceInit, PTL DEF Spec

-----------------------------------------------------------------------------
\* The numbers of the caws, and the threads they form.

\* What latestCawId holds between requests when n caws are stored.
LatestOf(n) == IF n = 0 THEN <<>> ELSE <<n>>

\* The caws are numbered from 1 to n, and a PostCaw is about to store the next,
\* or has just done it.
Dense(n) ==
  LET latest == Lookup(kvstore, LatestKey)
  IN /\ PostedIds = 1 .. n
     /\ (\A w \in Workers : pc[w] \notin NumberSteps) => latest = LatestOf(n)
     /\ \A w \in Workers :
          /\ pc[w] = "caw_increment" => n # 0
          /\ pc[w] = "caw_remove_latest" => id[w] = n + 1
          /\ pc[w] = "caw_put_latest" => id[w] = n + 1 /\ latest = <<>>
          /\ pc[w] = "caw_put" => id[w] = n + 1 /\ latest = <<n + 1>>
          /\ pc[w] = "caw_put_child" => id[w] = n /\ latest = <<n>>

Kids(f, p) == Lookup(f, ChildrenKey(p))

\* The list q of the children of p.
Ascending(q, p) ==
  \A j \in DOMAIN q : q[j] > p /\ \A i \in DOMAIN q : i < j => q[i] < q[j]

\* The children are among the n caws, in order, and have one parent; the caw
\* that is about to be listed is the last, and not listed yet.
Trees(n) ==
  /\ \A p \in CawIds : Kids(kvstore, p) \in Seq(1 .. n) /\ Ascending(Kids(kvstore, p), p)
  /\ \A p, q \in CawIds : p # q => ToSet(Kids(kvstore, p)) \cap ToSet(Kids(kvstore, q)) = {}
  /\ \A w \in Workers : pc[w] = "caw_put_child" =>
       /\ req[w].parent_id \in CawIds /\ req[w].parent_id < n
       /\ \A p \in CawIds : n \notin ToSet(Kids(kvstore, p))

PostedInv ==
  /\ Inv
  /\ Counted
  /\ Numbered
  /\ \E n \in Nat : Dense(n) /\ Trees(n)

Undisturbed == Sequential /\ MaxCrashes = 0

\* The caws and the children stay, and so does the last id.
SameCaws ==
  /\ Lookup(kvstore', LatestKey) = Lookup(kvstore, LatestKey)
  /\ \A i : CawKey(i) \in DOMAIN kvstore' <=> CawKey(i) \in DOMAIN kvstore
  /\ \A p : Kids(kvstore', p) = Kids(kvstore, p)

\* Steps that number no caw and list no child.
LEMMA CawsElsewhere ==
  ASSUME Inv, NEW w \in Workers, Step(w),
         ~PostCaw_Latest(w), ~PostCaw_Increment(w), ~PostCaw_RemoveLatest(w),
         ~PostCaw_PutLatest(w), ~PostCaw_Put(w), ~PostCaw_PutChild(w)
  PROVE  /\ SameCaws
         /\ UNCHANGED req
         /\ pc[w] \notin NumberSteps
         /\ pc'[w] \notin NumberSteps \cup {"caw_increment"}
<1> DEFINE moved ==
      /\ UNCHANGED req
      /\ pc[w] \notin NumberSteps
      /\ \/ \E label : Goto(w, label) /\ label \notin NumberSteps \cup {"caw_increment"}
         \/ \E s : Finish(w, s)
         \/ Undefined
      /\ \/ kvstore' = kvstore
         \/ \E k, v : /\ kvstore' = PutInto(kvstore, k, v)
                      /\ \/ k = UsersKey
                         \/ \E x : k = FollowingKey(x) \/ k = FollowersKey(x)
<1>1. moved
  <2>1. CASE RegisterUser_Users(w) \/ PostCaw_Users(w) \/ PostCaw_Parent(w)
    BY <2>1 DEF RegisterUser_Users, PostCaw_Users, PostCaw_Parent, Get, NumberSteps
  <2>2. CASE RegisterUser_Put(w)
    BY <2>2 DEF RegisterUser_Put, Put, Write, NumberSteps
  <2>3. CASE ReadCaw_Start(w) \/ ReadCaw_Caw(w) \/ ReadCaw_Children(w) \/ ReadCaw_End(w)
    BY <2>3 DEF ReadCaw_Start, ReadCaw_Caw, ReadCaw_Children, ReadCaw_End, Get, NumberSteps
  <2>4. CASE FollowUser_Users(w) \/ FollowUser_Unknown(w) \/ FollowUser_Check(w)
    BY <2>4 DEF FollowUser_Users, FollowUser_Unknown, FollowUser_Check, Get, NumberSteps
  <2>5. CASE FollowUser_PutFollowing(w) \/ FollowUser_PutFollowers(w)
    BY <2>5 DEF FollowUser_PutFollowing, FollowUser_PutFollowers, Put, Write, NumberSteps
  <2>6. CASE GetProfile_Users(w) \/ GetProfile_Followers(w) \/ GetProfile_Following(w)
    BY <2>6 DEF GetProfile_Users, GetProfile_Followers, GetProfile_Following, Get, NumberSteps
  <2>7. QED
    BY <2>1, <2>2, <2>3, <2>4, <2>5, <2>6 DEF Step
<1>2. \A x, i : /\ UsersKey # LatestKey /\ UsersKey # CawKey(i) /\ UsersKey # ChildrenKey(i)
                /\ FollowingKey(x) # LatestKey /\ FollowingKey(x) # CawKey(i)
                /\ FollowingKey(x) # ChildrenKey(i)
                /\ FollowersKey(x) # LatestKey /\ FollowersKey(x) # CawKey(i)
                /\ FollowersKey(x) # ChildrenKey(i)
  BY DEF UsersKey, LatestKey, CawKey, ChildrenKey, FollowingKey, FollowersKey
<1>3. \A k, v, x : x # k => /\ Lookup(PutInto(kvstore, k, v), x) = Lookup(kvstore, x)
                            /\ x \in DOMAIN PutInto(kvstore, k, v) <=> x \in DOMAIN kvstore
  BY DEF PutInto, Lookup
<1>4. SameCaws
  BY <1>1, <1>2, <1>3 DEF SameCaws, Kids
<1>5. pc'[w] \notin NumberSteps \cup {"caw_increment"}
  <2>1. DOMAIN pc = Workers
    BY DEF Inv
  <2>2. CASE \E label : Goto(w, label) /\ label \notin NumberSteps \cup {"caw_increment"}
    BY <2>1, <2>2 DEF Goto
  <2>3. CASE (\E s : Finish(w, s)) \/ Undefined
    BY <2>1, <2>3 DEF Finish, Undefined, Die, NumberSteps
  <2>4. QED
    BY <1>1, <2>2, <2>3
<1>6. QED
  BY <1>1, <1>4, <1>5

\* A step that stores no caw, lists no child and is not about to.
LEMMA TreesStay ==
  ASSUME NEW n \in Nat, Trees(n), \A p : Kids(kvstore', p) = Kids(kvstore, p),
         \A w \in Workers : pc'[w] # "caw_put_child"
  PROVE  Trees(n)'
BY DEF Trees

\* A step that leaves the stored caws alone.
LEMMA PostedIdsStay ==
  ASSUME \A i : CawKey(i) \in DOMAIN kvstore' <=> CawKey(i) \in DOMAIN kvstore
  PROVE  PostedIds' = PostedIds
BY DEF PostedIds

\* PostCaw takes the next number.
LEMMA DenseNumber ==
  ASSUME Sequential, Inv, Counted, Numbered, NEW w \in Workers, NEW n \in Nat,
         Dense(n), Trees(n), PostCaw_Latest(w) \/ PostCaw_Increment(w)
  PROVE  Dense(n)' /\ Trees(n)'
<1> DEFINE q == Lookup(kvstore, LatestKey)
<1>1. /\ \A u \in Workers : u = w
      /\ DOMAIN pc = Workers /\ DOMAIN id = Workers
      /\ UNCHANGED kvstore
      /\ pc[w] \notin NumberSteps
  BY DEF Sequential, OneAtATime, Inv, Numbered, PostCaw_Latest, PostCaw_Increment, Get,
         NumberSteps
<1>2. q = LatestOf(n) /\ PostedIds = 1 .. n /\ PostedIds' = PostedIds
  BY <1>1, PostedIdsStay DEF Dense
<1>3. q = <<>> <=> n = 0
  BY <1>2 DEF LatestOf
<1>4. CASE PostCaw_Latest(w)
  <2>1. \/ /\ q = <<>> /\ id' = [id EXCEPT ![w] = 1] /\ Goto(w, "caw_put_latest")
        \/ /\ q # <<>> /\ UNCHANGED id /\ Goto(w, "caw_increment")
    BY <1>4, CallsAreReliable DEF PostCaw_Latest, Stored
  <2>2. \/ q = <<>> /\ id'[w] = 1 /\ pc'[w] = "caw_put_latest"
        \/ q # <<>> /\ pc'[w] = "caw_increment"
    BY <1>1, <2>1 DEF Goto
  <2> HIDE DEF q
  <2>3. Dense(n)'
    BY <1>1, <1>2, <1>3, <2>2 DEF Dense, NumberSteps, q
  <2>4. QED
    BY <1>1, <2>2, <2>3, TreesStay
<1>5. CASE PostCaw_Increment(w)
  <2>1. /\ q # <<>> => id' = [id EXCEPT ![w] = q[1] + 1] /\ Goto(w, "caw_remove_latest")
        /\ pc[w] = "caw_increment"
    BY <1>5, CallsAreReliable DEF PostCaw_Increment, Stored
  <2>2. n # 0 /\ q = <<n>>
    BY <1>2, <2>1 DEF Dense, LatestOf
  <2> HIDE DEF q
  <2>3. q # <<>> /\ q[1] = n
    BY <2>2
  <2>4. id'[w] = n + 1 /\ pc'[w] = "caw_remove_latest"
    BY <1>1, <2>1, <2>3 DEF Goto
  <2>5. Dense(n)'
    BY <1>1, <1>2, <2>4 DEF Dense, NumberSteps
  <2>6. QED
    BY <1>1, <2>4, <2>5, TreesStay
<1>6. QED
  BY <1>4, <1>5

\* PostCaw replaces the last id.
LEMMA DenseLatest ==
  ASSUME Sequential, Inv, Counted, Numbered, NEW w \in Workers, NEW n \in Nat,
         Dense(n), Trees(n), PostCaw_RemoveLatest(w) \/ PostCaw_PutLatest(w)
  PROVE  Dense(n)' /\ Trees(n)'
<1>1. /\ \A u \in Workers : u = w
      /\ DOMAIN pc = Workers
      /\ UNCHANGED <<id, req>>
  BY DEF Sequential, OneAtATime, Inv, PostCaw_RemoveLatest, PostCaw_PutLatest, Put, Write,
         locals
<1>2. \A i : CawKey(i) # LatestKey /\ ChildrenKey(i) # LatestKey
  BY DEF CawKey, ChildrenKey, LatestKey
<1>3. CASE PostCaw_RemoveLatest(w)
  <2>1. /\ pc[w] = "caw_remove_latest" /\ pc'[w] = "caw_put_latest"
        /\ kvstore' = EraseFrom(kvstore, LatestKey)
    BY <1>1, <1>3, CallsAreReliable DEF PostCaw_RemoveLatest, Write, Goto
  <2>2. /\ Lookup(kvstore', LatestKey) = <<>>
        /\ \A x : x # LatestKey => /\ Lookup(kvstore', x) = Lookup(kvstore, x)
                                   /\ x \in DOMAIN kvstore' <=> x \in DOMAIN kvstore
    BY <2>1 DEF EraseFrom, Lookup
  <2>3. PostedIds' = PostedIds /\ \A p : Kids(kvstore', p) = Kids(kvstore, p)
    BY <1>2, <2>2, PostedIdsStay DEF Kids
  <2>4. Dense(n)'
    BY <1>1, <2>1, <2>2, <2>3 DEF Dense, NumberSteps
  <2>5. QED
    BY <1>1, <2>1, <2>3, <2>4, TreesStay
<1>4. CASE PostCaw_PutLatest(w)
  <2>1. /\ pc[w] = "caw_put_latest" /\ pc'[w] = "caw_put"
        /\ kvstore' = PutInto(kvstore, LatestKey, id[w])
    BY <1>1, <1>4, CallsAreReliable, PutDoes DEF PostCaw_PutLatest, Goto
  <2>2. /\ Lookup(kvstore', LatestKey) = Append(Lookup(kvstore, LatestKey), id[w])
        /\ \A x : x # LatestKey => /\ Lookup(kvstore', x) = Lookup(kvstore, x)
                                   /\ x \in DOMAIN kvstore' <=> x \in DOMAIN kvstore
    BY <2>1 DEF PutInto, Lookup
  <2>3. PostedIds' = PostedIds /\ \A p : Kids(kvstore', p) = Kids(kvstore, p)
    BY <1>2, <2>2, PostedIdsStay DEF Kids
  <2>4. id[w] = n + 1 /\ Lookup(kvstore, LatestKey) = <<>>
    BY <2>1 DEF Dense
  <2>5. Lookup(kvstore', LatestKey) = <<n + 1>>
    BY <2>2, <2>4
  <2>6. Dense(n)'
    BY <1>1, <2>1, <2>3, <2>4, <2>5 DEF Dense, NumberSteps
  <2>7. QED
    BY <1>1, <2>1, <2>3, <2>6, TreesStay
<1>5. QED
  BY <1>3, <1>4

\* PostCaw stores the caw.
LEMMA DensePut ==
  ASSUME Sequential, Inv, Counted, Numbered, NEW w \in Workers, NEW n \in Nat,
         Dense(n), Trees(n), PostCaw_Put(w)
  PROVE  Dense(n + 1)' /\ Trees(n + 1)'
<1>1. /\ \A u \in Workers : u = w
      /\ DOMAIN pc = Workers
      /\ UNCHANGED <<id, req>>
      /\ pc[w] = "caw_put"
  BY PutDoes, PutKeeps DEF Sequential, OneAtATime, Inv, PostCaw_Put
<1>2. /\ kvstore' = PutInto(kvstore, CawKey(id[w]), Caw(w))
      /\ IF req[w].parent_id = NoParent THEN pc'[w] = "idle" ELSE pc'[w] = "caw_put_child"
  BY <1>1, CallsAreReliable DEF PostCaw_Put, Finish, Goto
<1>3. /\ DOMAIN kvstore' = DOMAIN kvstore \cup {CawKey(id[w])}
      /\ \A x : x # CawKey(id[w]) => Lookup(kvstore', x) = Lookup(kvstore, x)
  BY <1>2 DEF PutInto, Lookup
<1>4. id[w] = n + 1 /\ Lookup(kvstore, LatestKey) = <<n + 1>> /\ PostedIds = 1 .. n
  BY <1>1 DEF Dense
<1>5. id[w] \in CawIds
  <2>1. id[w] # 0
    BY <1>4
  <2>2. QED
    BY <2>1, OneIsFinite, NumbersAreIds DEF Sequential
<1>6. /\ \A i : CawKey(i) # LatestKey
      /\ \A i, p : CawKey(i) # ChildrenKey(p)
      /\ \A i, j : CawKey(i) = CawKey(j) => i = j
  BY KeysDiffer
<1>7. PostedIds' = 1 .. n + 1
  <2>1. PostedIds' = PostedIds \cup {n + 1}
    BY <1>3, <1>4, <1>5, <1>6 DEF PostedIds
  <2>2. QED
    BY <1>4, <2>1
<1>8. /\ Lookup(kvstore', LatestKey) = <<n + 1>>
      /\ \A p : Kids(kvstore', p) = Kids(kvstore, p)
  BY <1>3, <1>4, <1>6 DEF Kids
<1>9. Dense(n + 1)'
  BY <1>1, <1>2, <1>4, <1>7, <1>8 DEF Dense, LatestOf, NumberSteps
<1>10. \A p \in CawIds : /\ Kids(kvstore', p) \in Seq(1 .. n + 1)
                         /\ n + 1 \notin ToSet(Kids(kvstore', p))
  <2> SUFFICES ASSUME NEW p \in CawIds
               PROVE  /\ Kids(kvstore, p) \in Seq(1 .. n + 1)
                      /\ n + 1 \notin ToSet(Kids(kvstore, p))
    BY <1>8
  <2> DEFINE q == Kids(kvstore, p)
  <2>1. q \in Seq(1 .. n)
    BY DEF Trees
  <2> HIDE DEF q
  <2>2. \A j \in DOMAIN q : q[j] \in 1 .. n
    BY <2>1
  <2>3. 1 .. n \subseteq 1 .. n + 1 /\ n + 1 \notin 1 .. n
    OBVIOUS
  <2>4. q \in Seq(1 .. n + 1)
    BY <2>1, <2>3, SeqMonotonic
  <2>5. QED
    BY <2>2, <2>3, <2>4 DEF ToSet, q
<1>11. req[w].parent_id # NoParent => /\ req[w].parent_id \in CawIds
                                      /\ req[w].parent_id < n + 1
  <2>1. /\ req[w] \in Requests /\ req[w].op = "caw"
        /\ Exists(kvstore, req[w].parent_id)
    BY <1>1 DEF Inv, Checked, Posting, PostCawSteps
  <2>2. req[w].parent_id \in CawIds \cup {NoParent}
    BY <2>1 DEF Requests
  <2>3. req[w].parent_id # NoParent => req[w].parent_id \in PostedIds
    BY <2>1, <2>2 DEF Exists, PostedIds
  <2>4. QED
    BY <1>4, <2>2, <2>3
<1>12. Trees(n + 1)'
  BY <1>1, <1>2, <1>8, <1>10, <1>11 DEF Trees
<1>13. QED
  BY <1>9, <1>12

\* PostCaw lists the caw among the children of its parent.
LEMMA DensePutChild ==
  ASSUME Sequential, Inv, Counted, Numbered, NEW w \in Workers, NEW n \in Nat,
         Dense(n), Trees(n), PostCaw_PutChild(w)
  PROVE  Dense(n)' /\ Trees(n)'
<1> DEFINE p == req[w].parent_id
           q == Kids(kvstore, p)
<1>1. /\ \A u \in Workers : u = w
      /\ DOMAIN pc = Workers
      /\ pc[w] = "caw_put_child" /\ pc'[w] = "idle"
  BY PutDoes DEF Sequential, OneAtATime, Inv, PostCaw_PutChild, Finish
<1>2. kvstore' = PutInto(kvstore, ChildrenKey(p), id[w])
  BY CallsAreReliable DEF PostCaw_PutChild
<1>3. /\ \A x : x # ChildrenKey(p) => /\ Lookup(kvstore', x) = Lookup(kvstore, x)
                                      /\ x \in DOMAIN kvstore' <=> x \in DOMAIN kvstore
      /\ Kids(kvstore', p) = Append(q, id[w])
  BY <1>2 DEF PutInto, Lookup, Kids
<1>4. /\ \A x : CawKey(x) # ChildrenKey(p)
      /\ ChildrenKey(p) # LatestKey
      /\ \A x : ChildrenKey(x) = ChildrenKey(p) => x = p
  BY DEF CawKey, ChildrenKey, LatestKey
<1>5. id[w] = n /\ n # 0 /\ Lookup(kvstore, LatestKey) = <<n>> /\ PostedIds = 1 .. n
  BY <1>1 DEF Dense, Numbered, NumberSteps
<1>6. PostedIds' = PostedIds /\ Lookup(kvstore', LatestKey) = <<n>>
  BY <1>3, <1>4, <1>5, PostedIdsStay
<1>7. Dense(n)'
  BY <1>1, <1>5, <1>6 DEF Dense, LatestOf, NumberSteps
<1>8. p \in CawIds /\ p < n /\ \A x \in CawIds : n \notin ToSet(Kids(kvstore, x))
  BY <1>1 DEF Trees
<1>9. Kids(kvstore', p) \in Seq(1 .. n) /\ Ascending(Kids(kvstore', p), p)
  <2>1. q \in Seq(1 .. n) /\ Ascending(q, p) /\ n \notin ToSet(q)
    BY <1>8 DEF Trees
  <2>2. Kids(kvstore', p) = Append(q, n) /\ n \in 1 .. n
    BY <1>3, <1>5
  <2> HIDE DEF q, p
  <2> DEFINE r == Append(q, n)
  <2>3. /\ r \in Seq(1 .. n) /\ DOMAIN r = 1 .. Len(q) + 1 /\ Len(q) \in Nat
        /\ r[Len(q) + 1] = n
        /\ \A j \in 1 .. Len(q) : r[j] = q[j]
    BY <2>1, <2>2, AppendProperties
  <2>4. DOMAIN q = 1 .. Len(q) /\ \A j \in 1 .. Len(q) : q[j] \in 1 .. n /\ q[j] # n
    BY <2>1 DEF ToSet
  <2> HIDE DEF r
  <2>5. ASSUME NEW j \in DOMAIN r PROVE r[j] > p /\ \A i \in DOMAIN r : i < j => r[i] < r[j]
    <3>1. CASE j \in 1 .. Len(q)
      <4>1. \A i \in DOMAIN r : i < j => i \in 1 .. Len(q)
        BY <2>3, <3>1
      <4>2. r[j] = q[j] /\ \A i \in DOMAIN r : i < j => r[i] = q[i]
        BY <2>3, <3>1, <4>1
      <4>3. QED
        BY <2>1, <2>4, <3>1, <4>1, <4>2 DEF Ascending
    <3>2. CASE j = Len(q) + 1
      <4>1. \A i \in DOMAIN r : i < j => i \in 1 .. Len(q) /\ r[i] = q[i]
        BY <2>3, <3>2
      <4>2. \A i \in DOMAIN r : i < j => r[i] \in 1 .. n /\ r[i] # n
        BY <2>4, <4>1
      <4>3. r[j] = n
        BY <2>3, <3>2
      <4>4. QED
        BY <1>5, <1>8, <4>2, <4>3
    <3>3. QED
      BY <2>3, <3>1, <3>2
  <2>6. QED
    BY <2>2, <2>3, <2>5 DEF Ascending, r
<1>10. \A x : x # p => Kids(kvstore', x) = Kids(kvstore, x)
  BY <1>3, <1>4 DEF Kids
<1>11. ToSet(Kids(kvstore', p)) = ToSet(q) \cup {n}
  <2>1. q \in Seq(1 .. n) /\ Kids(kvstore', p) = Append(q, n)
    BY <1>3, <1>5, <1>8 DEF Trees
  <2> HIDE DEF q
  <2>2. QED
    BY <2>1, ElementsOfAppend
<1>12. \A x, y \in CawIds : x # y =>
         ToSet(Kids(kvstore', x)) \cap ToSet(Kids(kvstore', y)) = {}
  <2> HIDE DEF p
  <2>1. ASSUME NEW x \in CawIds, x # p
        PROVE  ToSet(Kids(kvstore', x)) \cap ToSet(Kids(kvstore', p)) = {}
    <3>1. ToSet(Kids(kvstore, x)) \cap ToSet(q) = {} /\ n \notin ToSet(Kids(kvstore, x))
      BY <1>8, <2>1 DEF Trees
    <3>2. Kids(kvstore', x) = Kids(kvstore, x)
      BY <1>10, <2>1
    <3> HIDE DEF q
    <3>3. QED
      BY <1>11, <3>1, <3>2
  <2>2. ASSUME NEW x \in CawIds, NEW y \in CawIds, x # p, y # p, x # y
        PROVE  ToSet(Kids(kvstore', x)) \cap ToSet(Kids(kvstore', y)) = {}
    BY <1>10, <2>2 DEF Trees
  <2>3. QED
    BY <2>1, <2>2
<1>13. \A x \in CawIds : Kids(kvstore', x) \in Seq(1 .. n) /\ Ascending(Kids(kvstore', x), x)
  <2> HIDE DEF p
  <2>1. QED
    BY <1>9, <1>10 DEF Trees
<1>14. Trees(n)'
  BY <1>1, <1>12, <1>13 DEF Trees
<1>15. QED
  BY <1>7, <1>14

\* A step of the only thread.
LEMMA PostedStep ==
  ASSUME Sequential, Inv, Counted, Numbered, NEW w \in Workers, NEW n \in Nat,
         Dense(n), Trees(n), Step(w)
  PROVE  \E m \in Nat : (Dense(m) /\ Trees(m))'
<1>1. CASE PostCaw_Latest(w) \/ PostCaw_Increment(w)
  BY <1>1, DenseNumber
<1>2. CASE PostCaw_RemoveLatest(w) \/ PostCaw_PutLatest(w)
  BY <1>2, DenseLatest
<1>3. CASE PostCaw_Put(w)
  <2>1. n + 1 \in Nat
    OBVIOUS
  <2>2. QED
    BY <1>3, <2>1, DensePut
<1>4. CASE PostCaw_PutChild(w)
  BY <1>4, DensePutChild
<1>5. CASE /\ ~PostCaw_Latest(w) /\ ~PostCaw_Increment(w) /\ ~PostCaw_RemoveLatest(w)
           /\ ~PostCaw_PutLatest(w) /\ ~PostCaw_Put(w) /\ ~PostCaw_PutChild(w)
  <2>1. /\ SameCaws /\ pc[w] \notin NumberSteps
        /\ pc'[w] \notin NumberSteps \cup {"caw_increment"}
        /\ \A u \in Workers : u = w
    BY <1>5, CawsElsewhere DEF Sequential, OneAtATime
  <2>2. PostedIds' = PostedIds
    BY <2>1, PostedIdsStay DEF SameCaws
  <2>3. Dense(n)'
    BY <2>1, <2>2 DEF Dense, SameCaws, NumberSteps
  <2>4. Trees(n)'
    <3>1. \A u \in Workers : pc'[u] # "caw_put_child"
      BY <2>1 DEF NumberSteps
    <3>2. QED
      BY <2>1, <3>1, TreesStay DEF SameCaws
  <2>5. QED
    BY <2>3, <2>4
<1>6. QED
  BY <1>1, <1>2, <1>3, <1>4, <1>5

\* Every step keeps the caws numbered and in trees.
LEMMA PostedNext ==
  ASSUME Undisturbed, PostedInv, [Next]_vars
  PROVE  PostedInv'
<1>1. Inv' /\ Counted' /\ Numbered'
  BY InvNext, CountedNext, NumberNext, OneIsFinite DEF PostedInv, Undisturbed, Sequential
<1>2. PICK n \in Nat : Dense(n) /\ Trees(n)
  BY DEF PostedInv
<1> DEFINE kept == \E m \in Nat : (Dense(m) /\ Trees(m))'
<1>3. ASSUME UNCHANGED vars PROVE kept
  <2>1. Dense(n)' /\ Trees(n)'
    BY <1>2, <1>3 DEF vars, Dense, Trees, PostedIds
  <2>2. QED
    BY <2>1
<1>4. ~Crash
  BY DEF Crash, PostedInv, Counted, Undisturbed
<1>5. ASSUME NEW w \in Workers, NEW r \in Requests, Begin(w, r) PROVE kept
  <2>1. /\ UNCHANGED kvstore /\ pc[w] = "idle" /\ pc'[w] = r.op /\ \A u \in Workers : u = w
    BY <1>5 DEF Begin, PostedInv, Inv, Undisturbed, Sequential, OneAtATime
  <2>2. r.op \notin NumberSteps \cup {"caw_increment"}
    BY DEF Requests, NumberSteps
  <2>3. pc[w] \notin NumberSteps
    BY <2>1 DEF NumberSteps
  <2>4. Dense(n)' /\ Trees(n)'
    BY <1>2, <2>1, <2>2, <2>3 DEF Dense, Trees, PostedIds, NumberSteps
  <2>5. QED
    BY <2>4
<1>6. ASSUME NEW w \in Workers, Step(w) PROVE kept
  BY <1>2, <1>6, PostedStep DEF PostedInv, Undisturbed
<1>7. kept
  BY <1>3, <1>4, <1>5, <1>6 DEF Next
<1>8. QED
  BY <1>1, <1>7 DEF PostedInv

\* At first there are no caws.
LEMMA PostedInit == OneAtATime /\ Init => PostedInv
<1> SUFFICES ASSUME OneAtATime, Init PROVE PostedInv
  OBVIOUS
<1>1. Inv /\ Counted /\ Numbered
  BY InvInit, NumberInit, OneIsFinite DEF Init, Counted
<1>2. \A k : Lookup(kvstore, k) = <<>> /\ k \notin DOMAIN kvstore
  BY DEF Init, EmptyStore, Lookup
<1>3. Dense(0)
  <2>1. PostedIds = 1 .. 0
    BY <1>2 DEF PostedIds
  <2>2. QED
    BY <1>2, <2>1 DEF Init, Dense, LatestOf
<1>4. Trees(0)
  <2>1. <<>> \in Seq(1 .. 0) /\ ToSet(<<>>) = {}
    BY DEF ToSet
  <2>2. \A p : Ascending(<<>>, p)
    BY DEF Ascending
  <2>3. QED
    BY <1>2, <2>1, <2>2 DEF Init, Trees, Kids
<1>5. QED
  BY <1>1, <1>3, <1>4 DEF PostedInv

\* One request at a time, with calls that succeed and a process that stays up,
\* numbers the caws from 1 without a gap, and latestCawId holds the last number
\* alone (caw_functions.cpp:51-64).
THEOREM CawsNumberedDensely ==
  ASSUME Undisturbed
  PROVE  Spec => []IdsDense
<1>1. ASSUME PostedInv PROVE IdsDense
  <2> SUFFICES ASSUME Quiet
               PROVE  LET m == Cardinality(PostedIds)
                      IN /\ PostedIds = 1 .. m
                         /\ Stored(LatestKey) = IF m = 0 THEN <<>> ELSE <<m>>
    BY DEF IdsDense
  <2>1. PICK n \in Nat : Dense(n)
    BY <1>1 DEF PostedInv
  <2>2. \A w \in Workers : pc[w] \notin NumberSteps
    BY DEF Quiet, NumberSteps
  <2>3. PostedIds = 1 .. n /\ Lookup(kvstore, LatestKey) = LatestOf(n)
    BY <2>1, <2>2 DEF Dense
  <2>4. Cardinality(1 .. n) = n
    <3>1. 1 \in Int /\ n \in Int
      OBVIOUS
    <3>2. Cardinality(1 .. n) = IF 1 > n THEN 0 ELSE n - 1 + 1
      BY <3>1, FS_Interval
    <3>3. QED
      BY <3>2
  <2>5. QED
    BY <2>3, <2>4 DEF LatestOf, Stored
<1>2. PostedInv /\ [Next]_vars => PostedInv'
  BY PostedNext
<1>3. Init => PostedInv
  BY PostedInit DEF Undisturbed, Sequential
<1>4. QED
  BY <1>1, <1>2, <1>3, PTL DEF Spec

\* Under the same conditions the replies form trees: a caw comes after its
\* parent, the children of a caw are listed in the order of posting, and no caw
\* has two parents (caw_functions.cpp:85-91).
THEOREM RepliesFormTrees ==
  ASSUME Undisturbed
  PROVE  Spec => []ThreadsAreTrees
<1>1. ASSUME PostedInv PROVE ThreadsAreTrees
  <2>1. PICK n \in Nat : Trees(n)
    BY <1>1 DEF PostedInv
  <2>2. ASSUME NEW p \in CawIds, NEW j \in DOMAIN Kids(kvstore, p), j > 1
        PROVE  Kids(kvstore, p)[j] > Kids(kvstore, p)[j - 1]
    <3> DEFINE q == Kids(kvstore, p)
    <3>1. q \in Seq(1 .. n) /\ \A i \in DOMAIN q : i < j => q[i] < q[j]
      BY <2>1 DEF Trees, Ascending
    <3>2. j \in DOMAIN q
      OBVIOUS
    <3> HIDE DEF q
    <3>3. j - 1 \in DOMAIN q /\ j - 1 < j /\ q[j - 1] \in 1 .. n /\ q[j] \in 1 .. n
      BY <2>2, <3>1, <3>2
    <3>4. q[j] > q[j - 1]
      BY <3>1, <3>3
    <3>5. QED
      BY <3>4 DEF q
  <2>3. QED
    BY <2>1, <2>2 DEF Trees, Ascending, Kids, ThreadsAreTrees, Children, Stored
<1>2. PostedInv /\ [Next]_vars => PostedInv'
  BY PostedNext
<1>3. Init => PostedInv
  BY PostedInit DEF Undisturbed, Sequential
<1>4. QED
  BY <1>1, <1>2, <1>3, PTL DEF Spec

\* An id names one caw at most.
OneCawEach == \A i \in CawIds : Len(Lookup(kvstore, CawKey(i))) <= 1

\* Only PostCaw stores a caw.
LEMMA StoredCawsStay ==
  ASSUME NEW w \in Workers, Step(w), ~PostCaw_Put(w)
  PROVE  \A i : Lookup(kvstore', CawKey(i)) = Lookup(kvstore, CawKey(i))
<1> DEFINE moved ==
      \/ kvstore' = kvstore
      \/ kvstore' = EraseFrom(kvstore, LatestKey)
      \/ \E k, v : /\ kvstore' = PutInto(kvstore, k, v)
                   /\ \/ k = LatestKey \/ k = UsersKey
                      \/ \E x : k = ChildrenKey(x) \/ k = FollowingKey(x) \/ k = FollowersKey(x)
<1>1. moved
  <2>1. CASE RegisterUser_Users(w) \/ PostCaw_Users(w) \/ PostCaw_Parent(w)
    BY <2>1 DEF RegisterUser_Users, PostCaw_Users, PostCaw_Parent, Get
  <2>2. CASE PostCaw_Latest(w) \/ PostCaw_Increment(w) \/ PostCaw_RemoveLatest(w)
    BY <2>2 DEF PostCaw_Latest, PostCaw_Increment, PostCaw_RemoveLatest, Get, Write
  <2>3. CASE RegisterUser_Put(w) \/ PostCaw_PutLatest(w) \/ PostCaw_PutChild(w)
    BY <2>3 DEF RegisterUser_Put, PostCaw_PutLatest, PostCaw_PutChild, Put, Write
  <2>4. CASE ReadCaw_Start(w) \/ ReadCaw_Caw(w) \/ ReadCaw_Children(w) \/ ReadCaw_End(w)
    BY <2>4 DEF ReadCaw_Start, ReadCaw_Caw, ReadCaw_Children, ReadCaw_End, Get
  <2>5. CASE FollowUser_Users(w) \/ FollowUser_Unknown(w) \/ FollowUser_Check(w)
    BY <2>5 DEF FollowUser_Users, FollowUser_Unknown, FollowUser_Check, Get
  <2>6. CASE FollowUser_PutFollowing(w) \/ FollowUser_PutFollowers(w)
    BY <2>6 DEF FollowUser_PutFollowing, FollowUser_PutFollowers, Put, Write
  <2>7. CASE GetProfile_Users(w) \/ GetProfile_Followers(w) \/ GetProfile_Following(w)
    BY <2>7 DEF GetProfile_Users, GetProfile_Followers, GetProfile_Following, Get
  <2>8. QED
    BY <2>1, <2>2, <2>3, <2>4, <2>5, <2>6, <2>7 DEF Step
<1>2. /\ \A k, v, x : x # k => Lookup(PutInto(kvstore, k, v), x) = Lookup(kvstore, x)
      /\ \A k, x : x # k => Lookup(EraseFrom(kvstore, k), x) = Lookup(kvstore, x)
  BY DEF PutInto, EraseFrom, Lookup
<1>3. QED
  BY <1>1, <1>2, KeysDiffer

\* A step keeps the caws apart: the number PostCaw stores is not in use.
LEMMA OneCawNext ==
  ASSUME Undisturbed, PostedInv, OneCawEach, [Next]_vars
  PROVE  OneCawEach'
<1>1. CASE UNCHANGED vars \/ Crash \/ \E w \in Workers, r \in Requests : Begin(w, r)
  <2>1. kvstore' = kvstore
    BY <1>1 DEF vars, Crash, Begin
  <2>2. QED
    BY <2>1 DEF OneCawEach
<1>2. ASSUME NEW w \in Workers, PostCaw_Put(w) PROVE OneCawEach'
  <2>1. PICK n \in Nat : Dense(n)
    BY DEF PostedInv
  <2>2. pc[w] = "caw_put" /\ kvstore' = PutInto(kvstore, CawKey(id[w]), Caw(w))
    BY <1>2, PutDoes, CallsAreReliable DEF PostCaw_Put, PostedInv, Undisturbed
  <2>3. id[w] = n + 1 /\ PostedIds = 1 .. n
    BY <2>1, <2>2 DEF Dense
  <2>4. id[w] \in CawIds => CawKey(id[w]) \notin DOMAIN kvstore
    BY <2>3 DEF PostedIds
  <2> DEFINE k == CawKey(id[w])
             c == Caw(w)
  <2>5. id[w] \in CawIds => Lookup(kvstore', k) = <<c>>
    <3>1. kvstore' = PutInto(kvstore, k, c) /\ (id[w] \in CawIds => k \notin DOMAIN kvstore)
      BY <2>2, <2>4
    <3> HIDE DEF k, c
    <3>2. k \notin DOMAIN kvstore => Lookup(PutInto(kvstore, k, c), k) = Append(<<>>, c)
      BY DEF PutInto, Lookup
    <3>3. Append(<<>>, c) = <<c>>
      OBVIOUS
    <3>4. QED
      BY <3>1, <3>2, <3>3
  <2>6. \A i : i # id[w] => Lookup(kvstore', CawKey(i)) = Lookup(kvstore, CawKey(i))
    <3>1. \A x : x # k => Lookup(kvstore', x) = Lookup(kvstore, x)
      BY <2>2 DEF PutInto, Lookup
    <3>2. \A i, j : CawKey(i) = CawKey(j) => i = j
      BY KeysDiffer
    <3>3. QED
      BY <3>1, <3>2
  <2>7. ASSUME NEW i \in CawIds PROVE Len(Lookup(kvstore', CawKey(i))) <= 1
    <3>1. CASE i = id[w]
      <4>1. Lookup(kvstore', CawKey(i)) = <<c>>
        BY <2>5, <3>1
      <4> HIDE DEF c
      <4>2. Len(<<c>>) = 1
        OBVIOUS
      <4>3. QED
        BY <4>1, <4>2
    <3>2. CASE i # id[w]
      BY <2>6, <3>2 DEF OneCawEach
    <3>3. QED
      BY <3>1, <3>2
  <2>8. QED
    BY <2>7 DEF OneCawEach
<1>3. ASSUME NEW w \in Workers, Step(w), ~PostCaw_Put(w) PROVE OneCawEach'
  BY <1>3, StoredCawsStay DEF OneCawEach
<1>4. QED
  BY <1>1, <1>2, <1>3 DEF Next

\* Under the same conditions an id names one caw (caw_functions.cpp:82-83).
THEOREM IdsNameOneCaw ==
  ASSUME Undisturbed
  PROVE  Spec => []IdsUnique
<1>1. OneCawEach => IdsUnique
  BY DEF OneCawEach, IdsUnique, Stored
<1>2. PostedInv /\ OneCawEach /\ [Next]_vars => (PostedInv /\ OneCawEach)'
  BY PostedNext, OneCawNext
<1>3. Init => PostedInv /\ OneCawEach
  <2>1. Init => \A k : Lookup(kvstore, k) = <<>>
    BY DEF Init, EmptyStore, Lookup
  <2>2. Init => OneCawEach
    BY <2>1 DEF OneCawEach
  <2>3. QED
    BY <2>2, PostedInit DEF Undisturbed, Sequential
<1>4. QED
  BY <1>1, <1>2, <1>3, PTL DEF Spec

-----------------------------------------------------------------------------
\* A thread as a graph, and the order in which it is visited.

\* K[c] lists the children of caw c: they come after c, c lists each once, and
\* no other caw lists them.
Forest(K, N) ==
  /\ \A c \in 1 .. N : /\ K[c] \in Seq(1 .. N) /\ IsInjective(K[c])
                       /\ \A x \in ToSet(K[c]) : x > c
  /\ \A c, d \in 1 .. N : c # d => ToSet(K[c]) \cap ToSet(K[d]) = {}

\* f[c] is the thread that starts at c, in preorder.
Visiting(K, f, N) == f = [c \in 1 .. N |-> <<c>> \o Visits(f, K[c])]

\* The last k of the caws.
Latter(N, k) == {c \in 1 .. N : c > N - k}

\* The values of f at the last k caws.
VisitsLatter(K, f, N, k) ==
  /\ SeqValued(f, Latter(N, k), 1 .. N)
  /\ \A c \in Latter(N, k) : f[c] = <<c>> \o Visits(f, K[c])

\* The children of one of the last k + 1 caws are among the last k.
LEMMA LatterChildren ==
  ASSUME NEW N \in Nat, NEW K, Forest(K, N), NEW k \in Nat, NEW c \in Latter(N, k + 1)
  PROVE  K[c] \in Seq(Latter(N, k)) /\ c \in 1 .. N
<1> DEFINE q == K[c]
           L == Latter(N, k)
<1>1. c \in 1 .. N /\ c > N - (k + 1)
  BY DEF Latter
<1>2. q \in Seq(1 .. N) /\ \A x \in ToSet(q) : x > c
  BY <1>1 DEF Forest
<1> HIDE DEF q
<1>3. Len(q) \in Nat /\ DOMAIN q = 1 .. Len(q) /\ q = [j \in 1 .. Len(q) |-> q[j]]
  BY <1>2
<1>4. \A j \in 1 .. Len(q) : q[j] \in L
  <2>1. \A j \in 1 .. Len(q) : q[j] \in 1 .. N /\ q[j] > c
    BY <1>2, <1>3 DEF ToSet
  <2>2. \A j \in 1 .. Len(q) : q[j] > N - k
    BY <1>1, <2>1
  <2>3. QED
    BY <2>1, <2>2 DEF Latter
<1> HIDE DEF L
<1>5. q \in Seq(L)
  BY <1>3, <1>4
<1>6. QED
  BY <1>1, <1>5 DEF q, L

\* In a forest the recursive definition of the preorder has a solution.
LEMMA VisitExists ==
  ASSUME NEW N \in Nat, NEW K, Forest(K, N)
  PROVE  \E f : Visiting(K, f, N)
<1> DEFINE T == {k \in Nat : \E f : VisitsLatter(K, f, N, k)}
<1>1. 0 \in T
  <2>1. Latter(N, 0) = {}
    BY DEF Latter
  <2>2. VisitsLatter(K, [c \in {} |-> <<>>], N, 0)
    BY <2>1 DEF VisitsLatter, SeqValued
  <2>3. QED
    BY <2>2
<1>2. ASSUME NEW k \in T PROVE k + 1 \in T
  <2>1. k \in Nat /\ k + 1 \in Nat
    OBVIOUS
  <2>2. PICK f : VisitsLatter(K, f, N, k)
    OBVIOUS
  <2> HIDE DEF T
  <2> DEFINE L == Latter(N, k)
             M == Latter(N, k + 1)
             g == [c \in M |-> IF c \in L THEN f[c] ELSE <<c>> \o Visits(f, K[c])]
  <2>3. L \subseteq M
    BY <2>1 DEF Latter
  <2>4. SeqValued(f, L, 1 .. N) /\ \A c \in L : f[c] = <<c>> \o Visits(f, K[c])
    BY <2>2 DEF VisitsLatter
  <2>5. \A c \in M : K[c] \in Seq(L) /\ c \in 1 .. N
    BY <2>1, LatterChildren
  <2>6. \A c \in M : g[c] = <<c>> \o Visits(f, K[c])
    BY <2>3, <2>4
  <2>7. \A c \in L : g[c] = f[c]
    BY <2>3
  <2>8. \A c \in M : g[c] \in Seq(1 .. N)
    <3> HIDE DEF L, M, g
    <3> TAKE c \in M
    <3>1. Visits(f, K[c]) \in Seq(1 .. N)
      BY <2>4, <2>5, VisitsTyped
    <3>2. <<c>> \in Seq(1 .. N)
      BY <2>5
    <3>3. QED
      BY <2>6, <3>1, <3>2, ConcatProperties
  <2>9. SeqValued(g, M, 1 .. N)
    BY <2>8 DEF SeqValued
  <2> HIDE DEF g, L, M
  <2>10. \A c \in M : Visits(g, K[c]) = Visits(f, K[c])
    <3> TAKE c \in M
    <3>1. \A j \in DOMAIN K[c] : K[c][j] \in L
      BY <2>5
    <3>2. \A j \in DOMAIN K[c] : g[K[c][j]] = f[K[c][j]]
      BY <2>7, <3>1
    <3>3. QED
      BY <3>2, VisitsSame
  <2>11. VisitsLatter(K, g, N, k + 1)
    BY <2>6, <2>9, <2>10 DEF VisitsLatter, M
  <2>12. QED
    BY <2>1, <2>11 DEF T
<1> HIDE DEF T
<1>3. T = Nat
  <2>1. T \subseteq Nat
    BY DEF T
  <2>2. QED
    BY <1>1, <1>2, <2>1, SetInduction
<1>4. PICK f : VisitsLatter(K, f, N, N)
  BY <1>3 DEF T
<1>5. Latter(N, N) = 1 .. N
  BY DEF Latter
<1>6. f = [c \in 1 .. N |-> f[c]] /\ \A c \in 1 .. N : f[c] = <<c>> \o Visits(f, K[c])
  BY <1>4, <1>5 DEF VisitsLatter, SeqValued
<1>7. Visiting(K, f, N)
  BY <1>6 DEF Visiting
<1>8. QED
  BY <1>7

\* Any solution gives sequences of caws.
LEMMA VisitTyped ==
  ASSUME NEW N \in Nat, NEW K, Forest(K, N), NEW f, Visiting(K, f, N)
  PROVE  SeqValued(f, 1 .. N, 1 .. N)
<1> DEFINE T == {k \in Nat : \A c \in Latter(N, k) : f[c] \in Seq(1 .. N)}
<1>0. f = [c \in 1 .. N |-> f[c]] /\ \A c \in 1 .. N : f[c] = <<c>> \o Visits(f, K[c])
  <2> DEFINE g == [c \in 1 .. N |-> <<c>> \o Visits(f, K[c])]
  <2>1. f = g
    BY DEF Visiting
  <2>2. g = [c \in 1 .. N |-> g[c]] /\ \A c \in 1 .. N : g[c] = <<c>> \o Visits(f, K[c])
    OBVIOUS
  <2> HIDE DEF g
  <2>3. QED
    BY <2>1, <2>2
<1>1. 0 \in T
  <2>1. Latter(N, 0) = {}
    BY DEF Latter
  <2>2. QED
    BY <2>1
<1>2. ASSUME NEW k \in T PROVE k + 1 \in T
  <2>1. k \in Nat /\ k + 1 \in Nat /\ \A c \in Latter(N, k) : f[c] \in Seq(1 .. N)
    OBVIOUS
  <2> HIDE DEF T
  <2> DEFINE L == Latter(N, k)
             g == [c \in L |-> f[c]]
  <2>2. SeqValued(g, L, 1 .. N) /\ \A c \in L : g[c] = f[c]
    BY <2>1 DEF SeqValued
  <2> HIDE DEF g
  <2>3. ASSUME NEW c \in Latter(N, k + 1) PROVE f[c] \in Seq(1 .. N)
    <3>1. K[c] \in Seq(L) /\ c \in 1 .. N
      BY <2>1, LatterChildren
    <3> HIDE DEF L
    <3>2. Visits(g, K[c]) \in Seq(1 .. N)
      BY <2>2, <3>1, VisitsTyped
    <3>3. \A j \in DOMAIN K[c] : g[K[c][j]] = f[K[c][j]]
      BY <2>2, <3>1
    <3>4. Visits(g, K[c]) = Visits(f, K[c])
      BY <3>3, VisitsSame
    <3>5. <<c>> \in Seq(1 .. N)
      BY <3>1
    <3>6. <<c>> \o Visits(g, K[c]) \in Seq(1 .. N)
      BY <3>2, <3>5, ConcatProperties
    <3>7. f[c] = <<c>> \o Visits(f, K[c])
      BY <1>0, <3>1, Zenon
    <3>8. QED
      BY <3>4, <3>6, <3>7
  <2>4. QED
    BY <2>1, <2>3 DEF T
<1> HIDE DEF T
<1>3. T = Nat
  <2>1. T \subseteq Nat
    BY DEF T
  <2>2. QED
    BY <1>1, <1>2, <2>1, SetInduction
<1>4. \A c \in Latter(N, N) : f[c] \in Seq(1 .. N)
  BY <1>3 DEF T
<1>5. Latter(N, N) = 1 .. N
  BY DEF Latter
<1>6. QED
  BY <1>0, <1>4, <1>5 DEF SeqValued

-----------------------------------------------------------------------------
\* The visit as ReadCaw makes it.

\* o is the visit of the thread of r so far, and t what there is to visit: the
\* caws in them differ, and each was reached through its parent, or is r.
Walk(K, f, N, r, o, t) ==
  /\ o \in Seq(1 .. N) /\ IsInjective(o)
  /\ t \in Seq(1 .. N) /\ IsInjective(t)
  /\ ToSet(o) \cap ToSet(t) = {}
  /\ \A x \in ToSet(o) \cup ToSet(t) :
       x = r \/ (x > r /\ \E p \in ToSet(o) : x \in ToSet(K[p]))
  /\ o \o Visits(f, t) = f[r]

\* Before the first caw.
LEMMA WalkStart ==
  ASSUME NEW N \in Nat, NEW K, NEW f, SeqValued(f, 1 .. N, 1 .. N), NEW r \in 1 .. N
  PROVE  Walk(K, f, N, r, <<>>, <<r>>)
<1>1. <<>> \in Seq(1 .. N) /\ <<r>> \in Seq(1 .. N)
  OBVIOUS
<1>2. Visits(f, <<r>>) = f[r] /\ f[r] \in Seq(1 .. N)
  BY VisitsShort DEF SeqValued
<1>3. <<>> \o Visits(f, <<r>>) = f[r]
  BY <1>2, ConcatEmptySeq
<1>4. QED
  BY <1>1, <1>3, InjectiveShort DEF Walk

\* There is never more to visit, nor more visited, than there are caws.
LEMMA WalkBound ==
  ASSUME NEW N \in Nat, NEW K, NEW f, NEW r, NEW o, NEW t, Walk(K, f, N, r, o, t)
  PROVE  Len(o) <= N /\ Len(t) <= N
<1>1. ASSUME NEW q \in Seq(1 .. N), IsInjective(q) PROVE Len(q) <= N
  <2>1. /\ Len(q) \in Nat /\ DOMAIN q = 1 .. Len(q) /\ q \in [1 .. Len(q) -> 1 .. N]
        /\ 1 \in Int /\ N \in Int /\ Len(q) \in Int
    OBVIOUS
  <2>2. /\ IsFiniteSet(1 .. N) /\ Cardinality(1 .. N) = IF 1 > N THEN 0 ELSE N - 1 + 1
        /\ Cardinality(1 .. Len(q)) = IF 1 > Len(q) THEN 0 ELSE Len(q) - 1 + 1
    BY <2>1, FS_Interval
  <2>3. q \in Injection(1 .. Len(q), 1 .. N)
    BY <1>1, <2>1 DEF Injection, IsInjective
  <2>4. Cardinality(1 .. Len(q)) <= Cardinality(1 .. N)
    BY <2>2, <2>3, FS_Injection
  <2>5. Cardinality(1 .. N) = N /\ Cardinality(1 .. Len(q)) = Len(q)
    BY <2>1, <2>2
  <2>6. QED
    BY <2>4, <2>5
<1>2. QED
  BY <1>1 DEF Walk

\* After the last caw the thread is complete.
LEMMA WalkEnd ==
  ASSUME NEW N \in Nat, NEW K, NEW f, SeqValued(f, 1 .. N, 1 .. N), NEW r, NEW o,
         Walk(K, f, N, r, o, <<>>)
  PROVE  o = f[r]
<1>1. Visits(f, <<>>) = <<>>
  BY VisitsShort
<1>2. o \in Seq(1 .. N) /\ o \o Visits(f, <<>>) = f[r]
  BY DEF Walk
<1>3. QED
  BY <1>1, <1>2, ConcatEmptySeq

\* The first caw is visited and its children take its place.
LEMMA WalkStep ==
  ASSUME NEW N \in Nat, NEW K, Forest(K, N), NEW f, Visiting(K, f, N),
         NEW r \in 1 .. N, NEW o, NEW t, t # <<>>, Walk(K, f, N, r, o, t)
  PROVE  Walk(K, f, N, r, Append(o, Head(t)), K[Head(t)] \o Tail(t))
<1> DEFINE h == Head(t)
           l == Tail(t)
           q == K[h]
           I == 1 .. N
<1>1. /\ o \in Seq(I) /\ t \in Seq(I) /\ IsInjective(o) /\ IsInjective(t)
      /\ ToSet(o) \cap ToSet(t) = {} /\ o \o Visits(f, t) = f[r]
      /\ \A x \in ToSet(o) \cup ToSet(t) :
           x = r \/ (x > r /\ \E p \in ToSet(o) : x \in ToSet(K[p]))
  BY DEF Walk
<1>2. /\ h \in I /\ l \in Seq(I) /\ t = <<h>> \o l
      /\ ToSet(t) = {h} \cup ToSet(l) /\ h \in ToSet(t)
      /\ IsInjective(l) /\ h \notin ToSet(l)
  <2> HIDE DEF I
  <2>1. h \in I /\ l \in Seq(I) /\ <<h>> \o l = t
    BY <1>1, Shift
  <2>2. QED
    BY <1>1, <2>1, InjectiveTail
<1>3. q \in Seq(I) /\ IsInjective(q) /\ \A x \in ToSet(q) : x > h
  BY <1>2 DEF Forest
<1>4. SeqValued(f, I, I) /\ f[h] = <<h>> \o Visits(f, q)
  <2>1. f = [c \in 1 .. N |-> <<c>> \o Visits(f, K[c])]
    BY DEF Visiting
  <2>2. f[h] = [c \in 1 .. N |-> <<c>> \o Visits(f, K[c])][h]
    BY <2>1
  <2>3. QED
    BY <1>2, <2>2, VisitTyped
<1>5. \A p \in ToSet(o) : p \in I
  BY <1>1 DEF ToSet
<1>6. \A x \in ToSet(q) : x \notin ToSet(o) \cup ToSet(t)
  <2> SUFFICES ASSUME NEW x \in ToSet(q), x \in ToSet(o) \cup ToSet(t) PROVE FALSE
    OBVIOUS
  <2>1. x \in I /\ x > h
    BY <1>3 DEF ToSet
  <2>2. h \in Int /\ r \in Int /\ x \in Int /\ (h = r \/ h > r)
    BY <1>1, <1>2, <2>1
  <2>3. x # r
    BY <2>1, <2>2
  <2>4. PICK p \in ToSet(o) : x \in ToSet(K[p])
    BY <1>1, <2>3
  <2>5. p # h
    BY <1>1, <1>2
  <2>6. ToSet(K[p]) \cap ToSet(K[h]) = {}
    BY <1>2, <1>5, <2>5 DEF Forest
  <2>7. QED
    BY <2>4, <2>6
<1> HIDE DEF h, l, q, I
<1> DEFINE s == <<h>>
           no == o \o s
           nt == q \o l
<1>7. s \in Seq(I) /\ IsInjective(s) /\ ToSet(s) = {h}
  BY <1>2, InjectiveShort
<1>8. no \in Seq(I) /\ ToSet(no) = ToSet(o) \cup {h} /\ IsInjective(no)
  <2> HIDE DEF s
  <2>1. ToSet(o) \cap ToSet(s) = {}
    BY <1>1, <1>2, <1>7
  <2>2. QED
    BY <1>1, <1>7, <2>1, InjectiveConcat
<1>9. nt \in Seq(I) /\ ToSet(nt) = ToSet(q) \cup ToSet(l) /\ IsInjective(nt)
  <2>1. ToSet(q) \cap ToSet(l) = {}
    BY <1>2, <1>6
  <2>2. QED
    BY <1>2, <1>3, <2>1, InjectiveConcat
<1>10. ToSet(no) \cap ToSet(nt) = {}
  BY <1>1, <1>2, <1>6, <1>8, <1>9
<1>11. \A x \in ToSet(no) \cup ToSet(nt) :
         x = r \/ (x > r /\ \E p \in ToSet(no) : x \in ToSet(K[p]))
  <2> HIDE DEF no, nt
  <2> TAKE x \in ToSet(no) \cup ToSet(nt)
  <2>1. CASE x \in ToSet(o) \cup ToSet(t)
    BY <1>1, <1>8, <2>1
  <2>2. CASE x \notin ToSet(o) \cup ToSet(t)
    <3>1. x \in ToSet(q)
      BY <1>2, <1>8, <1>9, <2>2
    <3>2. x > h /\ x \in I
      BY <1>3, <3>1 DEF ToSet
    <3>3. h = r \/ h > r
      BY <1>1, <1>2
    <3>4. x > r
      BY <1>2, <3>2, <3>3 DEF I
    <3>5. h \in ToSet(no) /\ x \in ToSet(K[h])
      BY <1>8, <3>1 DEF q
    <3>6. QED
      BY <3>4, <3>5
  <2>3. QED
    BY <2>1, <2>2
<1>12. no \o Visits(f, nt) = f[r]
  <2> DEFINE vq == Visits(f, q)
             vl == Visits(f, l)
  <2>1. vq \in Seq(I) /\ vl \in Seq(I) /\ Visits(f, nt) = vq \o vl
    <3>1. q \in Seq(I) /\ l \in Seq(I) /\ SeqValued(f, I, I)
      BY <1>2, <1>3, <1>4
    <3>2. Visits(f, q) \in Seq(I) /\ Visits(f, l) \in Seq(I)
      BY <3>1, VisitsTyped
    <3>3. Visits(f, q \o l) = Visits(f, q) \o Visits(f, l)
      BY <3>1, VisitsConcat
    <3>4. QED
      BY <3>2, <3>3
  <2>2. Visits(f, t) = f[h] \o vl
    <3>1. Visits(f, s) = f[h]
      BY <1>2, <1>4, VisitsShort
    <3>2. Visits(f, s \o l) = Visits(f, s) \o vl
      <4> HIDE DEF s
      <4>1. QED
        BY <1>2, <1>4, <1>7, VisitsConcat
    <3>3. QED
      BY <1>2, <3>1, <3>2
  <2>3. f[h] = s \o vq
    BY <1>4
  <2> HIDE DEF s, vq, vl, no, nt
  <2>4. Associative(s, vq, vl) /\ Associative(o, s, vq \o vl)
    <3>1. vq \o vl \in Seq(I)
      BY <2>1, ConcatProperties
    <3>2. QED
      BY <1>1, <1>7, <2>1, <3>1, ConcatIsAssociative
  <2>5. o \o (s \o (vq \o vl)) = f[r]
    BY <1>1, <2>2, <2>3, <2>4 DEF Associative
  <2>6. no = o \o s
    BY DEF no
  <2>7. QED
    BY <2>1, <2>4, <2>5, <2>6 DEF Associative
<1>13. Walk(K, f, N, r, no, nt)
  BY <1>8, <1>9, <1>10, <1>11, <1>12 DEF Walk, I
<1>14. Append(o, h) = no
  BY <1>1, <1>2, AppendIsConcat
<1>15. QED
  BY <1>13, <1>14 DEF h, l, q

-----------------------------------------------------------------------------
\* ReadCaw walks the thread.

Threads == [c \in CawIds |-> Children(c)]

\* The recursive function of Preorder.
VisitOf ==
  CHOOSE visit : visit = [c \in CawIds |->
    <<c>> \o FlattenSeq([j \in DOMAIN Children(c) |-> visit[Children(c)[j]]])]

Ids(q) == [j \in DOMAIN q |-> q[j].id]

\* The ids ReadCaw has still to visit: those on its stack, and where the caw on
\* top has been added to the reply its children in its place.
Todo(w) == IF pc[w] = "read_children" THEN Children(Head(stack[w])) \o Tail(stack[w])
           ELSE stack[w]

Reads(w) ==
  /\ pc[w] # "idle" => (req[w].op = "read" <=> pc[w] \in ReadSteps)
  /\ pc[w] = "read" => out[w] = <<>>
  /\ pc[w] \in {"read_caw", "read_children"} =>
       /\ IsList(out[w])
       /\ Walk(Threads, VisitOf, MaxRequests, req[w].caw_id, Ids(out[w]), Todo(w))
  /\ ReadDone(w) => Ids(out[w]) = VisitOf[req[w].caw_id]

ReadInv ==
  /\ PostedInv
  /\ AnswerInv
  /\ Maps
  /\ \A w \in Workers : Reads(w)

\* The lists of children form a forest.
LEMMA ThreadsForest == PostedInv => Forest(Threads, MaxRequests)
<1> SUFFICES ASSUME PostedInv PROVE Forest(Threads, MaxRequests)
  OBVIOUS
<1>1. PICK n \in Nat : Dense(n) /\ Trees(n)
  BY DEF PostedInv
<1>2. CawIds = 1 .. MaxRequests /\ 1 .. n \subseteq CawIds
  BY <1>1 DEF Dense, PostedIds, CawIds
<1>3. ASSUME NEW c \in CawIds
      PROVE  /\ Threads[c] \in Seq(CawIds) /\ IsInjective(Threads[c])
             /\ \A x \in ToSet(Threads[c]) : x > c
  <2> DEFINE q == Kids(kvstore, c)
  <2>1. Threads[c] = q
    BY DEF Threads, Children, Stored, Kids
  <2>2. q \in Seq(1 .. n) /\ Ascending(q, c)
    BY <1>1 DEF Trees
  <2> HIDE DEF q
  <2>3. q \in Seq(CawIds)
    BY <1>2, <2>2, SeqMonotonic
  <2>4. \A j \in DOMAIN q : j \in Int /\ q[j] \in Int /\ q[j] > c
    BY <2>2 DEF Ascending
  <2>5. ASSUME NEW i \in DOMAIN q, NEW j \in DOMAIN q, q[i] = q[j] PROVE i = j
    <3>1. ~(i < j) /\ ~(j < i)
      BY <2>2, <2>4, <2>5 DEF Ascending
    <3>2. QED
      BY <2>4, <3>1
  <2>6. QED
    BY <2>1, <2>3, <2>4, <2>5 DEF IsInjective, ToSet
<1>4. \A c, d \in CawIds : c # d => ToSet(Threads[c]) \cap ToSet(Threads[d]) = {}
  BY <1>1 DEF Trees, Threads, Children, Stored, Kids
<1>5. QED
  BY <1>2, <1>3, <1>4 DEF Forest

\* In a forest Preorder is what its recursive definition says.
LEMMA PreorderVisits ==
  ASSUME Forest(Threads, MaxRequests)
  PROVE  /\ Visiting(Threads, VisitOf, MaxRequests)
         /\ SeqValued(VisitOf, CawIds, CawIds)
         /\ \A i : Preorder(i) = VisitOf[i]
<1>1. MaxRequests \in Nat /\ CawIds = 1 .. MaxRequests
  BY BoundsAssumption DEF CawIds
<1>2. \A f : [c \in CawIds |->
               <<c>> \o FlattenSeq([j \in DOMAIN Children(c) |-> f[Children(c)[j]]])] =
             [c \in CawIds |-> <<c>> \o Visits(f, Threads[c])]
  BY DEF Visits, Threads
<1>3. PICK g : g = [c \in CawIds |-> <<c>> \o Visits(g, Threads[c])]
  BY <1>1, VisitExists DEF Visiting
<1>4. \E visit : visit = [c \in CawIds |->
        <<c>> \o FlattenSeq([j \in DOMAIN Children(c) |-> visit[Children(c)[j]]])]
  <2>1. g = [c \in CawIds |->
          <<c>> \o FlattenSeq([j \in DOMAIN Children(c) |-> g[Children(c)[j]]])]
    BY <1>2, <1>3, Zenon
  <2>2. QED
    BY <2>1
<1>5. VisitOf = [c \in CawIds |->
        <<c>> \o FlattenSeq([j \in DOMAIN Children(c) |-> VisitOf[Children(c)[j]]])]
  BY <1>4 DEF VisitOf
<1>6. Visiting(Threads, VisitOf, MaxRequests)
  BY <1>1, <1>2, <1>5 DEF Visiting
<1>7. \A i : Preorder(i) = VisitOf[i]
  BY DEF Preorder, VisitOf
<1>8. QED
  BY <1>1, <1>6, <1>7, VisitTyped

\* What fits is kept whole.
LEMMA BoundedWhole ==
  ASSUME NEW S, NEW q \in Seq(S), Len(q) <= MaxThread
  PROVE  Bounded(q) = q
<1>1. Len(q) \in Nat /\ MaxThread \in Nat
  BY BoundsAssumption
<1>2. (IF Len(q) < MaxThread THEN Len(q) ELSE MaxThread) = Len(q)
  BY <1>1
<1>3. QED
  BY <1>2, SubSeqFull DEF Bounded

\* The ids of a reply with one more caw.
LEMMA IdsOfAppend ==
  ASSUME NEW q, IsList(q), NEW c
  PROVE  /\ IsList(Append(q, c))
         /\ Ids(Append(q, c)) = Append(Ids(q), c.id)
         /\ Len(Append(q, c)) = Len(Append(Ids(q), c.id))
<1> DEFINE r == Append(q, c)
           s == Append(Ids(q), c.id)
<1>1. IsList(r)
  BY ListAppend
<1>2. Len(q) \in Nat /\ DOMAIN q = 1 .. Len(q)
  BY DEF IsList
<1>3. /\ Len(r) = Len(q) + 1 /\ DOMAIN r = 1 .. Len(q) + 1 /\ r[Len(q) + 1] = c
      /\ \A j \in 1 .. Len(q) : r[j] = q[j]
  <2>1. q \in Seq(ToSet(q) \cup {c})
    <3>1. q \in Seq(ToSet(q)) /\ ToSet(q) \subseteq ToSet(q) \cup {c}
      BY DEF IsList
    <3>2. QED
      BY <3>1, SeqMonotonic
  <2>2. QED
    BY <1>2, <2>1, AppendProperties
<1>4. Len(Ids(q)) = Len(q) /\ \A j \in 1 .. Len(q) : Ids(q)[j] = q[j].id
  BY <1>2 DEF Ids
<1>5. s = [j \in 1 .. Len(q) + 1 |-> IF j <= Len(q) THEN Ids(q)[j] ELSE c.id]
      /\ Len(s) = Len(q) + 1
  <2>1. s = [j \in 1 .. Len(Ids(q)) + 1 |-> IF j <= Len(Ids(q)) THEN Ids(q)[j] ELSE c.id]
    BY <1>2, <1>4 DEF Append
  <2>2. QED
    BY <1>2, <1>4, <2>1
<1>6. Ids(r) = [j \in 1 .. Len(q) + 1 |-> r[j].id]
  BY <1>3 DEF Ids
<1> HIDE DEF r, s
<1>7. ASSUME NEW j \in 1 .. Len(q) + 1
      PROVE  r[j].id = IF j <= Len(q) THEN Ids(q)[j] ELSE c.id
  <2>1. CASE j \in 1 .. Len(q)
    BY <1>2, <1>3, <1>4, <2>1
  <2>2. CASE j = Len(q) + 1
    BY <1>2, <1>3, <2>2
  <2>3. QED
    BY <1>2, <2>1, <2>2
<1>8. QED
  BY <1>1, <1>3, <1>5, <1>6, <1>7 DEF r, s

\* Steps of the other functions.
LEMMA ReadsElsewhere ==
  ASSUME ReadInv, NEW w \in Workers, Step(w),
         ~ReadCaw_Start(w), ~ReadCaw_Caw(w), ~ReadCaw_Children(w), ~ReadCaw_End(w)
  PROVE  Reads(w)'
<1> DEFINE moved ==
      /\ UNCHANGED req
      /\ pc[w] \notin ReadSteps \cup {"idle"}
      /\ \/ \E label : Goto(w, label) /\ label \notin ReadSteps
         \/ \E s : Finish(w, s)
         \/ Undefined
<1>1. moved
  <2>1. CASE RegisterUser_Users(w) \/ PostCaw_Users(w) \/ PostCaw_Parent(w)
    BY <2>1 DEF RegisterUser_Users, PostCaw_Users, PostCaw_Parent, Get, ReadSteps
  <2>2. CASE PostCaw_Latest(w) \/ PostCaw_Increment(w) \/ PostCaw_RemoveLatest(w)
    BY <2>2 DEF PostCaw_Latest, PostCaw_Increment, PostCaw_RemoveLatest, Get, Write, ReadSteps
  <2>3. CASE RegisterUser_Put(w) \/ PostCaw_PutLatest(w)
    BY <2>3 DEF RegisterUser_Put, PostCaw_PutLatest, Put, Write, ReadSteps
  <2>4. CASE PostCaw_Put(w) \/ PostCaw_PutChild(w)
    BY <2>4 DEF PostCaw_Put, PostCaw_PutChild, Put, Write, ReadSteps
  <2>5. CASE FollowUser_Users(w) \/ FollowUser_Unknown(w) \/ FollowUser_Check(w)
    BY <2>5 DEF FollowUser_Users, FollowUser_Unknown, FollowUser_Check, Get, ReadSteps
  <2>6. CASE FollowUser_PutFollowing(w) \/ FollowUser_PutFollowers(w)
    BY <2>6 DEF FollowUser_PutFollowing, FollowUser_PutFollowers, Put, Write, ReadSteps
  <2>7. CASE GetProfile_Users(w) \/ GetProfile_Followers(w) \/ GetProfile_Following(w)
    BY <2>7 DEF GetProfile_Users, GetProfile_Followers, GetProfile_Following, Get, ReadSteps
  <2>8. QED
    BY <2>1, <2>2, <2>3, <2>4, <2>5, <2>6, <2>7 DEF Step
<1>2. DOMAIN pc = Workers
  BY DEF ReadInv, AnswerInv, Inv
<1>3. pc'[w] \notin ReadSteps
  <2>1. CASE \E label : Goto(w, label) /\ label \notin ReadSteps
    BY <1>2, <2>1 DEF Goto
  <2>2. CASE (\E s : Finish(w, s)) \/ Undefined
    BY <1>2, <2>2 DEF Finish, Undefined, Die, ReadSteps
  <2>3. QED
    BY <1>1, <2>1, <2>2
<1>4. req'[w] = req[w] /\ req[w].op # "read"
  BY <1>1 DEF ReadInv, Reads
<1>5. QED
  BY <1>3, <1>4 DEF Reads, ReadSteps, ReadDone

\* What the steps of ReadCaw find.
LEMMA ReadBegins ==
  ASSUME ReadInv, NEW w \in Workers, pc[w] \in ReadSteps
  PROVE  /\ req[w].op = "read" /\ req[w].caw_id \in CawIds
         /\ DOMAIN pc = Workers /\ DOMAIN stack = Workers
         /\ DOMAIN out = Workers /\ DOMAIN status = Workers
         /\ Forest(Threads, MaxRequests)
         /\ Visiting(Threads, VisitOf, MaxRequests)
         /\ SeqValued(VisitOf, CawIds, CawIds)
         /\ MaxRequests \in Nat /\ CawIds = 1 .. MaxRequests
<1>1. pc[w] # "idle"
  BY DEF ReadSteps
<1>2. req[w] \in Requests /\ req[w].op = "read"
  BY <1>1 DEF ReadInv, Reads, AnswerInv, Inv, Checked
<1>3. req[w].caw_id \in CawIds
  BY <1>2 DEF Requests
<1>4. Forest(Threads, MaxRequests)
  BY ThreadsForest DEF ReadInv
<1>5. Visiting(Threads, VisitOf, MaxRequests) /\ SeqValued(VisitOf, CawIds, CawIds)
  BY <1>4, PreorderVisits
<1>6. MaxRequests \in Nat /\ CawIds = 1 .. MaxRequests
  BY BoundsAssumption DEF CawIds
<1>7. QED
  BY <1>2, <1>3, <1>4, <1>5, <1>6 DEF ReadInv, AnswerInv, Inv, Maps

\* A read that ends without OK.
LEMMA ReadsFail ==
  ASSUME ReadInv, NEW w \in Workers, pc[w] \in ReadSteps,
         Finish(w, "NOT_FOUND") \/ Undefined
  PROVE  Reads(w)'
<1>1. DOMAIN pc = Workers /\ DOMAIN status = Workers /\ pc[w] # "idle"
  BY ReadBegins DEF ReadSteps
<1>2. pc'[w] = "idle" /\ status'[w] # "OK"
  BY <1>1 DEF Finish, Undefined, Die
<1>3. QED
  BY <1>2 DEF Reads, ReadDone

\* The thread and its visit do not change while it is read.
LEMMA VisitStays == UNCHANGED kvstore => UNCHANGED <<Threads, VisitOf>>
BY DEF Threads, VisitOf, Children, Stored

\* The caw asked for is put on the stack.
LEMMA ReadsStart ==
  ASSUME ReadInv, NEW w \in Workers, ReadCaw_Start(w)
  PROVE  Reads(w)'
<1>1. pc[w] = "read" /\ UNCHANGED <<kvstore, req, out>>
  BY DEF ReadCaw_Start, Get
<1>2. pc[w] \in ReadSteps
  BY <1>1 DEF ReadSteps
<1>3. \/ Finish(w, "NOT_FOUND")
      \/ /\ stack' = [stack EXCEPT ![w] = <<req[w].caw_id>>]
         /\ Goto(w, "read_caw")
  BY DEF ReadCaw_Start
<1>4. CASE Finish(w, "NOT_FOUND")
  BY <1>2, <1>4, ReadsFail
<1>5. CASE /\ stack' = [stack EXCEPT ![w] = <<req[w].caw_id>>]
           /\ Goto(w, "read_caw")
  <2> DEFINE r == req[w].caw_id
  <2>1. pc'[w] = "read_caw" /\ stack'[w] = <<r>> /\ req'[w] = req[w] /\ out'[w] = <<>>
    BY <1>1, <1>2, <1>5, ReadBegins DEF Goto, ReadInv, Reads
  <2>2. Todo(w)' = <<r>>
    BY <2>1 DEF Todo
  <2>3. Ids(out'[w]) = <<>> /\ IsList(out'[w])
    BY <2>1 DEF Ids, IsList
  <2>4. req[w].op = "read" /\ r \in 1 .. MaxRequests /\ MaxRequests \in Nat
        /\ SeqValued(VisitOf, 1 .. MaxRequests, 1 .. MaxRequests)
    BY <1>2, ReadBegins
  <2> HIDE DEF r
  <2>5. Walk(Threads, VisitOf, MaxRequests, r, <<>>, <<r>>)
    BY <2>4, WalkStart
  <2>6. Threads' = Threads /\ VisitOf' = VisitOf
    BY <1>1, VisitStays
  <2>7. Walk(Threads', VisitOf', MaxRequests, req'[w].caw_id, Ids(out'[w]), Todo(w)')
    BY <2>1, <2>2, <2>3, <2>5, <2>6 DEF r
  <2>8. QED
    BY <2>1, <2>3, <2>4, <2>7 DEF Reads, ReadSteps, ReadDone
<1>6. QED
  BY <1>3, <1>4, <1>5

\* The caw on top of the stack is added to the reply.
LEMMA ReadsCaw ==
  ASSUME ReadInv, Sequential, MaxRequests <= MaxThread, NEW w \in Workers, ReadCaw_Caw(w)
  PROVE  Reads(w)'
<1> DEFINE h == Head(stack[w])
           q == Stored(CawKey(h))
           r == req[w].caw_id
<1>1. pc[w] = "read_caw" /\ stack[w] # <<>> /\ UNCHANGED <<kvstore, req, stack>>
  BY DEF ReadCaw_Caw, Get
<1>2. pc[w] \in ReadSteps
  BY <1>1 DEF ReadSteps
<1>3. \/ Undefined
      \/ /\ q # <<>>
         /\ out' = [out EXCEPT ![w] = Bounded(Append(@, q[1]))]
         /\ Goto(w, "read_children")
  BY CallsAreReliable DEF ReadCaw_Caw, ReadInv, PostedInv
<1>4. CASE Undefined
  BY <1>2, <1>4, ReadsFail
<1>5. CASE /\ q # <<>>
           /\ out' = [out EXCEPT ![w] = Bounded(Append(@, q[1]))]
           /\ Goto(w, "read_children")
  <2> DEFINE c == q[1]
             o == out[w]
             t == stack[w]
             N == MaxRequests
  <2>1. /\ req[w].op = "read" /\ r \in 1 .. N /\ N \in Nat
        /\ Forest(Threads, N) /\ Visiting(Threads, VisitOf, N) /\ CawIds = 1 .. N
        /\ pc'[w] = "read_children" /\ out'[w] = Bounded(Append(o, c))
    BY <1>2, <1>5, ReadBegins DEF Goto
  <2>2. c.id = h
    <3>1. q \in Seq(CawsAt(h))
      BY DEF ReadInv, AnswerInv, Inv, Sound, Stored
    <3>2. q[1] \in CawsAt(h)
      <4> HIDE DEF q, h
      <4>1. QED
        BY <1>5, <3>1
    <3>3. QED
      BY <3>2 DEF CawsAt
  <2>3. IsList(o) /\ Walk(Threads, VisitOf, N, r, Ids(o), t)
    BY <1>1 DEF ReadInv, Reads, Todo
  <2>4. h \in CawIds
    <3>1. t \in Seq(1 .. N) /\ t # <<>>
      BY <1>1, <2>3 DEF Walk
    <3> HIDE DEF t, N
    <3>2. Head(t) \in 1 .. N
      BY <3>1, HeadTailProperties
    <3>3. QED
      BY <2>1, <3>2 DEF t
  <2> HIDE DEF c, o, r, q, N
  <2>5. Walk(Threads, VisitOf, N, r, Append(Ids(o), h), Threads[h] \o Tail(t))
    BY <1>1, <2>1, <2>3, WalkStep
  <2>6. /\ IsList(Append(o, c)) /\ Ids(Append(o, c)) = Append(Ids(o), h)
        /\ Len(Append(o, c)) = Len(Append(Ids(o), h))
    BY <2>2, <2>3, IdsOfAppend
  <2>7. Len(Append(Ids(o), h)) <= N
    BY <2>1, <2>5, WalkBound
  <2>8. out'[w] = Append(o, c)
    <3> DEFINE p == Append(o, c)
    <3>1. p \in Seq(ToSet(p)) /\ Len(p) <= MaxThread
      <4>1. Len(p) \in Nat /\ MaxThread \in Nat
        BY <2>6, BoundsAssumption DEF IsList
      <4>2. QED
        BY <2>1, <2>6, <2>7, <4>1 DEF IsList, N
    <3> HIDE DEF p
    <3>2. Bounded(p) = p
      BY <3>1, BoundedWhole
    <3>3. QED
      BY <2>1, <3>2 DEF p
  <2>9. Todo(w)' = Threads[h] \o Tail(t)
    <3>1. stack'[w] = stack[w] /\ Children(h)' = Children(h) /\ Threads[h] = Children(h)
      BY <1>1, <2>4 DEF Children, Stored, Threads
    <3>2. QED
      BY <1>1, <2>1, <3>1 DEF Todo
  <2>10. Threads' = Threads /\ VisitOf' = VisitOf /\ req'[w] = req[w]
    BY <1>1, VisitStays
  <2>11. Walk(Threads', VisitOf', N, req'[w].caw_id, Ids(out'[w]), Todo(w)')
    BY <2>5, <2>6, <2>8, <2>9, <2>10 DEF r
  <2>12. QED
    BY <2>1, <2>6, <2>8, <2>10, <2>11 DEF Reads, ReadSteps, ReadDone, N
<1>6. QED
  BY <1>3, <1>4, <1>5

\* Its children take its place on the stack.
LEMMA ReadsChildren ==
  ASSUME ReadInv, Sequential, MaxRequests <= MaxThread, NEW w \in Workers, ReadCaw_Children(w)
  PROVE  Reads(w)'
<1> DEFINE s == Children(Head(stack[w])) \o Tail(stack[w])
           r == req[w].caw_id
           N == MaxRequests
<1>1. /\ pc[w] = "read_children" /\ UNCHANGED <<kvstore, req, out>>
      /\ stack' = [stack EXCEPT ![w] = Bounded(s)]
      /\ Goto(w, "read_caw")
  BY CallsAreReliable DEF ReadCaw_Children, Get, Children, ReadInv, PostedInv
<1>2. pc[w] \in ReadSteps
  BY <1>1 DEF ReadSteps
<1>3. /\ req[w].op = "read" /\ pc'[w] = "read_caw" /\ stack'[w] = Bounded(s)
      /\ out'[w] = out[w] /\ req'[w] = req[w] /\ N \in Nat
  BY <1>1, <1>2, ReadBegins DEF Goto
<1>4. IsList(out[w]) /\ Walk(Threads, VisitOf, N, r, Ids(out[w]), s)
  BY <1>1 DEF ReadInv, Reads, Todo
<1> HIDE DEF s, N
<1>5. s \in Seq(1 .. N) /\ Len(s) <= N
  <2>1. s \in Seq(1 .. N)
    BY <1>4 DEF Walk
  <2>2. Len(s) <= N
    BY <1>3, <1>4, WalkBound
  <2>3. QED
    BY <2>1, <2>2
<1>6. Bounded(s) = s
  <2>1. Len(s) \in Nat /\ MaxThread \in Nat
    BY <1>5, BoundsAssumption
  <2>2. Len(s) <= MaxThread
    BY <1>3, <1>5, <2>1 DEF N
  <2>3. QED
    BY <1>5, <2>2, BoundedWhole
<1>7. Todo(w)' = s
  BY <1>3, <1>6 DEF Todo
<1>8. Threads' = Threads /\ VisitOf' = VisitOf
  BY <1>1, VisitStays
<1>9. Walk(Threads', VisitOf', N, req'[w].caw_id, Ids(out'[w]), Todo(w)')
  BY <1>3, <1>4, <1>7, <1>8
<1>10. QED
  BY <1>3, <1>4, <1>9 DEF Reads, ReadSteps, ReadDone, N

\* The stack is empty.
LEMMA ReadsEnd ==
  ASSUME ReadInv, NEW w \in Workers, ReadCaw_End(w)
  PROVE  Reads(w)'
<1> DEFINE r == req[w].caw_id
           N == MaxRequests
<1>1. /\ pc[w] = "read_caw" /\ stack[w] = <<>> /\ Finish(w, "OK")
      /\ UNCHANGED <<kvstore, req, out>>
  BY DEF ReadCaw_End, locals
<1>2. pc[w] \in ReadSteps
  BY <1>1 DEF ReadSteps
<1>3. /\ pc'[w] = "idle" /\ N \in Nat /\ SeqValued(VisitOf, 1 .. N, 1 .. N)
  BY <1>1, <1>2, ReadBegins DEF Finish
<1>4. Walk(Threads, VisitOf, N, r, Ids(out[w]), <<>>)
  BY <1>1 DEF ReadInv, Reads, Todo
<1> HIDE DEF N
<1>5. Ids(out[w]) = VisitOf[r]
  BY <1>3, <1>4, WalkEnd
<1>6. VisitOf' = VisitOf
  BY <1>1, VisitStays
<1>7. QED
  BY <1>1, <1>3, <1>5, <1>6 DEF Reads, ReadDone

\* Every step keeps the invariant of the reads.
LEMMA ReadNext ==
  ASSUME Undisturbed, MaxRequests <= MaxThread, ReadInv, [Next]_vars
  PROVE  ReadInv'
<1>1. PostedInv' /\ AnswerInv'
  BY PostedNext, AnswerNext DEF ReadInv
<1> DEFINE kept == Maps' /\ \A w \in Workers : Reads(w)'
<1>2. ASSUME UNCHANGED vars PROVE kept
  <2>1. Maps'
    BY <1>2 DEF vars, Maps, ReadInv
  <2>2. Threads' = Threads /\ VisitOf' = VisitOf
    BY <1>2, VisitStays DEF vars
  <2>3. \A w \in Workers : Reads(w)'
    BY <1>2, <2>2 DEF vars, ReadInv, Reads, Todo, Children, Stored, ReadDone
  <2>4. QED
    BY <2>1, <2>3
<1>3. ~Crash
  BY DEF Crash, ReadInv, PostedInv, Counted, Undisturbed
<1>4. ASSUME NEW w \in Workers, NEW r \in Requests, Begin(w, r) PROVE kept
  <2>1. /\ pc'[w] = r.op /\ req'[w] = r /\ out'[w] = <<>> /\ status'[w] = "none"
        /\ \A u \in Workers : u = w
    BY <1>4 DEF Begin, ReadInv, AnswerInv, Inv, Undisturbed, Sequential, OneAtATime
  <2>2. r.op \in {"registeruser", "profile", "caw", "read", "follow"}
    BY DEF Requests
  <2>3. Reads(w)'
    BY <2>1, <2>2 DEF Reads, ReadSteps, ReadDone
  <2>4. Maps'
    BY <1>4 DEF Begin, Maps, ReadInv
  <2>5. QED
    BY <2>1, <2>3, <2>4
<1>5. ASSUME NEW w \in Workers, Step(w) PROVE kept
  <2>1. Maps' /\ \A u \in Workers : u = w
    BY <1>5, StacksStay DEF ReadInv, Undisturbed, Sequential, OneAtATime
  <2>2. Reads(w)'
    BY <1>5, ReadsElsewhere, ReadsStart, ReadsCaw, ReadsChildren, ReadsEnd DEF Undisturbed
  <2>3. QED
    BY <2>1, <2>2
<1>6. kept
  BY <1>2, <1>3, <1>4, <1>5 DEF Next
<1>7. QED
  BY <1>1, <1>6 DEF ReadInv

\* At first nothing is read.
LEMMA ReadInit == OneAtATime /\ Init => ReadInv
<1> SUFFICES ASSUME OneAtATime, Init PROVE ReadInv
  OBVIOUS
<1>1. PostedInv /\ AnswerInv
  BY PostedInit, AnswerInit
<1>2. Maps /\ \A w \in Workers : Reads(w)
  BY DEF Init, Maps, Reads, ReadDone
<1>3. QED
  BY <1>1, <1>2 DEF ReadInv

\* Under the same conditions ReadCaw answers with the whole thread of a caw, in
\* the order the comment at caw_functions.cpp:128-131 asks for.  The bound on
\* the stack and on the reply is not reached if it is at least the number of
\* requests.
THEOREM ThreadsReadInOrder ==
  ASSUME Undisturbed, MaxRequests <= MaxThread
  PROVE  Spec => []ReadIsPreorder
<1>1. ASSUME ReadInv PROVE ReadIsPreorder
  <2>1. Forest(Threads, MaxRequests)
    BY <1>1, ThreadsForest DEF ReadInv
  <2>2. \A i : Preorder(i) = VisitOf[i]
    BY <2>1, PreorderVisits
  <2>3. \A w \in Workers : ReadDone(w) => Ids(out[w]) = VisitOf[req[w].caw_id]
    BY <1>1 DEF ReadInv, Reads
  <2>4. QED
    BY <2>2, <2>3 DEF ReadIsPreorder, Ids
<1>2. ReadInv /\ [Next]_vars => ReadInv'
  BY ReadNext
<1>3. Init => ReadInv
  BY ReadInit DEF Undisturbed, Sequential
<1>4. QED
  BY <1>1, <1>2, <1>3, PTL DEF Spec
=============================================================================
