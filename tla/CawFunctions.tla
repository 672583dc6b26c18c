---------------------------- MODULE CawFunctions ----------------------------
(***************************************************************************)
(* src/caw/functions/caw_functions.cpp as Faz runs it: every request has a *)
(* server thread of its own, and every kvstore.Get / Put / Remove is a     *)
(* remote call to the key-value store, atomic there (KeyValueStore.tla)    *)
(* but interleaved with the calls of the other threads.                    *)
(*                                                                         *)
(* One action per remote call, together with the code up to the next one.  *)
(* A remote call can fail: KeyValueStoreClient::Get then returns the       *)
(* values that arrived before the failure, and the functions ignore the    *)
(* result of Put and Remove.                                               *)
(***************************************************************************)
EXTENDS StoreOps, FiniteSets, SequencesExt

CONSTANTS
  Workers,       \* Faz server threads
  Users,
  Hooked,        \* the functions hooked into Faz
  NoParent,      \* the empty parent_id
  MaxRequests,   \* bound: requests started in a behaviour
  MaxFailures,   \* bound: remote calls to the store that fail
  MaxCrashes,    \* bound: crashes of the Faz process from outside
  MaxThread      \* bound: caws kept of a thread being read (see Bounded)

ASSUME BoundsAssumption ==
  /\ {MaxRequests, MaxFailures, MaxCrashes, MaxThread} \subseteq Nat
  /\ NoParent \notin Nat

VARIABLES
  kvstore,     \* the store, as the functions see it
  pc, req,     \* each worker: where it is, and the request it serves or served
  id,          \* PostCaw: currentCawId
  stack,       \* ReadCaw: dfsStack, top first
  out,         \* the reply built so far
  status,      \* the status returned for req
  undefined,   \* history: element 0 of an empty vector was read
  requests, failures, crashes

locals == <<id, stack, out>>
vars == <<kvstore, pc, req, id, stack, out, status, undefined, requests,
          failures, crashes>>

\* The keys of the store.  As strings the families do not overlap: caw ids are
\* decimal numbers, and user names stand between a fixed prefix and suffix.
UsersKey == <<"caw_users">>
LatestKey == <<"latestCawId">>
CawKey(i) == <<"caw", i>>
ChildrenKey(i) == <<"children", i>>
FollowingKey(u) == <<"following", u>>
FollowersKey(u) == <<"followers", u>>

Stored(k) == Lookup(kvstore, k)

CawIds == 1 .. MaxRequests
Requests ==
  [op : {"registeruser", "profile"}, username : Users]
    \cup [op : {"caw"}, username : Users, parent_id : CawIds \cup {NoParent}]
    \cup [op : {"read"}, caw_id : CawIds]
    \cup [op : {"follow"}, username : Users, to_follow : Users]

Init ==
  /\ kvstore = EmptyStore
  /\ pc = [w \in Workers |-> "idle"]
  /\ req = [w \in Workers |-> [op |-> "none"]]
  /\ id = [w \in Workers |-> 0]
  /\ stack = [w \in Workers |-> <<>>]
  /\ out = [w \in Workers |-> <<>>]
  /\ status = [w \in Workers |-> "none"]
  /\ undefined = FALSE
  /\ requests = 0 /\ failures = 0 /\ crashes = 0

-----------------------------------------------------------------------------
\* Remote calls.  What a Get may return, and whether a Put or Remove is lost.
Got(k) == IF failures < MaxFailures THEN Prefixes(Stored(k)) ELSE {Stored(k)}
Lost == IF failures < MaxFailures THEN BOOLEAN ELSE {FALSE}

Goto(w, label) == /\ pc' = [pc EXCEPT ![w] = label]
                  /\ UNCHANGED <<status, undefined>>
Finish(w, s) == /\ pc' = [pc EXCEPT ![w] = "idle"]
                /\ status' = [status EXCEPT ![w] = s]
                /\ UNCHANGED undefined

\* The Faz process dies; the requests it was serving are not answered.
Die == /\ pc' = [w \in Workers |-> "idle"]
       /\ status' = [w \in Workers |-> IF pc[w] = "idle" THEN status[w] ELSE "UNAVAILABLE"]

\* Reading [0] of the empty vector a Get returned: a null dereference.
Undefined == Die /\ undefined' = TRUE

\* w gets seen as the values of key k.
Get(k, seen) ==
  /\ failures' = IF seen = Stored(k) THEN failures ELSE failures + 1
  /\ UNCHANGED <<kvstore, req, requests, crashes>>

\* w, at label, writes: next is the store if the call is not lost.
Write(w, label, lost, next) ==
  /\ pc[w] = label
  /\ kvstore' = IF lost THEN kvstore ELSE next
  /\ failures' = IF lost THEN failures + 1 ELSE failures
  /\ UNCHANGED <<req, locals, requests, crashes>>

Put(w, label, k, v) ==
  \E lost \in Lost : Write(w, label, lost, PutInto(kvstore, k, v))

-----------------------------------------------------------------------------
Begin(w, r) ==
  /\ pc[w] = "idle"
  /\ requests < MaxRequests
  /\ r.op \in Hooked
  /\ requests' = requests + 1
  /\ req' = [req EXCEPT ![w] = r]
  /\ pc' = [pc EXCEPT ![w] = r.op]
  /\ status' = [status EXCEPT ![w] = "none"]
  /\ id' = [id EXCEPT ![w] = 0]
  /\ stack' = [stack EXCEPT ![w] = <<>>]
  /\ out' = [out EXCEPT ![w] = <<>>]
  /\ UNCHANGED <<kvstore, undefined, failures, crashes>>

\* Mutant of RegisterUser: the check for an existing name is missing.
RegisterUser_Users_Unchecked(w) ==
  /\ pc[w] = "registeruser"
  /\ \E seen \in Got(UsersKey) :
       /\ Get(UsersKey, seen)
       /\ Goto(w, "register_put")
       /\ UNCHANGED locals

\* RegisterUser
RegisterUser_Users(w) ==
  /\ pc[w] = "registeruser"
  /\ \E seen \in Got(UsersKey) :
       /\ Get(UsersKey, seen)
       /\ IF req[w].username \in ToSet(seen)
            THEN Finish(w, "ALREADY_EXISTS") ELSE Goto(w, "register_put")
       /\ UNCHANGED locals

RegisterUser_Put(w) ==
  /\ Put(w, "register_put", UsersKey, req[w].username)
  /\ Finish(w, "OK")

\* PostCaw
PostCaw_Users(w) ==
  /\ pc[w] = "caw"
  /\ \E seen \in Got(UsersKey) :
       /\ Get(UsersKey, seen)
       /\ IF req[w].username \notin ToSet(seen)
            THEN Finish(w, "NOT_FOUND")
            ELSE Goto(w, IF req[w].parent_id = NoParent THEN "caw_latest" ELSE "caw_parent")
       /\ UNCHANGED locals

\* Mutant: a reply to a caw that does not exist is accepted.
PostCaw_Parent_Unchecked(w) ==
  LET k == CawKey(req[w].parent_id)
  IN /\ pc[w] = "caw_parent"
     /\ \E seen \in Got(k) :
          /\ Get(k, seen)
          /\ Goto(w, "caw_latest")
          /\ UNCHANGED locals

PostCaw_Parent(w) ==
  LET k == CawKey(req[w].parent_id)
  IN /\ pc[w] = "caw_parent"
     /\ \E seen \in Got(k) :
          /\ Get(k, seen)
          /\ IF seen = <<>> THEN Finish(w, "NOT_FOUND") ELSE Goto(w, "caw_latest")
          /\ UNCHANGED locals

PostCaw_Latest(w) ==
  /\ pc[w] = "caw_latest"
  /\ \E seen \in Got(LatestKey) :
       /\ Get(LatestKey, seen)
       /\ \/ /\ seen = <<>>
             /\ id' = [id EXCEPT ![w] = 1]
             /\ Goto(w, "caw_put_latest")
          \/ /\ seen # <<>>
             /\ UNCHANGED id
             /\ Goto(w, "caw_increment")
       /\ UNCHANGED <<stack, out>>

PostCaw_Increment(w) ==
  /\ pc[w] = "caw_increment"
  /\ \E seen \in Got(LatestKey) :
       /\ Get(LatestKey, seen)
       /\ \/ /\ seen = <<>>
             /\ UNCHANGED id
             /\ Undefined
          \/ /\ seen # <<>>
             /\ id' = [id EXCEPT ![w] = seen[1] + 1]
             /\ Goto(w, "caw_remove_latest")
       /\ UNCHANGED <<stack, out>>

\* Mutants: the last id is emptied instead of erased; it is not removed.
PostCaw_RemoveLatest_Empties(w) ==
  /\ \E lost \in Lost :
       Write(w, "caw_remove_latest", lost,
             [k \in DOMAIN kvstore |-> IF k = LatestKey THEN <<>> ELSE kvstore[k]])
  /\ Goto(w, "caw_put_latest")

PostCaw_RemoveLatest_Skips(w) ==
  /\ Write(w, "caw_remove_latest", FALSE, kvstore)
  /\ Goto(w, "caw_put_latest")

PostCaw_RemoveLatest(w) ==
  /\ \E lost \in Lost :
       Write(w, "caw_remove_latest", lost, EraseFrom(kvstore, LatestKey))
  /\ Goto(w, "caw_put_latest")

PostCaw_PutLatest(w) ==
  /\ Put(w, "caw_put_latest", LatestKey, id[w])
  /\ Goto(w, "caw_put")

Caw(w) == [id |-> id[w], username |-> req[w].username, parent_id |-> req[w].parent_id]

PostCaw_Put(w) ==
  /\ Put(w, "caw_put", CawKey(id[w]), Caw(w))
  /\ IF req[w].parent_id = NoParent THEN Finish(w, "OK") ELSE Goto(w, "caw_put_child")

\* Mutant: the ids of parent and child are exchanged.
PostCaw_PutChild_Swapped(w) ==
  /\ Put(w, "caw_put_child", ChildrenKey(id[w]), req[w].parent_id)
  /\ Finish(w, "OK")

PostCaw_PutChild(w) ==
  /\ Put(w, "caw_put_child", ChildrenKey(req[w].parent_id), id[w])
  /\ Finish(w, "OK")

\* ReadCaw.  A thread that is a tree holds at most MaxRequests caws, and so do
\* its stack and its reply; on other graphs they grow without end, and only
\* the first MaxThread elements are kept.
Bounded(s) == SubSeq(s, 1, IF Len(s) < MaxThread THEN Len(s) ELSE MaxThread)

ReadCaw_Start(w) ==
  LET k == CawKey(req[w].caw_id)
  IN /\ pc[w] = "read"
     /\ \E seen \in Got(k) :
          /\ Get(k, seen)
          /\ \/ seen = <<>> /\ Finish(w, "NOT_FOUND") /\ UNCHANGED stack
             \/ /\ seen # <<>>
                /\ stack' = [stack EXCEPT ![w] = <<req[w].caw_id>>]
                /\ Goto(w, "read_caw")
          /\ UNCHANGED <<id, out>>

\* The top of the stack stays there until its children replace it.
ReadCaw_Caw(w) ==
  LET k == CawKey(Head(stack[w]))
  IN /\ pc[w] = "read_caw"
     /\ stack[w] # <<>>
     /\ \E seen \in Got(k) :
          /\ Get(k, seen)
          /\ \/ seen = <<>> /\ Undefined /\ UNCHANGED out
             \/ /\ seen # <<>>
                /\ out' = [out EXCEPT ![w] = Bounded(Append(@, seen[1]))]
                /\ Goto(w, "read_children")
     /\ UNCHANGED <<id, stack>>

\* Mutants: the children are pushed first to last; the caw is not popped.
ReadCaw_Children_Forward(w) ==
  LET k == ChildrenKey(Head(stack[w]))
  IN /\ pc[w] = "read_children"
     /\ \E seen \in Got(k) :
          /\ Get(k, seen)
          /\ stack' = [stack EXCEPT ![w] = Bounded(Reverse(seen) \o Tail(@))]
          /\ Goto(w, "read_caw")
          /\ UNCHANGED <<id, out>>

ReadCaw_Children_Unpopped(w) ==
  LET k == ChildrenKey(Head(stack[w]))
  IN /\ pc[w] = "read_children"
     /\ \E seen \in Got(k) :
          /\ Get(k, seen)
          /\ stack' = [stack EXCEPT ![w] = Bounded(seen \o @)]
          /\ Goto(w, "read_caw")
          /\ UNCHANGED <<id, out>>

ReadCaw_Children(w) ==
  LET k == ChildrenKey(Head(stack[w]))
  IN /\ pc[w] = "read_children"
     /\ \E seen \in Got(k) :
          /\ Get(k, seen)
          /\ stack' = [stack EXCEPT ![w] = Bounded(seen \o Tail(@))]
          /\ Goto(w, "read_caw")
          /\ UNCHANGED <<id, out>>

ReadCaw_End(w) ==
  /\ pc[w] = "read_caw"
  /\ stack[w] = <<>>
  /\ Finish(w, "OK")
  /\ UNCHANGED <<kvstore, req, locals, requests, failures, crashes>>

\* FollowUser.  The list of the followed is fetched before the user names are
\* checked, but only used when they are right.
FollowUser_Users(w) ==
  /\ pc[w] = "follow"
  /\ \E seen \in Got(UsersKey) :
       /\ Get(UsersKey, seen)
       /\ IF {req[w].username, req[w].to_follow} \subseteq ToSet(seen)
            THEN Goto(w, "follow_check") ELSE Goto(w, "follow_unknown")
       /\ UNCHANGED locals

FollowUser_Unknown(w) ==
  LET k == FollowingKey(req[w].username)
  IN /\ pc[w] = "follow_unknown"
     /\ \E seen \in Got(k) : Get(k, seen)
     /\ Finish(w, "NOT_FOUND")
     /\ UNCHANGED locals

\* Mutant: the check for a user already followed is missing.
FollowUser_Check_Twice(w) ==
  LET k == FollowingKey(req[w].username)
  IN /\ pc[w] = "follow_check"
     /\ \E seen \in Got(k) :
          /\ Get(k, seen)
          /\ IF req[w].to_follow = req[w].username
               THEN Finish(w, "INVALID_ARGUMENT") ELSE Goto(w, "follow_following")
          /\ UNCHANGED locals

FollowUser_Check(w) ==
  LET k == FollowingKey(req[w].username)
  IN /\ pc[w] = "follow_check"
     /\ \E seen \in Got(k) :
          /\ Get(k, seen)
          /\ IF req[w].to_follow \in {req[w].username} \cup ToSet(seen)
               THEN Finish(w, "INVALID_ARGUMENT") ELSE Goto(w, "follow_following")
          /\ UNCHANGED locals

FollowUser_PutFollowing(w) ==
  /\ Put(w, "follow_following", FollowingKey(req[w].username), req[w].to_follow)
  /\ Goto(w, "follow_followers")

\* Mutants: the two users are exchanged; the second Put is missing.
FollowUser_PutFollowers_Swapped(w) ==
  /\ Put(w, "follow_followers", FollowersKey(req[w].username), req[w].to_follow)
  /\ Finish(w, "OK")

FollowUser_PutFollowers_Skips(w) ==
  /\ Write(w, "follow_followers", FALSE, kvstore)
  /\ Finish(w, "OK")

FollowUser_PutFollowers(w) ==
  /\ Put(w, "follow_followers", FollowersKey(req[w].to_follow), req[w].username)
  /\ Finish(w, "OK")

\* GetProfile
GetProfile_Users(w) ==
  /\ pc[w] = "profile"
  /\ \E seen \in Got(UsersKey) :
       /\ Get(UsersKey, seen)
       /\ IF req[w].username \in ToSet(seen)
            THEN Goto(w, "profile_followers") ELSE Finish(w, "NOT_FOUND")
       /\ UNCHANGED locals

GetProfile_Followers(w) ==
  LET k == FollowersKey(req[w].username)
  IN /\ pc[w] = "profile_followers"
     /\ \E seen \in Got(k) :
          /\ Get(k, seen)
          /\ out' = [out EXCEPT ![w] = <<seen>>]
          /\ Goto(w, "profile_following")
          /\ UNCHANGED <<id, stack>>

GetProfile_Following(w) ==
  LET k == FollowingKey(req[w].username)
  IN /\ pc[w] = "profile_following"
     /\ \E seen \in Got(k) :
          /\ Get(k, seen)
          /\ out' = [out EXCEPT ![w] = Append(@, seen)]
          /\ Finish(w, "OK")
          /\ UNCHANGED <<id, stack>>

-----------------------------------------------------------------------------
\* The Faz process is killed (and started again).
Crash ==
  /\ crashes < MaxCrashes
  /\ crashes' = crashes + 1
  /\ Die
  /\ UNCHANGED <<kvstore, req, locals, undefined, requests, failures>>

Step(w) ==
  \/ RegisterUser_Users(w) \/ RegisterUser_Put(w)
  \/ PostCaw_Users(w) \/ PostCaw_Parent(w) \/ PostCaw_Latest(w)
  \/ PostCaw_Increment(w) \/ PostCaw_RemoveLatest(w) \/ PostCaw_PutLatest(w)
  \/ PostCaw_Put(w) \/ PostCaw_PutChild(w)
  \/ ReadCaw_Start(w) \/ ReadCaw_Caw(w) \/ ReadCaw_Children(w) \/ ReadCaw_End(w)
  \/ FollowUser_Users(w) \/ FollowUser_Unknown(w) \/ FollowUser_Check(w)
  \/ FollowUser_PutFollowing(w) \/ FollowUser_PutFollowers(w)
  \/ GetProfile_Users(w) \/ GetProfile_Followers(w) \/ GetProfile_Following(w)

Next == \/ \E w \in Workers : Step(w) \/ \E r \in Requests : Begin(w, r)
        \/ Crash

Spec == Init /\ [][Next]_vars

\* Every server thread runs, and every remote call is answered or fails.
FairSpec == Spec /\ \A w \in Workers : WF_vars(Step(w))

-----------------------------------------------------------------------------
Count(list, x) == Cardinality({j \in DOMAIN list : list[j] = x})
Stable == crashes = 0 /\ ~undefined /\ failures = 0
Quiet == \A w \in Workers : pc[w] = "idle"

CawsOf(i) == ToSet(Stored(CawKey(i)))
Children(i) == Stored(ChildrenKey(i))
PostedIds == {i \in CawIds : CawKey(i) \in DOMAIN kvstore}

\* Every variable has its type.
TypeOK ==
  LET Caws == [id : CawIds, username : Users, parent_id : CawIds \cup {NoParent}]
  IN /\ \A k \in DOMAIN kvstore : kvstore[k] # <<>>
     /\ Stored(UsersKey) \in Seq(Users)
     /\ Stored(LatestKey) \in Seq(CawIds)
     /\ \A i \in CawIds : Stored(CawKey(i)) \in Seq(Caws) /\ Children(i) \in Seq(CawIds)
     /\ \A u \in Users : {Stored(FollowingKey(u)), Stored(FollowersKey(u))} \subseteq Seq(Users)
     /\ req \in [Workers -> Requests \cup {[op |-> "none"]}]
     /\ id \in [Workers -> CawIds \cup {0}]
     /\ stack \in [Workers -> Seq(CawIds)]
     /\ \A w \in Workers : Len(stack[w]) <= MaxThread /\ Len(out[w]) <= MaxThread

\* Every stored caw is kept under its own id, its author is registered and
\* the caw it replies to exists (the two NOT_FOUND checks of PostCaw,
\* caw_functions.cpp:42-49), whatever fails, crashes or is interleaved.
CawsGrounded ==
  \A i \in PostedIds : \A c \in CawsOf(i) :
    /\ c.id = i
    /\ c.username \in ToSet(Stored(UsersKey))
    /\ c.parent_id # NoParent => c.parent_id \in PostedIds

\* As long as no remote call failed, a parent lists a child only after a caw
\* with that id that replies to it was stored (caw_functions.cpp:85-91), so a
\* reader who follows the list finds it; every such caw is listed once, except
\* while its PostCaw is between the two Puts or if the process died there.
ChildrenExact ==
  \A p, i \in CawIds :
    LET replies == Cardinality({j \in DOMAIN Stored(CawKey(i)) :
                                  Stored(CawKey(i))[j].parent_id = p})
        between == Cardinality({w \in Workers : /\ pc[w] = "caw_put_child"
                                                /\ req[w].parent_id = p
                                                /\ id[w] = i})
    IN /\ failures = 0 => Count(Children(p), i) + between <= replies
       /\ Stable => Count(Children(p), i) + between = replies

\* As long as no remote call failed, u is among the followers of v as often as
\* v is among those u follows, up to requests between the two Puts of
\* FollowUser (caw_functions.cpp:165-168) and processes that died there.
FollowMirror ==
  \A u, v \in Users :
    LET follows == Count(Stored(FollowingKey(u)), v)
        followed == Count(Stored(FollowersKey(v)), u)
        between == Cardinality({w \in Workers : /\ pc[w] = "follow_followers"
                                                /\ req[w].username = u
                                                /\ req[w].to_follow = v})
    IN /\ failures = 0 => followed + between <= follows
       /\ Stable => followed + between = follows

\* As long as no remote call failed, what a reply with status OK reports is in
\* the store, and stays there while other requests run (the functions answer
\* OK without looking at the result of Put, caw_functions.cpp:27, 85, 165).
AnswerTrue ==
  failures = 0 => \A w \in Workers :
    LET r == req[w]
    IN pc[w] = "idle" /\ status[w] = "OK" =>
         CASE r.op = "registeruser" -> r.username \in ToSet(Stored(UsersKey))
           [] r.op = "caw" -> /\ Caw(w) \in CawsOf(id[w])
                              /\ r.parent_id # NoParent =>
                                   id[w] \in ToSet(Children(r.parent_id))
           [] r.op = "read" -> \A j \in DOMAIN out[w] : out[w][j] \in CawsOf(out[w][j].id)
           [] r.op = "follow" ->
                /\ r.to_follow \in ToSet(Stored(FollowingKey(r.username)))
                /\ r.username \in ToSet(Stored(FollowersKey(r.to_follow)))
           [] r.op = "profile" ->
                /\ IsPrefix(out[w][1], Stored(FollowersKey(r.username)))
                /\ IsPrefix(out[w][2], Stored(FollowingKey(r.username)))

\* A name is registered once (caw_functions.cpp:22-25; the test
\* register_same_user expects the second attempt to fail).
UsersUnique == \A u \in Users : Count(Stored(UsersKey), u) <= 1

\* Each id names one caw ("caw_id[0] = caw", caw_functions.cpp:83).
IdsUnique == \A i \in CawIds : Len(Stored(CawKey(i))) <= 1

\* Between requests the caws are numbered from 1 to the id in latestCawId
\* (caw_functions.cpp:51-64).
IdsDense ==
  Quiet => LET n == Cardinality(PostedIds)
           IN /\ PostedIds = 1 .. n
              /\ Stored(LatestKey) = IF n = 0 THEN <<>> ELSE <<n>>

\* The replies form a forest in the order of posting: a reply has a greater id
\* than its parent, the children of a caw are listed in ascending order and
\* no caw has two parents.
ThreadsAreTrees ==
  \A p \in CawIds :
    /\ \A j \in DOMAIN Children(p) :
         /\ Children(p)[j] > p
         /\ j > 1 => Children(p)[j] > Children(p)[j - 1]
    /\ \A q \in CawIds \ {p} : ToSet(Children(p)) \cap ToSet(Children(q)) = {}

\* A user follows another at most once, and never itself
\* (caw_functions.cpp:158-163; the test follow_same_person_test).
FollowOnce ==
  \A u, v \in Users : Count(Stored(FollowingKey(u)), v) <= IF u = v THEN 0 ELSE 1

\* The ids of a thread in the order the comment at caw_functions.cpp:128-131
\* asks for: a caw, then its first reply with all its replies, and so on.
Preorder(i) ==
  LET visit[c \in CawIds] ==
        <<c>> \o FlattenSeq([j \in DOMAIN Children(c) |-> visit[Children(c)[j]]])
  IN visit[i]

ReadDone(w) == pc[w] = "idle" /\ req[w].op = "read" /\ status[w] = "OK"

\* ReadCaw answers with the whole thread in that order.
ReadIsPreorder ==
  \A w \in Workers :
    ReadDone(w) => [j \in DOMAIN out[w] |-> out[w][j].id] = Preorder(req[w].caw_id)

\* Every request is answered (caw_functions.h:42, 51, 59, 67, 77).
EveryRequestAnswered == \A w \in Workers : pc[w] # "idle" ~> pc[w] = "idle"
=============================================================================
