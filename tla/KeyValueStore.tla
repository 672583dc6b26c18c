---------------------------- MODULE KeyValueStore ----------------------------
(***************************************************************************)
(* src/key_value_store/core: the store, its subscriptions and its mutex,   *)
(* called by the threads of a synchronous gRPC server.                     *)
(*                                                                         *)
(* Every method holds lock_ for its whole body.  Put calls the             *)
(* subscribers' callbacks inside that critical section, one at a time, so  *)
(* its body is many steps; so is the copy loop of GetAllEntries.           *)
(***************************************************************************)
EXTENDS StoreOps, FiniteSets, SequencesExt

CONSTANTS Threads, Keys, Values, Tags,
          Subs,       \* callback objects; one per stream of the server
          TagsOf,     \* the tags the regular expression finds in a value, in order
          MaxCalls,   \* bound: calls started in a behaviour
          NoThread, NoRequest, NoReply

Requests ==
  [op : {"Put"}, key : Keys, value : Values]
    \cup [op : {"Get", "Remove"}, key : Keys]
    \cup [op : {"GetAllEntries"}]
    \cup [op : {"Subscribe"}, tag : Tags, callback : Subs]

Reply(ok, values, entries) == [ok |-> ok, values |-> values, entries |-> entries]

Replies == [ok : BOOLEAN, values : Seq(Values), entries : Stores(Keys, Values)]

ASSUME ConstantsAssumption ==
  /\ TagsOf \in [Values -> Seq(Tags)]
  /\ MaxCalls \in Nat
  /\ NoThread \notin Threads
  /\ NoRequest \notin Requests
  /\ NoReply \notin Replies

VARIABLES
  kv_store_, sub_map_, lock_,
  pc,            \* where each thread is in the method it runs
  request,       \* its arguments
  reply,         \* its return value, once computed
  todo,          \* Put: the tags still to notify
  it,            \* Put: the iterator into the callbacks of Head(todo)
  toReturn,      \* GetAllEntries: the pairs copied so far
  disconnected,  \* callbacks that return false from now on
  calls,         \* calls started, at most MaxCalls
  delivered,     \* history: values each callback accepted
  owed           \* history: values each callback was registered for

mapVars == <<kv_store_, toReturn>>
subVars == <<sub_map_, todo, it, disconnected, delivered, owed>>
vars == <<kv_store_, sub_map_, lock_, pc, request, reply, todo, it, toReturn,
          disconnected, calls, delivered, owed>>

\* An absent tag and a tag whose callbacks were all erased behave alike, so
\* sub_map_ is a total function.
Init ==
  /\ kv_store_ = EmptyStore
  /\ sub_map_ = [g \in Tags |-> <<>>]
  /\ lock_ = NoThread
  /\ pc = [t \in Threads |-> "idle"]
  /\ request = [t \in Threads |-> NoRequest]
  /\ reply = [t \in Threads |-> NoReply]
  /\ todo = [t \in Threads |-> <<>>]
  /\ it = [t \in Threads |-> 1]
  /\ toReturn = [t \in Threads |-> EmptyStore]
  /\ disconnected = {}
  /\ calls = 0
  /\ delivered = [s \in Subs |-> <<>>]
  /\ owed = [s \in Subs |-> <<>>]

-----------------------------------------------------------------------------
\* A server thread enters a method.
Invoke(t, r) ==
  /\ pc[t] = "idle"
  /\ calls < MaxCalls
  /\ calls' = calls + 1
  /\ pc' = [pc EXCEPT ![t] = "lock"]
  /\ request' = [request EXCEPT ![t] = r]
  /\ UNCHANGED <<mapVars, subVars, lock_, reply>>

\* Mutant: the method does not take the mutex.
Lock_Unguarded(t) ==
  /\ pc[t] = "lock"
  /\ lock_' = t
  /\ pc' = [pc EXCEPT ![t] = "body"]
  /\ UNCHANGED <<mapVars, subVars, request, reply, calls>>

\* const std::lock_guard<std::mutex> lock(lock_)
Lock(t) ==
  /\ pc[t] = "lock"
  /\ lock_ = NoThread
  /\ lock_' = t
  /\ pc' = [pc EXCEPT ![t] = "body"]
  /\ UNCHANGED <<mapVars, subVars, request, reply, calls>>

In(t, op) == pc[t] = "body" /\ request[t].op = op

\* How often a value calls s back: once per occurrence of a tag and
\* registration of s for it.
Occurrences(s, v) ==
  Cardinality({p \in UNION {{i} \X DOMAIN sub_map_[TagsOf[v][i]] :
                               i \in DOMAIN TagsOf[v]} :
                 sub_map_[TagsOf[v][p[1]]][p[2]] = s})

\* Put up to the notification loops: store the value, collect its tags.
Put(t) ==
  LET v == request[t].value
  IN /\ In(t, "Put")
     /\ kv_store_' = PutInto(kv_store_, request[t].key, v)
     /\ todo' = [todo EXCEPT ![t] = TagsOf[v]]
     /\ it' = [it EXCEPT ![t] = 1]
     /\ owed' = [s \in Subs |-> owed[s] \o [x \in 1 .. Occurrences(s, v) |-> v]]
     /\ pc' = [pc EXCEPT ![t] = "notify"]
     /\ reply' = [reply EXCEPT ![t] = Reply(TRUE, <<>>, EmptyStore)]
     /\ UNCHANGED <<lock_, sub_map_, request, toReturn, disconnected, calls, delivered>>

\* Mutants: the iterator steps over the element that follows an erased one;
\* a failing callback stays registered.
Callback_Skips(t) ==
  LET g == Head(todo[t])
      s == sub_map_[g][it[t]]
  IN /\ pc[t] = "notify" /\ todo[t] # <<>> /\ it[t] <= Len(sub_map_[g])
     /\ sub_map_' = IF s \in disconnected
                      THEN [sub_map_ EXCEPT ![g] = RemoveAt(@, it[t])] ELSE sub_map_
     /\ delivered' = IF s \in disconnected
                        THEN delivered
                        ELSE [delivered EXCEPT ![s] = Append(@, request[t].value)]
     /\ it' = [it EXCEPT ![t] = @ + 1]
     /\ UNCHANGED <<mapVars, lock_, pc, request, reply, todo, disconnected, calls, owed>>

Callback_Keeps(t) ==
  LET s == sub_map_[Head(todo[t])][it[t]]
  IN /\ pc[t] = "notify" /\ todo[t] # <<>> /\ it[t] <= Len(sub_map_[Head(todo[t])])
     /\ delivered' = IF s \in disconnected
                        THEN delivered
                        ELSE [delivered EXCEPT ![s] = Append(@, request[t].value)]
     /\ it' = [it EXCEPT ![t] = @ + 1]
     /\ UNCHANGED <<mapVars, sub_map_, lock_, pc, request, reply, todo, disconnected,
                    calls, owed>>

\* One turn of the loop over a tag's callbacks: call it, erase it if it fails.
Callback(t) ==
  /\ pc[t] = "notify"
  /\ todo[t] # <<>>
  /\ LET g == Head(todo[t])
         s == sub_map_[g][it[t]]
     IN /\ it[t] <= Len(sub_map_[g])
        /\ \/ /\ s \in disconnected
              /\ sub_map_' = [sub_map_ EXCEPT ![g] = RemoveAt(@, it[t])]
              /\ UNCHANGED <<it, delivered>>
           \/ /\ s \notin disconnected
              /\ delivered' = [delivered EXCEPT ![s] = Append(@, request[t].value)]
              /\ it' = [it EXCEPT ![t] = @ + 1]
              /\ UNCHANGED sub_map_
  /\ UNCHANGED <<mapVars, lock_, pc, request, reply, todo, disconnected, calls, owed>>

\* The end of a tag's callbacks: begin the next tag.
NextTag(t) ==
  /\ pc[t] = "notify"
  /\ todo[t] # <<>>
  /\ it[t] > Len(sub_map_[Head(todo[t])])
  /\ todo' = [todo EXCEPT ![t] = Tail(@)]
  /\ it' = [it EXCEPT ![t] = 1]
  /\ UNCHANGED <<mapVars, lock_, pc, request, reply, sub_map_, disconnected, calls,
                 delivered, owed>>

\* After the last tag Put only has to release the lock.
Notified(t) ==
  /\ pc[t] = "notify"
  /\ todo[t] = <<>>
  /\ pc' = [pc EXCEPT ![t] = "unlock"]
  /\ UNCHANGED <<mapVars, subVars, lock_, request, reply, calls>>

Answer(t, r) == /\ reply' = [reply EXCEPT ![t] = r]
                /\ pc' = [pc EXCEPT ![t] = "unlock"]
                /\ UNCHANGED <<lock_, request, calls>>

Get(t) ==
  /\ In(t, "Get")
  /\ Answer(t, Reply(TRUE, Lookup(kv_store_, request[t].key), EmptyStore))
  /\ UNCHANGED <<mapVars, subVars>>

\* Mutant: empties the list instead of erasing the key.
RemoveKey_Empties(t) ==
  /\ In(t, "Remove")
  /\ kv_store_' = [k \in DOMAIN kv_store_ |->
                     IF k = request[t].key THEN <<>> ELSE kv_store_[k]]
  /\ Answer(t, Reply(request[t].key \in DOMAIN kv_store_, <<>>, EmptyStore))
  /\ UNCHANGED <<toReturn, subVars>>

RemoveKey(t) ==
  /\ In(t, "Remove")
  /\ kv_store_' = EraseFrom(kv_store_, request[t].key)
  /\ Answer(t, Reply(request[t].key \in DOMAIN kv_store_, <<>>, EmptyStore))
  /\ UNCHANGED <<toReturn, subVars>>

\* Get(tag, callback)
Subscribe(t) ==
  /\ In(t, "Subscribe")
  /\ sub_map_' = [sub_map_ EXCEPT ![request[t].tag] = Append(@, request[t].callback)]
  /\ Answer(t, Reply(TRUE, <<>>, EmptyStore))
  /\ UNCHANGED <<mapVars, todo, it, disconnected, delivered, owed>>

\* GetAllEntries walks the hash map in no particular order.
CopyEntry(t, k) ==
  /\ In(t, "GetAllEntries")
  /\ k \in DOMAIN kv_store_ \ DOMAIN toReturn[t]
  /\ toReturn' = [toReturn EXCEPT ![t] = LoadInto(@, [x \in {k} |-> kv_store_[x]])]
  /\ UNCHANGED <<kv_store_, subVars, lock_, pc, request, reply, calls>>

GetAllEntries(t) ==
  /\ In(t, "GetAllEntries")
  /\ DOMAIN kv_store_ \subseteq DOMAIN toReturn[t]
  /\ Answer(t, Reply(TRUE, <<>>, toReturn[t]))
  /\ toReturn' = [toReturn EXCEPT ![t] = EmptyStore]
  /\ UNCHANGED <<kv_store_, subVars>>

\* Mutant: a path that returns without releasing the mutex.
Return_Locked(t) ==
  /\ pc[t] = "unlock"
  /\ pc' = [pc EXCEPT ![t] = "idle"]
  /\ request' = [request EXCEPT ![t] = NoRequest]
  /\ reply' = [reply EXCEPT ![t] = NoReply]
  /\ UNCHANGED <<mapVars, subVars, lock_, calls>>

\* The lock_guard goes out of scope as the method returns.
Return(t) ==
  /\ pc[t] = "unlock"
  /\ lock_' = NoThread
  /\ pc' = [pc EXCEPT ![t] = "idle"]
  /\ request' = [request EXCEPT ![t] = NoRequest]
  /\ reply' = [reply EXCEPT ![t] = NoReply]
  /\ UNCHANGED <<mapVars, subVars, calls>>

\* The peer of a callback's stream goes away: its Write fails from now on.
Disconnect(s) ==
  /\ s \notin disconnected
  /\ disconnected' = disconnected \cup {s}
  /\ UNCHANGED <<mapVars, sub_map_, todo, it, delivered, owed, lock_, pc, request,
                 reply, calls>>

Step(t) == \/ Lock(t) \/ Put(t) \/ Callback(t) \/ NextTag(t) \/ Notified(t)
           \/ Get(t) \/ RemoveKey(t) \/ Subscribe(t)
           \/ \E k \in Keys : CopyEntry(t, k)
           \/ GetAllEntries(t) \/ Return(t)

Next == \/ \E t \in Threads : Step(t) \/ \E r \in Requests : Invoke(t, r)
        \/ \E s \in Subs : Disconnect(s)

Spec == Init /\ [][Next]_vars

\* The operating system runs every thread that can run.  A thread waiting for
\* the mutex needs no strong fairness: calls are bounded, so the others stop.
FairSpec == Spec /\ \A t \in Threads : WF_vars(Step(t))

-----------------------------------------------------------------------------
\* Every variable has its type.
TypeOK ==
  /\ IsStore(kv_store_, Keys, Values)
  /\ sub_map_ \in [Tags -> Seq(Subs)]
  /\ lock_ \in Threads \cup {NoThread}
  /\ pc \in [Threads -> {"idle", "lock", "body", "notify", "unlock"}]
  /\ request \in [Threads -> Requests \cup {NoRequest}]
  /\ DOMAIN reply = Threads
  /\ \A t \in Threads : reply[t] # NoReply => /\ reply[t].values \in Seq(Values)
                                             /\ IsStore(reply[t].entries, Keys, Values)
  /\ todo \in [Threads -> Seq(Tags)]
  /\ it \in [Threads -> Nat \ {0}]
  /\ DOMAIN toReturn = Threads
  /\ \A t \in Threads : IsStore(toReturn[t], Keys, Values)
  /\ disconnected \subseteq Subs
  /\ calls \in 0 .. MaxCalls
  /\ delivered \in [Subs -> Seq(Values)]
  /\ owed \in [Subs -> Seq(Values)]

\* A thread is inside a method body exactly when it is the owner of lock_: no
\* two bodies overlap (std::lock_guard in every method of KeyValueStore.cpp).
LockHeld ==
  \A t \in Threads : pc[t] \in {"body", "notify", "unlock"} <=> lock_ = t

\* How far a call has come agrees with what it holds, and the pairs
\* GetAllEntries has copied are still what the map holds (the loop at
\* KeyValueStore.cpp:73-76 runs under lock_).
CallState ==
  \A t \in Threads :
    /\ request[t] = NoRequest <=> pc[t] = "idle"
    /\ reply[t] = NoReply <=> pc[t] \in {"idle", "lock", "body"}
    /\ pc[t] = "notify" => request[t].op = "Put"
    /\ toReturn[t] # EmptyStore => In(t, "GetAllEntries")
    /\ \A k \in DOMAIN toReturn[t] :
         k \in DOMAIN kv_store_ /\ toReturn[t][k] = kv_store_[k]

\* Every value put is offered to the callbacks registered for its tags at that
\* moment, in the order of the Puts: what a callback accepted is always a
\* prefix of what it was owed, and once the store is quiet a callback that
\* never failed has accepted all of it, however many others were erased
\* during the loop at KeyValueStore.cpp:38-45.
DeliveryExact ==
  /\ \A s \in Subs : IsPrefix(delivered[s], owed[s])
  /\ lock_ = NoThread =>
       \A s \in Subs \ disconnected : delivered[s] = owed[s]

\* When a Put has notified, a callback is still registered for a tag of its
\* value only if it accepted the value: a failed callback is gone (the test
\* get_stream_fail says so of one callback).
AcceptedOrErased ==
  \A t \in Threads :
    pc[t] = "unlock" /\ request[t].op = "Put" =>
      \A g \in ToSet(TagsOf[request[t].value]) :
        \A s \in ToSet(sub_map_[g]) :
          delivered[s] # <<>> /\ Last(delivered[s]) = request[t].value

\* Every call is atomic: the store refines AtomicStore, in particular the
\* entry-by-entry copy of GetAllEntries is a snapshot of one instant.
Atomic == INSTANCE AtomicStore WITH store <- kv_store_
Linearizable == Atomic!Spec

\* Every call returns, however callbacks fail: the loops of Put end and the
\* mutex is always released.
EveryCallReturns == \A t \in Threads : pc[t] = "lock" ~> pc[t] = "idle"
=============================================================================
