------------------------ MODULE KeyValueStoreProofs ------------------------
(***************************************************************************)
(* Proofs about KeyValueStore, for any threads, keys, values, tags and     *)
(* callbacks: the type invariant, mutual exclusion, that the store is      *)
(* linearizable, and what the notification loops of Put deliver: every     *)
(* callback that does not fail gets every value exactly as often as it is  *)
(* owed, in the order of the Puts, and one that fails is gone when the Put *)
(* returns.                                                                *)
(***************************************************************************)
EXTENDS KeyValueStore, SequenceFacts, SequenceTheorems, FiniteSetTheorems,
        FunctionTheorems, TLAPS

-----------------------------------------------------------------------------
\* The operations on the map take stores to stores.
LEMMA StoreOpsType ==
  ASSUME NEW f, IsStore(f, Keys, Values), NEW k \in Keys
  PROVE  /\ Lookup(f, k) \in Seq(Values)
         /\ IsStore(EraseFrom(f, k), Keys, Values)
         /\ \A v \in Values : IsStore(PutInto(f, k, v), Keys, Values)
<1>1. Lookup(f, k) \in Seq(Values)
  BY DEF IsStore, Lookup
<1>2. IsStore(EraseFrom(f, k), Keys, Values)
  BY DEF IsStore, EraseFrom
<1>3. ASSUME NEW v \in Values PROVE IsStore(PutInto(f, k, v), Keys, Values)
  <2>1. Append(Lookup(f, k), v) \in Seq(Values) \ {<<>>}
    BY <1>1, AppendProperties, EmptySeq
  <2>2. DOMAIN PutInto(f, k, v) = DOMAIN f \cup {k}
    BY DEF PutInto
  <2>3. \A x \in DOMAIN f : f[x] \in Seq(Values) \ {<<>>}
    BY DEF IsStore
  <2>4. \A x \in DOMAIN f \cup {k} : PutInto(f, k, v)[x] \in Seq(Values) \ {<<>>}
    BY <2>1, <2>3 DEF PutInto
  <2>5. PutInto(f, k, v) = [x \in DOMAIN PutInto(f, k, v) |-> PutInto(f, k, v)[x]]
    BY DEF PutInto
  <2> HIDE DEF PutInto
  <2> QED
    BY <2>2, <2>4, <2>5 DEF IsStore
<1> QED
  BY <1>1, <1>2, <1>3

\* The map a store starts with is a store.
LEMMA EmptyStoreType == IsStore(EmptyStore, Keys, Values)
BY DEF IsStore, EmptyStore

\* Copying one entry keeps a store a store.
LEMMA CopyType ==
  ASSUME NEW f, IsStore(f, Keys, Values), NEW g, IsStore(g, Keys, Values),
         NEW k \in DOMAIN g
  PROVE  IsStore(LoadInto(f, [x \in {k} |-> g[x]]), Keys, Values)
BY DEF IsStore, LoadInto

\* Erasing a callback keeps a callback list a list of callbacks.
LEMMA RemoveAtType ==
  ASSUME NEW S, NEW s \in Seq(S), NEW i \in Nat \ {0}, i <= Len(s)
  PROVE  RemoveAt(s, i) \in Seq(S)
<1>1. SubSeq(s, 1, i - 1) \in Seq(S)
  BY SubSeqProperties, Len(s) \in Nat, ElementOfSeq
<1>2. SubSeq(s, i + 1, Len(s)) \in Seq(S)
  BY SubSeqProperties, Len(s) \in Nat, ElementOfSeq
<1> QED
  BY <1>1, <1>2, ConcatProperties DEF RemoveAt

\* The history owed grows by copies of the value put.
LEMMA Repeated ==
  ASSUME NEW S, NEW v \in S, NEW n \in Nat
  PROVE  [x \in 1 .. n |-> v] \in Seq(S)
OBVIOUS

\* A value is owed to a callback a finite number of times.
LEMMA OccurrencesType ==
  ASSUME sub_map_ \in [Tags -> Seq(Subs)], NEW s \in Subs, NEW v \in Values
  PROVE  Occurrences(s, v) \in Nat
<1> DEFINE D == DOMAIN TagsOf[v]
           F == [i \in D |-> {i} \X DOMAIN sub_map_[TagsOf[v][i]]]
           Rows == {F[i] : i \in D}
           All == UNION {{i} \X DOMAIN sub_map_[TagsOf[v][i]] : i \in D}
<1>1. TagsOf[v] \in Seq(Tags)
  BY ConstantsAssumption
<1>2. IsFiniteSet(D)
  BY <1>1, LenProperties, FS_Interval
<1>3. ASSUME NEW i \in D PROVE IsFiniteSet(F[i])
  <2>1. sub_map_[TagsOf[v][i]] \in Seq(Subs)
    BY <1>1
  <2>2. IsFiniteSet(DOMAIN sub_map_[TagsOf[v][i]])
    BY <2>1, LenProperties, FS_Interval
  <2> QED
    BY <2>2, FS_Singleton, FS_Product
<1>4. F \in Surjection(D, Rows)
  BY DEF Surjection
<1>5. IsFiniteSet(Rows)
  BY <1>2, <1>4, FS_Surjection DEF ExistsSurjection
<1>6. IsFiniteSet(UNION Rows)
  BY <1>3, <1>5, FS_UNION
<1>7. All = UNION Rows
  OBVIOUS
<1> DEFINE Hits == {p \in All : sub_map_[TagsOf[v][p[1]]][p[2]] = s}
<1>8. Hits \in SUBSET All
  OBVIOUS
<1>9. IsFiniteSet(Hits)
  BY <1>6, <1>7, <1>8, FS_Subset
<1>10. Cardinality(Hits) \in Nat
  BY <1>9, FS_CardinalityType
<1> QED
  BY <1>10 DEF Occurrences

-----------------------------------------------------------------------------
\* The inductive invariant: TypeOK needs CallState to know whose arguments a
\* thread in a loop works on, CallState needs LockHeld to know that nobody
\* else changes the map.
Inv == TypeOK /\ LockHeld /\ CallState

\* The invariant holds before the first call.
THEOREM InvInit == Init => Inv
<1> SUFFICES ASSUME Init PROVE Inv
  OBVIOUS
<1> USE DEF Init
<1>1. TypeOK
  BY EmptyStoreType, ConstantsAssumption DEF TypeOK
<1>2. LockHeld
  BY ConstantsAssumption DEF LockHeld
<1>3. CallState
  BY DEF CallState, EmptyStore
<1> QED
  BY <1>1, <1>2, <1>3 DEF Inv

\* What a request holds, by its op.
LEMMA RequestType ==
  ASSUME TypeOK, NEW t \in Threads, request[t] # NoRequest
  PROVE  /\ request[t] \in Requests
         /\ request[t].op = "Put" => request[t].key \in Keys /\ request[t].value \in Values
         /\ request[t].op \in {"Get", "Remove"} => request[t].key \in Keys
         /\ request[t].op = "Subscribe" => request[t].tag \in Tags /\ request[t].callback \in Subs
<1>1. request[t] \in Requests
  BY DEF TypeOK
<1> QED
  BY <1>1 DEF Requests

\* Nobody confuses a reply with none.
LEMMA ReplyGiven ==
  ASSUME NEW ok \in BOOLEAN, NEW values \in Seq(Values), NEW entries,
         IsStore(entries, Keys, Values)
  PROVE  Reply(ok, values, entries) # NoReply
<1>1. entries \in Stores(Keys, Values)
  BY DEF IsStore, Stores
<1>2. Reply(ok, values, entries) \in Replies
  BY <1>1 DEF Reply, Replies
<1> QED
  BY <1>2, ConstantsAssumption

\* Nor the replies of Put and Subscribe.
LEMMA EmptyReplyGiven == \A ok \in BOOLEAN : Reply(ok, <<>>, EmptyStore) # NoReply
<1>1. <<>> \in Seq(Values)
  BY EmptySeq
<1> QED
  BY <1>1, ReplyGiven, EmptyStoreType

\* While a thread is inside a method no other thread is; so, unless the method
\* is GetAllEntries, no pairs are being copied.
LEMMA Alone ==
  ASSUME TypeOK, LockHeld, CallState,
         NEW t \in Threads, pc[t] \in {"body", "notify", "unlock"}
  PROVE  /\ lock_ = t
         /\ \A u \in Threads \ {t} : pc[u] \in {"idle", "lock"} /\ toReturn[u] = EmptyStore
         /\ ~In(t, "GetAllEntries") => toReturn[t] = EmptyStore
<1>1. lock_ = t
  BY DEF LockHeld
<1>2. ASSUME NEW u \in Threads \ {t}
      PROVE  pc[u] \in {"idle", "lock"} /\ toReturn[u] = EmptyStore
  <2>1. pc[u] \in {"idle", "lock"}
    BY <1>1 DEF LockHeld, TypeOK
  <2> QED
    BY <2>1 DEF CallState, In
<1> QED
  BY <1>1, <1>2 DEF CallState

-----------------------------------------------------------------------------
\* Each action keeps the invariant.
THEOREM InvNext == Inv /\ [Next]_vars => Inv'
<1> SUFFICES ASSUME TypeOK, LockHeld, CallState, [Next]_vars
             PROVE  TypeOK' /\ LockHeld' /\ CallState'
  BY DEF Inv
<1>1. ASSUME NEW t \in Threads, NEW r \in Requests, Invoke(t, r)
      PROVE  TypeOK' /\ LockHeld' /\ CallState'
  <2> USE <1>1 DEF Invoke, mapVars, subVars
  <2>a. TypeOK'
    BY ConstantsAssumption DEF TypeOK
  <2>b. LockHeld'
    BY DEF TypeOK, LockHeld
  <2>c. CallState'
    BY ConstantsAssumption DEF TypeOK, CallState, In
  <2> QED
    BY <2>a, <2>b, <2>c
<1>2. ASSUME NEW t \in Threads, Lock(t)
      PROVE  TypeOK' /\ LockHeld' /\ CallState'
  <2> USE <1>2 DEF Lock, mapVars, subVars
  <2>a. TypeOK'
    BY DEF TypeOK
  <2>b. LockHeld'
    BY ConstantsAssumption DEF TypeOK, LockHeld
  <2>c. CallState'
    BY DEF TypeOK, CallState, In
  <2> QED
    BY <2>a, <2>b, <2>c
<1>3. ASSUME NEW t \in Threads, Put(t)
      PROVE  TypeOK' /\ LockHeld' /\ CallState'
  <2> USE <1>3 DEF Put, In
  <2>1. request[t].key \in Keys /\ request[t].value \in Values
    BY RequestType DEF CallState
  <2>2. IsStore(kv_store_', Keys, Values)
    BY <2>1, StoreOpsType DEF TypeOK
  <2>3. owed' \in [Subs -> Seq(Values)]
    <3> SUFFICES ASSUME NEW s \in Subs
                 PROVE  owed[s] \o [x \in 1 .. Occurrences(s, request[t].value)
                                      |-> request[t].value] \in Seq(Values)
      OBVIOUS
    <3>1. Occurrences(s, request[t].value) \in Nat
      BY <2>1, OccurrencesType DEF TypeOK
    <3>2. [x \in 1 .. Occurrences(s, request[t].value) |-> request[t].value] \in Seq(Values)
      BY <2>1, <3>1, Repeated
    <3> QED
      BY <3>2, ConcatProperties DEF TypeOK
  <2>4. TagsOf[request[t].value] \in Seq(Tags)
    BY <2>1, ConstantsAssumption
  <2>5. \A u \in Threads : toReturn[u] = EmptyStore
    BY Alone
  <2>6. Reply(TRUE, <<>>, EmptyStore) # NoReply
    BY EmptyReplyGiven
  <2>a. TypeOK'
    BY <2>1, <2>2, <2>3, <2>4, EmptyStoreType DEF TypeOK, Reply
  <2>b. LockHeld'
    BY DEF TypeOK, LockHeld
  <2>c. CallState'
    <3> HIDE <1>3 DEF Put, In
    <3>1. /\ pc[t] = "body" /\ request[t].op = "Put"
          /\ pc' = [pc EXCEPT ![t] = "notify"]
          /\ reply' = [reply EXCEPT ![t] = Reply(TRUE, <<>>, EmptyStore)]
          /\ UNCHANGED <<request, toReturn>>
      BY <1>3 DEF Put, In
    <3>2. DOMAIN EmptyStore = {}
      BY DEF EmptyStore
    <3> QED
      BY <2>5, <2>6, <3>1, <3>2 DEF TypeOK, CallState
  <2> QED
    BY <2>a, <2>b, <2>c
<1>4. ASSUME NEW t \in Threads, Callback(t)
      PROVE  TypeOK' /\ LockHeld' /\ CallState'
  <2> DEFINE g == Head(todo[t])
             s == sub_map_[g][it[t]]
  <2>1. /\ pc[t] = "notify" /\ todo[t] # <<>> /\ it[t] <= Len(sub_map_[g])
        /\ UNCHANGED <<kv_store_, toReturn, lock_, pc, request, reply, todo,
                       disconnected, calls, owed>>
    BY <1>4 DEF Callback, mapVars
  <2>2. \/ /\ sub_map_' = [sub_map_ EXCEPT ![g] = RemoveAt(@, it[t])]
           /\ UNCHANGED <<it, delivered>>
        \/ /\ delivered' = [delivered EXCEPT ![s] = Append(@, request[t].value)]
           /\ it' = [it EXCEPT ![t] = @ + 1]
           /\ UNCHANGED sub_map_
    BY <1>4 DEF Callback
  <2>3. request[t].value \in Values
    BY <2>1, RequestType DEF CallState
  <2>4. g \in Tags
    BY <2>1, HeadTailProperties DEF TypeOK
  <2>5. sub_map_[g] \in Seq(Subs)
    BY <2>4 DEF TypeOK
  <2>6. it[t] \in Nat \ {0}
    BY DEF TypeOK
  <2>7. s \in Subs
    BY <2>1, <2>5, <2>6, ElementOfSeq, Len(sub_map_[g]) \in Nat
  <2>8. RemoveAt(sub_map_[g], it[t]) \in Seq(Subs)
    BY <2>1, <2>5, <2>6, RemoveAtType
  <2>9. sub_map_' \in [Tags -> Seq(Subs)]
    BY <2>2, <2>8 DEF TypeOK
  <2>10. delivered' \in [Subs -> Seq(Values)]
    <3>1. Append(delivered[s], request[t].value) \in Seq(Values)
      BY <2>3, <2>7, AppendProperties DEF TypeOK
    <3> QED
      BY <2>2, <3>1 DEF TypeOK
  <2>11. it' \in [Threads -> Nat \ {0}]
    <3>1. it[t] + 1 \in Nat \ {0}
      BY <2>6
    <3>2. it \in [Threads -> Nat \ {0}]
      BY DEF TypeOK
    <3> HIDE DEF s, g
    <3> QED
      BY <2>2, <3>1, <3>2
  <2>a. TypeOK'
    BY <2>1, <2>9, <2>10, <2>11 DEF TypeOK
  <2>b. LockHeld'
    BY <2>1 DEF LockHeld
  <2>c. CallState'
    BY <2>1 DEF CallState, In
  <2> QED
    BY <2>a, <2>b, <2>c
<1>5. ASSUME NEW t \in Threads, NextTag(t)
      PROVE  TypeOK' /\ LockHeld' /\ CallState'
  <2> USE <1>5 DEF NextTag, mapVars, subVars
  <2>a. TypeOK'
    BY HeadTailProperties DEF TypeOK
  <2>b. LockHeld'
    BY DEF TypeOK, LockHeld
  <2>c. CallState'
    BY DEF TypeOK, CallState, In
  <2> QED
    BY <2>a, <2>b, <2>c
<1>6. ASSUME NEW t \in Threads, Notified(t)
      PROVE  TypeOK' /\ LockHeld' /\ CallState'
  <2> USE <1>6 DEF Notified, mapVars, subVars
  <2>a. TypeOK'
    BY DEF TypeOK
  <2>b. LockHeld'
    BY DEF TypeOK, LockHeld
  <2>c. CallState'
    BY DEF TypeOK, CallState, In
  <2> QED
    BY <2>a, <2>b, <2>c
<1>7. ASSUME NEW t \in Threads, Get(t)
      PROVE  TypeOK' /\ LockHeld' /\ CallState'
  <2> USE <1>7 DEF Get, Answer, In, mapVars, subVars
  <2>1. Lookup(kv_store_, request[t].key) \in Seq(Values)
    BY RequestType, StoreOpsType DEF TypeOK, CallState
  <2>2. \A u \in Threads : toReturn[u] = EmptyStore
    BY Alone
  <2>3. Reply(TRUE, Lookup(kv_store_, request[t].key), EmptyStore) # NoReply
    BY <2>1, ReplyGiven, EmptyStoreType
  <2>a. TypeOK'
    BY <2>1, EmptyStoreType DEF TypeOK, Reply
  <2>b. LockHeld'
    BY DEF TypeOK, LockHeld
  <2>c. CallState'
    BY <2>2, <2>3 DEF TypeOK, CallState, EmptyStore
  <2> QED
    BY <2>a, <2>b, <2>c
<1>8. ASSUME NEW t \in Threads, RemoveKey(t)
      PROVE  TypeOK' /\ LockHeld' /\ CallState'
  <2> USE <1>8 DEF RemoveKey, Answer, In, mapVars, subVars
  <2>1. IsStore(kv_store_', Keys, Values)
    BY RequestType, StoreOpsType DEF TypeOK, CallState
  <2>2. \A u \in Threads : toReturn[u] = EmptyStore
    BY Alone
  <2>3. Reply(request[t].key \in DOMAIN kv_store_, <<>>, EmptyStore) # NoReply
    <3>1. (request[t].key \in DOMAIN kv_store_) \in BOOLEAN
      OBVIOUS
    <3> QED
      BY <3>1, EmptyReplyGiven
  <2>a. TypeOK'
    BY <2>1, EmptyStoreType DEF TypeOK, Reply
  <2>b. LockHeld'
    BY DEF TypeOK, LockHeld
  <2>c. CallState'
    BY <2>2, <2>3 DEF TypeOK, CallState, EmptyStore
  <2> QED
    BY <2>a, <2>b, <2>c
<1>9. ASSUME NEW t \in Threads, Subscribe(t)
      PROVE  TypeOK' /\ LockHeld' /\ CallState'
  <2> USE <1>9 DEF Subscribe, Answer, In, mapVars, subVars
  <2>1. request[t].tag \in Tags /\ request[t].callback \in Subs
    BY RequestType DEF CallState
  <2>2. \A u \in Threads : toReturn[u] = EmptyStore
    BY Alone
  <2>3. Reply(TRUE, <<>>, EmptyStore) # NoReply
    BY EmptyReplyGiven
  <2>a. TypeOK'
    BY <2>1, EmptyStoreType, AppendProperties DEF TypeOK, Reply
  <2>b. LockHeld'
    BY DEF TypeOK, LockHeld
  <2>c. CallState'
    BY <2>2, <2>3 DEF TypeOK, CallState, EmptyStore
  <2> QED
    BY <2>a, <2>b, <2>c
<1>10. ASSUME NEW t \in Threads, NEW k \in Keys, CopyEntry(t, k)
      PROVE  TypeOK' /\ LockHeld' /\ CallState'
  <2> USE <1>10 DEF CopyEntry, mapVars, subVars
  <2>1. IsStore(toReturn'[t], Keys, Values)
    BY CopyType DEF TypeOK
  <2>2. \A x \in DOMAIN toReturn'[t] :
          x \in DOMAIN kv_store_ /\ toReturn'[t][x] = kv_store_[x]
    BY DEF TypeOK, CallState, LoadInto
  <2>a. TypeOK'
    BY <2>1 DEF TypeOK
  <2>b. LockHeld'
    BY DEF TypeOK, LockHeld
  <2>c. CallState'
    BY <2>2 DEF TypeOK, CallState, In
  <2> QED
    BY <2>a, <2>b, <2>c
<1>11. ASSUME NEW t \in Threads, GetAllEntries(t)
      PROVE  TypeOK' /\ LockHeld' /\ CallState'
  <2> USE <1>11 DEF GetAllEntries, Answer, In, mapVars, subVars
  <2>1. Reply(TRUE, <<>>, toReturn[t]) # NoReply
    <3>1. <<>> \in Seq(Values)
      BY EmptySeq
    <3>2. IsStore(toReturn[t], Keys, Values)
      BY DEF TypeOK
    <3> QED
      BY <3>1, <3>2, ReplyGiven
  <2>a. TypeOK'
    BY EmptyStoreType DEF TypeOK, Reply
  <2>b. LockHeld'
    BY DEF TypeOK, LockHeld
  <2>c. CallState'
    BY <2>1 DEF TypeOK, CallState, EmptyStore
  <2> QED
    BY <2>a, <2>b, <2>c
<1>12. ASSUME NEW t \in Threads, Return(t)
      PROVE  TypeOK' /\ LockHeld' /\ CallState'
  <2> USE <1>12 DEF Return, mapVars, subVars
  <2>a. TypeOK'
    BY DEF TypeOK
  <2>b. LockHeld'
    BY ConstantsAssumption, Alone DEF TypeOK, LockHeld
  <2>c. CallState'
    BY DEF TypeOK, CallState, In
  <2> QED
    BY <2>a, <2>b, <2>c
<1>13. ASSUME NEW s \in Subs, Disconnect(s)
      PROVE  TypeOK' /\ LockHeld' /\ CallState'
  <2> USE <1>13 DEF Disconnect, mapVars, subVars
  <2>a. TypeOK'
    BY DEF TypeOK
  <2>b. LockHeld'
    BY DEF TypeOK, LockHeld
  <2>c. CallState'
    BY DEF TypeOK, CallState, In
  <2> QED
    BY <2>a, <2>b, <2>c
<1>14. CASE UNCHANGED vars
  BY <1>14 DEF vars, TypeOK, LockHeld, CallState, In
<1> QED
  BY <1>1, <1>2, <1>3, <1>4, <1>5, <1>6, <1>7, <1>8, <1>9, <1>10, <1>11,
     <1>12, <1>13, <1>14 DEF Next, Step

\* Type correctness of the store (KeyValueStore.h:58-62 declares its state).
THEOREM TypeCorrect == Spec => []TypeOK
<1>1. Inv => TypeOK
  BY DEF Inv
<1> QED
  BY <1>1, InvInit, InvNext, PTL DEF Spec

\* Mutual exclusion: at most one thread is inside a method of the store, the
\* owner of lock_.
THEOREM MutualExclusion == Spec => []LockHeld
<1>1. Inv => LockHeld
  BY DEF Inv
<1> QED
  BY <1>1, InvInit, InvNext, PTL DEF Spec

\* The pairs GetAllEntries has copied stay equal to the entries of the map
\* until it returns (KeyValueStore.cpp:72-77).
THEOREM CopiesStayTrue == Spec => []CallState
<1>1. Inv => CallState
  BY DEF Inv
<1> QED
  BY <1>1, InvInit, InvNext, PTL DEF Spec

-----------------------------------------------------------------------------
\* Every step of the store is a step of the atomic store or leaves its state
\* unchanged: a call takes effect at the step that computes its reply.
THEOREM StepRefines == Inv /\ [Next]_vars => [Atomic!Next]_(Atomic!vars)
<1> SUFFICES ASSUME TypeOK, LockHeld, CallState, [Next]_vars
             PROVE  [Atomic!Next]_(Atomic!vars)
  BY DEF Inv
<1> USE DEF Atomic!vars
<1>a. /\ Atomic!EmptyStore = EmptyStore
      /\ \A f, k : Atomic!Lookup(f, k) = Lookup(f, k) /\ Atomic!EraseFrom(f, k) = EraseFrom(f, k)
      /\ \A f, k, v : Atomic!PutInto(f, k, v) = PutInto(f, k, v)
  BY DEF Atomic!EmptyStore, EmptyStore, Atomic!Lookup, Lookup, Atomic!EraseFrom,
         EraseFrom, Atomic!PutInto, PutInto
<1>1. ASSUME NEW t \in Threads, NEW r \in Requests, Invoke(t, r)
      PROVE  Atomic!Invoke(t, r)
  BY <1>1 DEF Invoke, mapVars, subVars, Atomic!Invoke, CallState
<1>2. ASSUME NEW t \in Threads, Put(t)
      PROVE  Atomic!Perform(t)
  <2> SUFFICES /\ Atomic!Effect(request[t]) = PutInto(kv_store_, request[t].key, request[t].value)
               /\ Atomic!Answer(request[t]) = Reply(TRUE, <<>>, EmptyStore)
    BY <1>2 DEF Put, In, CallState, Atomic!Perform
  <2> QED
    BY <1>a, <1>2 DEF Put, In, Atomic!Effect, Atomic!Answer, Reply
<1>3. ASSUME NEW t \in Threads, Get(t)
      PROVE  Atomic!Perform(t)
  <2> SUFFICES /\ Atomic!Effect(request[t]) = kv_store_
               /\ Atomic!Answer(request[t])
                    = Reply(TRUE, Lookup(kv_store_, request[t].key), EmptyStore)
    BY <1>3 DEF Get, Answer, In, mapVars, CallState, Atomic!Perform
  <2> QED
    BY <1>a, <1>3 DEF Get, In, Atomic!Effect, Atomic!Answer, Reply
<1>4. ASSUME NEW t \in Threads, RemoveKey(t)
      PROVE  Atomic!Perform(t)
  <2> SUFFICES /\ Atomic!Effect(request[t]) = EraseFrom(kv_store_, request[t].key)
               /\ Atomic!Answer(request[t])
                    = Reply(request[t].key \in DOMAIN kv_store_, <<>>, EmptyStore)
    BY <1>4 DEF RemoveKey, Answer, In, CallState, Atomic!Perform
  <2> QED
    BY <1>a, <1>4 DEF RemoveKey, In, Atomic!Effect, Atomic!Answer, Reply
<1>5. ASSUME NEW t \in Threads, Subscribe(t)
      PROVE  Atomic!Perform(t)
  <2> SUFFICES /\ Atomic!Effect(request[t]) = kv_store_
               /\ Atomic!Answer(request[t]) = Reply(TRUE, <<>>, EmptyStore)
    BY <1>5 DEF Subscribe, Answer, In, mapVars, CallState, Atomic!Perform
  <2> QED
    BY <1>a, <1>5 DEF Subscribe, In, Atomic!Effect, Atomic!Answer, Reply
<1>6. ASSUME NEW t \in Threads, GetAllEntries(t)
      PROVE  Atomic!Perform(t)
  <2>1. toReturn[t] = kv_store_
    <3>1. DOMAIN toReturn[t] = DOMAIN kv_store_
      BY <1>6 DEF GetAllEntries, CallState
    <3>2. \A k \in DOMAIN kv_store_ : toReturn[t][k] = kv_store_[k]
      BY <3>1 DEF CallState
    <3> QED
      BY <3>1, <3>2 DEF TypeOK, IsStore
  <2> SUFFICES /\ Atomic!Effect(request[t]) = kv_store_
               /\ Atomic!Answer(request[t]) = Reply(TRUE, <<>>, kv_store_)
    BY <1>6, <2>1 DEF GetAllEntries, Answer, In, CallState, Atomic!Perform
  <2> QED
    BY <1>a, <1>6 DEF GetAllEntries, In, Atomic!Effect, Atomic!Answer, Reply
<1>7. ASSUME NEW t \in Threads, Return(t)
      PROVE  Atomic!Return(t)
  BY <1>7 DEF Return, mapVars, CallState, Atomic!Return
<1>8. ASSUME NEW t \in Threads,
             \/ Lock(t) \/ Callback(t) \/ NextTag(t) \/ Notified(t)
             \/ \E k \in Keys : CopyEntry(t, k)
      PROVE  UNCHANGED <<kv_store_, request, reply>>
  BY <1>8 DEF Lock, Callback, NextTag, Notified, CopyEntry, mapVars
<1>9. ASSUME NEW s \in Subs, Disconnect(s)
      PROVE  UNCHANGED <<kv_store_, request, reply>>
  BY <1>9 DEF Disconnect, mapVars
<1>10. CASE UNCHANGED vars
  BY <1>10 DEF vars
<1> QED
  BY <1>1, <1>2, <1>3, <1>4, <1>5, <1>6, <1>7, <1>8, <1>9, <1>10
     DEF Next, Step, Atomic!Next

\* The store is linearizable: it implements AtomicStore, where every call takes
\* effect at one instant.
THEOREM StoreIsLinearizable == Spec => Linearizable
<1>1. Init => Atomic!Init
  BY DEF Init, Atomic!Init, EmptyStore, Atomic!EmptyStore
<1> QED
  BY <1>1, InvInit, InvNext, StepRefines, PTL DEF Spec, Linearizable, Atomic!Spec

-----------------------------------------------------------------------------
\* The turns of the loops.

\* The turns that are left when Put is at element n of the callbacks of the
\* k-th tag of T, as pairs of the positions of a tag and of the callback s.
Turns(sub, T, k, n, s) ==
  {p \in UNION {{i} \X DOMAIN sub[T[i]] : i \in DOMAIN T} :
     /\ p[1] > k \/ (p[1] = k /\ p[2] >= n)
     /\ sub[T[p[1]]][p[2]] = s}

\* What is in Turns, element by element.
TurnsMean(sub, T, k, n, s) ==
  /\ \A i, j : <<i, j>> \in Turns(sub, T, k, n, s) <=>
       /\ i \in 1 .. Len(T) /\ j \in 1 .. Len(sub[T[i]])
       /\ i > k \/ (i = k /\ j >= n)
       /\ sub[T[i]][j] = s
  /\ \A p \in Turns(sub, T, k, n, s) : p = <<p[1], p[2]>>

\* A turn is a tag and a callback of that tag, and there are finitely many.
LEMMA TurnsAre ==
  ASSUME NEW sub \in [Tags -> Seq(Subs)], NEW T \in Seq(Tags),
         NEW k \in Nat, NEW n \in Nat, NEW s \in Subs
  PROVE  /\ IsFiniteSet(Turns(sub, T, k, n, s))
         /\ Cardinality(Turns(sub, T, k, n, s)) \in Nat
         /\ TurnsMean(sub, T, k, n, s)
<1> DEFINE D == DOMAIN T
           F == [i \in D |-> {i} \X DOMAIN sub[T[i]]]
           Rows == {F[i] : i \in D}
           All == UNION {{i} \X DOMAIN sub[T[i]] : i \in D}
           Here == Turns(sub, T, k, n, s)
<1>1. D = 1 .. Len(T) /\ Len(T) \in Nat /\ \A i \in D : T[i] \in Tags
  BY LenProperties, ElementOfSeq
<1>2. \A i \in D : sub[T[i]] \in Seq(Subs)
  BY <1>1
<1>3. \A i \in D : DOMAIN sub[T[i]] = 1 .. Len(sub[T[i]]) /\ Len(sub[T[i]]) \in Nat
  BY <1>2, LenProperties
<1>4. \A i \in D : IsFiniteSet(F[i])
  <2> SUFFICES ASSUME NEW i \in D PROVE IsFiniteSet(F[i])
    OBVIOUS
  <2>1. IsFiniteSet(DOMAIN sub[T[i]])
    BY <1>3, FS_Interval
  <2> QED
    BY <2>1, FS_Singleton, FS_Product
<1>5. IsFiniteSet(D)
  BY <1>1, FS_Interval
<1>6. F \in Surjection(D, Rows)
  BY DEF Surjection
<1>7. IsFiniteSet(Rows)
  BY <1>5, <1>6, FS_Surjection DEF ExistsSurjection
<1>8. IsFiniteSet(UNION Rows)
  BY <1>4, <1>7, FS_UNION
<1>9. All = UNION Rows
  OBVIOUS
<1>10. Here \in SUBSET All
  BY DEF Turns
<1>11. IsFiniteSet(Here)
  BY <1>8, <1>9, <1>10, FS_Subset
<1>12. Cardinality(Here) \in Nat
  BY <1>11, FS_CardinalityType
<1>13. \A i, j : <<i, j>> \in All <=> i \in D /\ j \in DOMAIN sub[T[i]]
  OBVIOUS
<1>14. \A p \in All : p = <<p[1], p[2]>>
  OBVIOUS
<1>15. Here = {p \in All : /\ p[1] > k \/ (p[1] = k /\ p[2] >= n)
                           /\ sub[T[p[1]]][p[2]] = s}
  BY DEF Turns
<1> HIDE DEF All, Here, F, Rows
<1>16. \A i, j : <<i, j>> \in Here <=>
              /\ i \in 1 .. Len(T) /\ j \in 1 .. Len(sub[T[i]])
              /\ i > k \/ (i = k /\ j >= n)
              /\ sub[T[i]][j] = s
  BY <1>1, <1>3, <1>13, <1>15
<1>17. \A p \in Here : p = <<p[1], p[2]>>
  BY <1>14, <1>15
<1> QED
  BY <1>11, <1>12, <1>16, <1>17 DEF Here, TurnsMean

\* The turns at the start are all occurrences of s.
LEMMA TurnsAtStart ==
  ASSUME NEW s \in Subs, NEW v \in Values, TypeOK
  PROVE  Occurrences(s, v) = Cardinality(Turns(sub_map_, TagsOf[v], 1, 1, s))
<1> DEFINE T == TagsOf[v]
           All == UNION {{i} \X DOMAIN sub_map_[T[i]] : i \in DOMAIN T}
<1>1. T \in Seq(Tags)
  BY ConstantsAssumption
<1>2. \A i \in DOMAIN T : i \in Nat /\ i >= 1 /\ sub_map_[T[i]] \in Seq(Subs)
  BY <1>1, LenProperties, ElementOfSeq DEF TypeOK
<1>3. \A p \in All : p[1] \in DOMAIN T /\ p[2] \in DOMAIN sub_map_[T[p[1]]]
  OBVIOUS
<1>4. \A p \in All : p[1] > 1 \/ (p[1] = 1 /\ p[2] >= 1)
  <2> SUFFICES ASSUME NEW p \in All PROVE p[1] > 1 \/ (p[1] = 1 /\ p[2] >= 1)
    OBVIOUS
  <2>1. DOMAIN sub_map_[T[p[1]]] = 1 .. Len(sub_map_[T[p[1]]])
    BY <1>2, <1>3, LenProperties
  <2> QED
    BY <1>2, <1>3, <2>1
<1>5. {p \in All : sub_map_[T[p[1]]][p[2]] = s} = Turns(sub_map_, T, 1, 1, s)
  <2> HIDE DEF T
  <2> QED
    BY <1>4 DEF Turns
<1> QED
  BY <1>5 DEF Occurrences

\* After the last callback of a tag the loop is at the first of the next tag.
LEMMA TurnsNextTag ==
  ASSUME NEW sub \in [Tags -> Seq(Subs)], NEW T \in Seq(Tags),
         NEW k \in 1 .. Len(T), NEW n \in Nat, NEW s \in Subs,
         n > Len(sub[T[k]])
  PROVE  Turns(sub, T, k, n, s) = Turns(sub, T, k + 1, 1, s)
<1> DEFINE A == Turns(sub, T, k, n, s)
           B == Turns(sub, T, k + 1, 1, s)
<1>1. Len(T) \in Nat /\ \A i \in 1 .. Len(T) : T[i] \in Tags
  BY LenProperties, ElementOfSeq
<1>2. \A i \in 1 .. Len(T) : Len(sub[T[i]]) \in Nat
  BY <1>1, LenProperties
<1>n. k \in Nat /\ k + 1 \in Nat /\ 1 \in Nat
  BY <1>1
<1>t. TurnsMean(sub, T, k, n, s) /\ TurnsMean(sub, T, k + 1, 1, s)
  <2>1. TurnsMean(sub, T, k, n, s)
    BY <1>n, TurnsAre
  <2>2. TurnsMean(sub, T, k + 1, 1, s)
    BY <1>n, TurnsAre
  <2> QED
    BY <2>1, <2>2
<1>3. \A i, j : <<i, j>> \in A <=>
              /\ i \in 1 .. Len(T) /\ j \in 1 .. Len(sub[T[i]])
              /\ i > k \/ (i = k /\ j >= n)
              /\ sub[T[i]][j] = s
  BY <1>1, <1>t DEF TurnsMean
<1>4. \A i, j : <<i, j>> \in B <=>
              /\ i \in 1 .. Len(T) /\ j \in 1 .. Len(sub[T[i]])
              /\ i > k + 1 \/ (i = k + 1 /\ j >= 1)
              /\ sub[T[i]][j] = s
  BY <1>1, <1>t DEF TurnsMean
<1>5. (\A p \in A : p = <<p[1], p[2]>>) /\ (\A p \in B : p = <<p[1], p[2]>>)
  BY <1>1, <1>t DEF TurnsMean
<1> HIDE DEF A, B
<1>6. \A i, j : <<i, j>> \in A <=> <<i, j>> \in B
  <2> SUFFICES ASSUME NEW i, NEW j PROVE <<i, j>> \in A <=> <<i, j>> \in B
    OBVIOUS
  <2>1. CASE i \in 1 .. Len(T) /\ j \in 1 .. Len(sub[T[i]])
    <3>1. /\ i \in Nat /\ j \in Nat /\ j >= 1
          /\ Len(sub[T[i]]) \in Nat /\ j <= Len(sub[T[i]])
      BY <1>1, <1>2, <2>1
    <3>2. i = k => j < n
      BY <1>n, <3>1
    <3>3. (i > k \/ (i = k /\ j >= n)) <=> (i > k + 1 \/ (i = k + 1 /\ j >= 1))
      BY <1>n, <3>1, <3>2
    <3> QED
      BY <1>3, <1>4, <2>1, <3>3
  <2>2. CASE ~(i \in 1 .. Len(T) /\ j \in 1 .. Len(sub[T[i]]))
    BY <1>3, <1>4, <2>2
  <2> QED
    BY <2>1, <2>2
<1>7. \A p : p \in A <=> p \in B
  <2> SUFFICES ASSUME NEW p PROVE p \in A <=> p \in B
    OBVIOUS
  <2>1. <<p[1], p[2]>> \in A <=> <<p[1], p[2]>> \in B
    BY <1>6
  <2>2. (p \in A => p = <<p[1], p[2]>>) /\ (p \in B => p = <<p[1], p[2]>>)
    BY <1>5
  <2> QED
    BY <2>1, <2>2, Zenon
<1> QED
  BY <1>7 DEF A, B

\* The turns left after the n-th callback of the k-th tag has had its turn.
Advanced(sub, T, k, n, s) ==
  Turns(sub, T, k, n + 1, s) = Turns(sub, T, k, n, s) \ {<<k, n>>}

\* A turn taken is a turn less for the callback called, and for no other.
LEMMA TurnTaken ==
  ASSUME NEW sub \in [Tags -> Seq(Subs)], NEW T \in Seq(Tags),
         NEW k \in 1 .. Len(T), NEW n \in 1 .. Len(sub[T[k]]), NEW s \in Subs
  PROVE  Advanced(sub, T, k, n, s)
<1> DEFINE A == Turns(sub, T, k, n, s)
           B == Turns(sub, T, k, n + 1, s)
<1>1. Len(T) \in Nat /\ \A i \in 1 .. Len(T) : T[i] \in Tags
  BY LenProperties, ElementOfSeq
<1>2. \A i \in 1 .. Len(T) : Len(sub[T[i]]) \in Nat
  BY <1>1, LenProperties
<1>n. k \in Nat /\ n \in Nat /\ n + 1 \in Nat
  BY <1>1, <1>2
<1>t. TurnsMean(sub, T, k, n, s) /\ TurnsMean(sub, T, k, n + 1, s)
  <2>1. TurnsMean(sub, T, k, n, s)
    BY <1>n, TurnsAre
  <2>2. TurnsMean(sub, T, k, n + 1, s)
    BY <1>n, TurnsAre
  <2> QED
    BY <2>1, <2>2
<1>3. \A i, j : <<i, j>> \in A <=>
              /\ i \in 1 .. Len(T) /\ j \in 1 .. Len(sub[T[i]])
              /\ i > k \/ (i = k /\ j >= n)
              /\ sub[T[i]][j] = s
  BY <1>1, <1>t DEF TurnsMean
<1>4. \A i, j : <<i, j>> \in B <=>
              /\ i \in 1 .. Len(T) /\ j \in 1 .. Len(sub[T[i]])
              /\ i > k \/ (i = k /\ j >= n + 1)
              /\ sub[T[i]][j] = s
  BY <1>1, <1>t DEF TurnsMean
<1>5. (\A p \in A : p = <<p[1], p[2]>>) /\ (\A p \in B : p = <<p[1], p[2]>>)
  BY <1>1, <1>t DEF TurnsMean
<1> HIDE DEF A, B
<1>6. \A i, j : <<i, j>> \in B <=> <<i, j>> \in A /\ <<i, j>> # <<k, n>>
  <2> SUFFICES ASSUME NEW i, NEW j
               PROVE <<i, j>> \in B <=> <<i, j>> \in A /\ <<i, j>> # <<k, n>>
    OBVIOUS
  <2>1. CASE i \in 1 .. Len(T) /\ j \in 1 .. Len(sub[T[i]])
    BY <1>1, <1>2, <1>3, <1>4, <1>n, <2>1
  <2>2. CASE ~(i \in 1 .. Len(T) /\ j \in 1 .. Len(sub[T[i]]))
    BY <1>3, <1>4, <2>2
  <2> QED
    BY <2>1, <2>2
<1>7. \A p : p \in B <=> p \in A /\ p # <<k, n>>
  <2> SUFFICES ASSUME NEW p PROVE p \in B <=> p \in A /\ p # <<k, n>>
    OBVIOUS
  <2>1. <<p[1], p[2]>> \in B <=> <<p[1], p[2]>> \in A /\ <<p[1], p[2]>> # <<k, n>>
    BY <1>6
  <2>2. (p \in A => p = <<p[1], p[2]>>) /\ (p \in B => p = <<p[1], p[2]>>)
    BY <1>5
  <2> QED
    BY <2>1, <2>2, Zenon
<1> QED
  BY <1>7 DEF A, B, Advanced

\* The subscriptions once the n-th callback of tag g is erased.
Without(sub, g, n) == [sub EXCEPT ![g] = RemoveAt(@, n)]

\* Erasing a callback at the loop's position takes no turn from the others.
LEMMA TurnsShifted ==
  ASSUME NEW sub \in [Tags -> Seq(Subs)], NEW T \in Seq(Tags),
         NEW k \in 1 .. Len(T), NEW n \in 1 .. Len(sub[T[k]]), NEW s \in Subs,
         sub[T[k]][n] # s,
         NEW sub2, sub2 = Without(sub, T[k], n)
  PROVE  Cardinality(Turns(sub2, T, k, n, s)) = Cardinality(Turns(sub, T, k, n, s))
<1> DEFINE g == T[k]  q == sub[g]
           A == Turns(sub, T, k, n, s)
           B == Turns(sub2, T, k, n, s)
           Shifted(i, j) == IF T[i] = g /\ j > n THEN j - 1 ELSE j
           f == [p \in A |-> <<p[1], Shifted(p[1], p[2])>>]
<1>1. Len(T) \in Nat /\ \A i \in 1 .. Len(T) : T[i] \in Tags
  BY LenProperties, ElementOfSeq
<1>2. q \in Seq(Subs) /\ Len(q) \in Nat /\ g \in Tags /\ n \in Nat
  BY <1>1, LenProperties
<1>3. /\ RemoveAt(q, n) \in Seq(Subs) /\ Len(RemoveAt(q, n)) = Len(q) - 1
      /\ \A j \in 1 .. Len(q) - 1 : RemoveAt(q, n)[j] = IF j < n THEN q[j] ELSE q[j + 1]
  BY <1>2, RemoveAtElements
<1>4. /\ sub2 \in [Tags -> Seq(Subs)]
      /\ sub2[g] = RemoveAt(q, n)
      /\ \A h \in Tags : h # g => sub2[h] = sub[h]
  BY <1>2, <1>3 DEF Without
<1>5. \A i \in 1 .. Len(T) : Len(sub[T[i]]) \in Nat /\ Len(sub2[T[i]]) \in Nat
  BY <1>1, <1>4, LenProperties
<1>n. k \in Nat /\ n \in Nat
  BY <1>1, <1>2
<1>t. TurnsMean(sub, T, k, n, s) /\ TurnsMean(sub2, T, k, n, s)
  <2>1. TurnsMean(sub, T, k, n, s)
    BY <1>n, TurnsAre
  <2>2. TurnsMean(sub2, T, k, n, s)
    BY <1>n, <1>4, TurnsAre
  <2> QED
    BY <2>1, <2>2
<1>6. \A i, j : <<i, j>> \in A <=>
              /\ i \in 1 .. Len(T) /\ j \in 1 .. Len(sub[T[i]])
              /\ i > k \/ (i = k /\ j >= n)
              /\ sub[T[i]][j] = s
  BY <1>1, <1>t DEF TurnsMean
<1>7. \A i, j : <<i, j>> \in B <=>
              /\ i \in 1 .. Len(T) /\ j \in 1 .. Len(sub2[T[i]])
              /\ i > k \/ (i = k /\ j >= n)
              /\ sub2[T[i]][j] = s
  BY <1>1, <1>t DEF TurnsMean
<1>8. (\A p \in A : p = <<p[1], p[2]>>) /\ (\A p \in B : p = <<p[1], p[2]>>)
  BY <1>1, <1>t DEF TurnsMean
<1>9. IsFiniteSet(A)
  BY <1>n, TurnsAre
<1> HIDE DEF A, B
<1>10. ASSUME NEW i \in 1 .. Len(T), NEW j \in 1 .. Len(sub[T[i]]), <<i, j>> \in A
       PROVE  /\ <<i, Shifted(i, j)>> \in B
              /\ T[i] = g => j # n
  <2>1. CASE T[i] # g
    <3>1. sub2[T[i]] = sub[T[i]] /\ Shifted(i, j) = j
      BY <1>1, <1>4, <2>1
    <3>2. /\ i > k \/ (i = k /\ j >= n)
          /\ j \in 1 .. Len(sub2[T[i]]) /\ sub2[T[i]][j] = s
      BY <1>6, <1>10, <3>1
    <3>3. <<i, j>> \in B
      BY <1>7, <3>2
    <3> QED
      BY <2>1, <3>1, <3>3
  <2>2. CASE T[i] = g
    <3>1. sub[T[i]] = q /\ sub2[T[i]] = RemoveAt(q, n) /\ q[j] = s /\ j # n
      BY <1>4, <1>6, <1>10, <2>2
    <3>2. CASE j < n
      <4>1. RemoveAt(q, n)[j] = s /\ j \in 1 .. Len(q) - 1 /\ Shifted(i, j) = j
        BY <1>2, <1>3, <3>1, <3>2
      <4> QED
        BY <1>2, <1>3, <1>6, <1>7, <1>10, <3>1, <4>1
    <3>3. CASE j > n
      <4>1. RemoveAt(q, n)[j - 1] = s /\ j - 1 \in 1 .. Len(q) - 1 /\ Shifted(i, j) = j - 1
        BY <1>2, <1>3, <2>2, <3>1, <3>3
      <4>2. i > k \/ (i = k /\ j >= n)
        BY <1>6, <1>10
      <4>3. i > k \/ (i = k /\ j - 1 >= n)
        BY <1>2, <1>5, <3>3, <4>2
      <4>4. j - 1 \in 1 .. Len(sub2[T[i]]) /\ sub2[T[i]][j - 1] = s
        BY <1>3, <3>1, <4>1
      <4>5. <<i, j - 1>> \in B
        BY <1>7, <4>3, <4>4
      <4> QED
        BY <3>1, <4>1, <4>5
    <3> QED
      BY <1>2, <3>1, <3>2, <3>3
  <2> QED
    BY <2>1, <2>2
<1>11. f \in [A -> B]
  <2> SUFFICES ASSUME NEW p \in A PROVE <<p[1], Shifted(p[1], p[2])>> \in B
    OBVIOUS
  <2>1. <<p[1], p[2]>> \in A
    BY <1>8
  <2>2. p[1] \in 1 .. Len(T) /\ p[2] \in 1 .. Len(sub[T[p[1]]])
    BY <1>6, <2>1
  <2> QED
    BY <1>10, <2>1, <2>2
<1>12. ASSUME NEW p1 \in A, NEW p2 \in A, f[p1] = f[p2]
       PROVE  p1 = p2
  <2>1. /\ p1 = <<p1[1], p1[2]>> /\ p2 = <<p2[1], p2[2]>>
    BY <1>8
  <2>2. /\ p1[1] \in 1 .. Len(T) /\ p1[2] \in 1 .. Len(sub[T[p1[1]]])
        /\ p2[1] \in 1 .. Len(T) /\ p2[2] \in 1 .. Len(sub[T[p2[1]]])
    BY <1>6, <2>1
  <2>3. /\ T[p1[1]] = g => p1[2] # n
        /\ T[p2[1]] = g => p2[2] # n
    BY <1>10, <2>1, <2>2
  <2>4. p1[1] = p2[1] /\ Shifted(p1[1], p1[2]) = Shifted(p2[1], p2[2])
    BY <1>12
  <2>5. p1[2] \in Nat /\ p2[2] \in Nat
    <3>1. Len(sub[T[p1[1]]]) \in Nat /\ Len(sub[T[p2[1]]]) \in Nat
      BY <1>5, <2>2
    <3> QED
      BY <2>2, <3>1
  <2>6. p1[2] = p2[2]
    BY <1>2, <2>3, <2>4, <2>5
  <2> QED
    BY <2>1, <2>4, <2>6
<1>13. ASSUME NEW r \in B
       PROVE  \E p \in A : f[p] = r
  <2> DEFINE i == r[1]  j == r[2]
             m == IF T[i] = g /\ j >= n THEN j + 1 ELSE j
  <2>1. r = <<i, j>>
    BY <1>8
  <2>2. /\ i \in 1 .. Len(T) /\ j \in 1 .. Len(sub2[T[i]]) /\ j \in Nat
        /\ i > k \/ (i = k /\ j >= n)
        /\ sub2[T[i]][j] = s
    BY <1>5, <1>7, <2>1
  <2> HIDE DEF i, j
  <2>3. <<i, m>> \in A
    <3>1. CASE T[i] # g
      BY <1>1, <1>4, <1>6, <2>2, <3>1
    <3>2. CASE T[i] = g
      <4>1. sub2[T[i]] = RemoveAt(q, n) /\ sub[T[i]] = q /\ j \in 1 .. Len(q) - 1
        BY <1>3, <1>4, <2>2, <3>2
      <4>2. RemoveAt(q, n)[j] = q[m] /\ m \in 1 .. Len(q) /\ (j >= n => m >= n)
        BY <1>2, <1>3, <3>2, <4>1
      <4> QED
        BY <1>6, <2>2, <4>1, <4>2
    <3> QED
      BY <3>1, <3>2
  <2>4. Shifted(i, m) = j
    BY <1>2, <2>2
  <2>5. f[<<i, m>>] = <<i, Shifted(i, m)>>
    BY <2>3
  <2> QED
    BY <2>1, <2>3, <2>4, <2>5
<1> HIDE DEF f
<1>14. f \in Bijection(A, B)
  BY <1>11, <1>12, <1>13, Fun_IsBij
<1>15. ExistsBijection(A, B)
  BY <1>14 DEF ExistsBijection
<1>16. Cardinality(B) = Cardinality(A)
  BY <1>9, <1>15, FS_Bijection
<1> QED
  BY <1>16 DEF A, B

\* The same with the elements of the new subscriptions given one by one.
LEMMA TurnsAfterErase ==
  ASSUME NEW sub \in [Tags -> Seq(Subs)], NEW T \in Seq(Tags),
         NEW k \in 1 .. Len(T), NEW n \in 1 .. Len(sub[T[k]]), NEW s \in Subs,
         sub[T[k]][n] # s,
         NEW sub2 \in [Tags -> Seq(Subs)], sub2[T[k]] = RemoveAt(sub[T[k]], n),
         \A h \in Tags : h # T[k] => sub2[h] = sub[h]
  PROVE  Cardinality(Turns(sub2, T, k, n, s)) = Cardinality(Turns(sub, T, k, n, s))
<1>1. sub2 = Without(sub, T[k], n)
  BY DEF Without
<1> QED
  BY <1>1, TurnsShifted

\* After the last tag no turn is left.
LEMMA TurnsAtEnd ==
  ASSUME NEW sub \in [Tags -> Seq(Subs)], NEW T \in Seq(Tags), NEW n \in Nat, NEW s \in Subs
  PROVE  Turns(sub, T, Len(T) + 1, n, s) = {}
<1> DEFINE A == Turns(sub, T, Len(T) + 1, n, s)
<1>1. Len(T) \in Nat
  BY LenProperties
<1>n. Len(T) + 1 \in Nat
  BY <1>1
<1>t. TurnsMean(sub, T, Len(T) + 1, n, s)
  BY <1>n, TurnsAre
<1>2. \A i, j : <<i, j>> \in A => i \in 1 .. Len(T) /\ (i > Len(T) + 1 \/ i = Len(T) + 1)
  BY <1>1, <1>t DEF TurnsMean
<1>3. \A p \in A : p = <<p[1], p[2]>>
  BY <1>1, <1>t DEF TurnsMean
<1> HIDE DEF A
<1>4. \A i, j : <<i, j>> \notin A
  <2> SUFFICES ASSUME NEW i, NEW j, <<i, j>> \in A PROVE FALSE
    OBVIOUS
  <2>1. i \in 1 .. Len(T) /\ (i > Len(T) + 1 \/ i = Len(T) + 1)
    BY <1>2
  <2> QED
    BY <1>1, <2>1
<1>5. A = {}
  BY <1>3, <1>4
<1> QED
  BY <1>5 DEF A

-----------------------------------------------------------------------------
\* The invariant.

\* The tags of the value a thread puts, and which of them its loop is at.
TagsAt(t) == TagsOf[request[t].value]
Turn(t) == Len(TagsAt(t)) - Len(todo[t]) + 1

\* The tags to come are the last of the value's tags.
Walk(t) ==
  pc[t] = "notify" =>
    /\ Len(todo[t]) <= Len(TagsAt(t))
    /\ \A i \in 1 .. Len(todo[t]) : todo[t][i] = TagsAt(t)[Turn(t) - 1 + i]

\* The turns that are left for callback s, and the copies of v they stand for.
Left(t, s) == Turns(sub_map_, TagsAt(t), Turn(t), it[t], s)
Copies(v, c) == [x \in 1 .. c |-> v]

\* What a callback that works has yet to get is the value, once for each turn left.
Owing(t) ==
  pc[t] = "notify" =>
    \A s \in Subs \ disconnected :
      owed[s] = delivered[s] \o Copies(request[t].value, Cardinality(Left(t, s)))

\* The last value s accepted.
Accepted(s, v) == delivered[s] # <<>> /\ Last(delivered[s]) = v

\* The callbacks the loops have passed and kept have accepted the value.
Told(t) ==
  pc[t] = "notify" =>
    \A i \in 1 .. Len(TagsAt(t)) : \A j \in 1 .. Len(sub_map_[TagsAt(t)[i]]) :
      i < Turn(t) \/ (i = Turn(t) /\ j < it[t])
        => Accepted(sub_map_[TagsAt(t)[i]][j], request[t].value)

Even ==
  (\A t \in Threads : pc[t] # "notify") =>
    \A s \in Subs \ disconnected : owed[s] = delivered[s]

Ordered == \A s \in Subs : IsPrefix(delivered[s], owed[s])

Delivery == /\ \A t \in Threads : Walk(t) /\ Owing(t) /\ Told(t)
            /\ Even /\ Ordered /\ AcceptedOrErased

\* A copy more or less.
LEMMA CopiesAre ==
  ASSUME NEW v \in Values, NEW d \in Seq(Values), NEW c \in Nat
  PROVE  /\ Copies(v, c) \in Seq(Values)
         /\ d \o Copies(v, 0) = d
         /\ c > 0 => d \o Copies(v, c) = Append(d, v) \o Copies(v, c - 1)
<1>1. /\ Copies(v, c) \in Seq(Values) /\ Len(Copies(v, c)) = c
      /\ \A x \in 1 .. c : Copies(v, c)[x] = v
  BY DEF Copies
<1>2. Copies(v, 0) = <<>>
  BY DEF Copies
<1>3. d \o Copies(v, 0) = d
  BY <1>2, ConcatEmptySeq
<1>4. ASSUME c > 0 PROVE d \o Copies(v, c) = Append(d, v) \o Copies(v, c - 1)
  <2> DEFINE e == Copies(v, c)
  <2>1. e # <<>> /\ e \in Seq(Values)
    BY <1>1, <1>4
  <2>2. Append(d, Head(e)) \o Tail(e) = d \o e
    BY <2>1, Shift
  <2>3. Head(e) = v
    BY <1>1, <1>4
  <2>4. Tail(e) = Copies(v, c - 1)
    BY <1>4 DEF Copies
  <2> QED
    BY <2>2, <2>3, <2>4
<1> QED
  BY <1>1, <1>3, <1>4

\* Where a thread in the loops is.
LEMMA AtTurn ==
  ASSUME TypeOK, CallState, NEW t \in Threads, pc[t] = "notify", Walk(t)
  PROVE  /\ request[t].op = "Put" /\ request[t].value \in Values
         /\ TagsAt(t) \in Seq(Tags) /\ Len(TagsAt(t)) \in Nat
         /\ todo[t] \in Seq(Tags) /\ Len(todo[t]) \in Nat
         /\ Turn(t) \in Nat /\ Turn(t) >= 1
         /\ it[t] \in Nat /\ it[t] >= 1
         /\ todo[t] # <<>> => /\ Turn(t) \in 1 .. Len(TagsAt(t))
                              /\ Head(todo[t]) = TagsAt(t)[Turn(t)]
                              /\ Head(todo[t]) \in Tags
<1>1. request[t].op = "Put" /\ request[t].value \in Values
  BY RequestType DEF CallState
<1>2. TagsAt(t) \in Seq(Tags) /\ Len(TagsAt(t)) \in Nat
  BY <1>1, ConstantsAssumption DEF TagsAt
<1>3. todo[t] \in Seq(Tags) /\ Len(todo[t]) \in Nat /\ it[t] \in Nat /\ it[t] >= 1
  BY DEF TypeOK
<1>4. Turn(t) \in Nat /\ Turn(t) >= 1
  BY <1>2, <1>3 DEF Walk, Turn
<1>5. ASSUME todo[t] # <<>>
      PROVE  /\ Turn(t) \in 1 .. Len(TagsAt(t))
             /\ Head(todo[t]) = TagsAt(t)[Turn(t)]
             /\ Head(todo[t]) \in Tags
  <2>1. Len(todo[t]) >= 1
    BY <1>3, <1>5, EmptySeq
  <2>2. Head(todo[t]) = todo[t][1] /\ Head(todo[t]) \in Tags
    BY <1>3, <1>5, HeadTailProperties
  <2>3. todo[t][1] = TagsAt(t)[Turn(t) - 1 + 1]
    BY <1>3, <2>1 DEF Walk
  <2>4. Turn(t) - 1 + 1 = Turn(t) /\ Turn(t) <= Len(TagsAt(t))
    BY <1>2, <1>3, <1>4, <2>1 DEF Turn
  <2> QED
    BY <1>2, <1>4, <2>2, <2>3, <2>4
<1> QED
  BY <1>1, <1>2, <1>3, <1>4, <1>5

-----------------------------------------------------------------------------
\* Each action keeps the invariant.

\* Who is in a method is there alone.
LEMMA OthersIdle ==
  ASSUME TypeOK, LockHeld, CallState,
         NEW t \in Threads, pc[t] \in {"body", "notify", "unlock"}
  PROVE  \A u \in Threads : u # t => pc[u] \in {"idle", "lock"}
BY Alone

\* Most actions leave the subscriptions and the loops alone.
LEMMA DeliveryFrame ==
  ASSUME Delivery, UNCHANGED subVars,
         \A t \in Threads : pc'[t] = "notify" <=> pc[t] = "notify",
         \A t \in Threads : pc[t] = "notify" => request'[t] = request[t],
         \A t \in Threads : pc'[t] = "unlock" /\ request'[t].op = "Put" =>
                              pc[t] = "unlock" /\ request'[t] = request[t]
  PROVE  Delivery'
<1> USE DEF subVars
<1>1. \A t \in Threads : pc[t] = "notify" =>
        /\ TagsAt(t)' = TagsAt(t) /\ Turn(t)' = Turn(t)
  BY DEF TagsAt, Turn
<1>2. \A t \in Threads, s \in Subs : pc[t] = "notify" => Left(t, s)' = Left(t, s)
  BY <1>1 DEF Left
<1>3. ASSUME NEW t \in Threads PROVE Walk(t)'
  BY <1>1 DEF Delivery, Walk
<1>4. ASSUME NEW t \in Threads PROVE Owing(t)'
  BY <1>2 DEF Delivery, Owing
<1>5. ASSUME NEW t \in Threads PROVE Told(t)'
  <2>1. Told(t)
    BY DEF Delivery
  <2>2. ASSUME pc'[t] = "notify", NEW i \in 1 .. Len(TagsAt(t)),
               NEW j \in 1 .. Len(sub_map_[TagsAt(t)[i]]),
               i < Turn(t) \/ (i = Turn(t) /\ j < it[t])
        PROVE  Accepted(sub_map_[TagsAt(t)[i]][j], request[t].value)
    BY <2>1, <2>2 DEF Told
  <2>3. \A s, v : Accepted(s, v)' = Accepted(s, v)
    BY DEF Accepted
  <2>4. pc'[t] = "notify" => TagsAt(t)' = TagsAt(t) /\ Turn(t)' = Turn(t)
                            /\ request'[t] = request[t]
    BY <1>1
  <2> QED
    BY <2>2, <2>3, <2>4 DEF Told
<1>6. Even' /\ Ordered'
  BY DEF Delivery, Even, Ordered
<1>7. AcceptedOrErased'
  BY DEF Delivery, AcceptedOrErased
<1> QED
  BY <1>3, <1>4, <1>5, <1>6, <1>7 DEF Delivery

\* Put begins its loops: every occurrence is a turn.
LEMMA PutDelivery ==
  ASSUME TypeOK, LockHeld, CallState, Delivery, NEW t \in Threads, Put(t)
  PROVE  Delivery'
<1> DEFINE v == request[t].value
<1>1. /\ pc[t] = "body" /\ request[t].op = "Put"
      /\ pc' = [pc EXCEPT ![t] = "notify"]
      /\ todo' = [todo EXCEPT ![t] = TagsOf[v]]
      /\ it' = [it EXCEPT ![t] = 1]
      /\ owed' = [s \in Subs |-> owed[s] \o [x \in 1 .. Occurrences(s, v) |-> v]]
      /\ UNCHANGED <<sub_map_, request, disconnected, delivered>>
  BY DEF Put, In
<1>2. v \in Values /\ TagsOf[v] \in Seq(Tags) /\ Len(TagsOf[v]) \in Nat
  BY <1>1, RequestType, ConstantsAssumption DEF CallState
<1>3. \A u \in Threads : u # t => pc[u] \in {"idle", "lock"}
  BY <1>1, OthersIdle
<1>4. /\ pc'[t] = "notify" /\ \A u \in Threads : u # t => pc'[u] \in {"idle", "lock"}
      /\ todo'[t] = TagsOf[v] /\ it'[t] = 1
  BY <1>1, <1>3 DEF TypeOK
<1>5. TagsAt(t)' = TagsOf[v] /\ Turn(t)' = 1
  BY <1>1, <1>2, <1>4 DEF TagsAt, Turn
<1>6. \A s \in Subs \ disconnected : owed[s] = delivered[s]
  BY <1>1, <1>3 DEF Delivery, Even
<1>7. ASSUME NEW u \in Threads PROVE Walk(u)'
  <2>1. CASE u = t
    BY <1>2, <1>4, <1>5, <2>1 DEF Walk
  <2> QED
    BY <1>4, <2>1 DEF Walk
<1>8. ASSUME NEW u \in Threads PROVE Owing(u)'
  <2> SUFFICES ASSUME u = t PROVE Owing(t)'
    BY <1>4 DEF Owing
  <2> SUFFICES ASSUME NEW s \in Subs \ disconnected
               PROVE  owed'[s] = delivered[s] \o Copies(v, Cardinality(Left(t, s)'))
    BY <1>1 DEF Owing
  <2>1. Left(t, s)' = Turns(sub_map_, TagsOf[v], 1, 1, s)
    BY <1>1, <1>4, <1>5 DEF Left
  <2>2. Occurrences(s, v) = Cardinality(Left(t, s)')
    BY <1>2, <2>1, TurnsAtStart
  <2> QED
    BY <1>1, <1>6, <2>2 DEF Copies
<1>9. ASSUME NEW u \in Threads PROVE Told(u)'
  <2> SUFFICES ASSUME u = t PROVE Told(t)'
    BY <1>4 DEF Told
  <2>1. \A T : \A i \in 1 .. Len(T) : \A j \in 1 .. Len(sub_map_[T[i]]) :
          ~(i < 1 \/ (i = 1 /\ j < 1))
    OBVIOUS
  <2> QED
    BY <1>4, <1>5, <2>1 DEF Told
<1>10. Even'
  BY <1>4 DEF Even
<1>11. Ordered'
  <2> SUFFICES ASSUME NEW s \in Subs PROVE IsPrefix(delivered[s], owed'[s])
    BY <1>1 DEF Ordered
  <2>1. Occurrences(s, v) \in Nat
    BY <1>2, OccurrencesType DEF TypeOK
  <2>2. [x \in 1 .. Occurrences(s, v) |-> v] \in Seq(Values)
    BY <1>2, <2>1, Repeated
  <2>3. IsPrefix(delivered[s], owed[s]) /\ delivered[s] \in Seq(Values) /\ owed[s] \in Seq(Values)
    BY DEF Delivery, Ordered, TypeOK
  <2>4. IsPrefix(delivered[s], owed[s] \o [x \in 1 .. Occurrences(s, v) |-> v])
    BY <2>2, <2>3, PrefixConcat
  <2> QED
    BY <1>1, <2>4
<1>12. AcceptedOrErased'
  BY <1>4 DEF AcceptedOrErased
<1> QED
  BY <1>7, <1>8, <1>9, <1>10, <1>11, <1>12 DEF Delivery

\* NextTag passes the end of one tag's callbacks: no turn is lost.
LEMMA NextTagDelivery ==
  ASSUME TypeOK, LockHeld, CallState, Delivery, NEW t \in Threads, NextTag(t)
  PROVE  Delivery'
<1> DEFINE T == TagsAt(t)  k == Turn(t)  v == request[t].value
<1>1. /\ pc[t] = "notify" /\ todo[t] # <<>> /\ it[t] > Len(sub_map_[Head(todo[t])])
      /\ todo' = [todo EXCEPT ![t] = Tail(@)]
      /\ it' = [it EXCEPT ![t] = 1]
      /\ UNCHANGED <<pc, sub_map_, request, disconnected, delivered, owed>>
  BY DEF NextTag
<1>2. Walk(t) /\ Owing(t) /\ Told(t)
  BY DEF Delivery
<1>3. /\ v \in Values /\ T \in Seq(Tags) /\ Len(T) \in Nat
      /\ todo[t] \in Seq(Tags) /\ Len(todo[t]) \in Nat
      /\ k \in Nat /\ k \in 1 .. Len(T) /\ it[t] \in Nat
      /\ Head(todo[t]) = T[k] /\ T[k] \in Tags
  BY <1>1, <1>2, AtTurn
<1>4. \A u \in Threads : u # t => pc[u] \in {"idle", "lock"}
  BY <1>1, OthersIdle
<1>5. /\ todo'[t] = Tail(todo[t]) /\ it'[t] = 1
      /\ Tail(todo[t]) \in Seq(Tags) /\ Len(Tail(todo[t])) = Len(todo[t]) - 1
      /\ \A i \in 1 .. Len(todo[t]) - 1 : Tail(todo[t])[i] = todo[t][i + 1]
  BY <1>1, <1>3, HeadTailProperties DEF TypeOK
<1>6. T' = T /\ k' = k + 1
  <2>1. TagsAt(t)' = TagsAt(t)
    BY <1>1 DEF TagsAt
  <2>2. Turn(t)' = Len(TagsAt(t)') - Len(todo'[t]) + 1
    BY DEF Turn
  <2>3. Turn(t) = Len(TagsAt(t)) - Len(todo[t]) + 1
    BY DEF Turn
  <2>4. Len(todo'[t]) = Len(todo[t]) - 1
    BY <1>5
  <2>5. Turn(t)' = Turn(t) + 1
    BY <1>3, <2>1, <2>2, <2>3, <2>4
  <2> QED
    BY <2>1, <2>5
<1>7. ASSUME NEW u \in Threads PROVE Walk(u)'
  <2> SUFFICES ASSUME u = t PROVE Walk(t)'
    BY <1>1, <1>4 DEF Walk
  <2>1. Len(todo'[t]) <= Len(T)
    BY <1>1, <1>2, <1>3, <1>5 DEF Walk
  <2>2. ASSUME NEW i \in 1 .. Len(todo'[t]) PROVE todo'[t][i] = T[(k + 1) - 1 + i]
    <3>1. todo'[t][i] = todo[t][i + 1] /\ i + 1 \in 1 .. Len(todo[t])
      BY <1>3, <1>5
    <3>2. todo[t][i + 1] = T[k - 1 + (i + 1)]
      BY <1>1, <1>2, <3>1 DEF Walk
    <3>3. k - 1 + (i + 1) = (k + 1) - 1 + i
      BY <1>3, <1>5
    <3> QED
      BY <3>1, <3>2, <3>3
  <2> QED
    BY <1>6, <2>1, <2>2 DEF Walk
<1>8. ASSUME NEW u \in Threads PROVE Owing(u)'
  <2> SUFFICES ASSUME u = t PROVE Owing(t)'
    BY <1>1, <1>4 DEF Owing
  <2> SUFFICES ASSUME NEW s \in Subs \ disconnected
               PROVE  owed[s] = delivered[s] \o Copies(v, Cardinality(Left(t, s)'))
    BY <1>1 DEF Owing
  <2>1. Left(t, s)' = Turns(sub_map_, T, k + 1, 1, s)
    BY <1>1, <1>5, <1>6 DEF Left
  <2>2. Turns(sub_map_, T, k, it[t], s) = Turns(sub_map_, T, k + 1, 1, s)
    <3>1. it[t] > Len(sub_map_[T[k]]) /\ sub_map_ \in [Tags -> Seq(Subs)]
      BY <1>1, <1>3 DEF TypeOK
    <3> HIDE DEF T, k
    <3> QED
      BY <1>3, <3>1, TurnsNextTag
  <2>3. owed[s] = delivered[s] \o Copies(v, Cardinality(Left(t, s)))
    BY <1>1, <1>2 DEF Owing
  <2> QED
    BY <2>1, <2>2, <2>3 DEF Left
<1>9. ASSUME NEW u \in Threads PROVE Told(u)'
  <2> SUFFICES ASSUME u = t PROVE Told(t)'
    BY <1>1, <1>4 DEF Told
  <2> SUFFICES ASSUME NEW i \in 1 .. Len(T), NEW j \in 1 .. Len(sub_map_[T[i]]),
                      i < k + 1 \/ (i = k + 1 /\ j < 1)
               PROVE  Accepted(sub_map_[T[i]][j], v)
    BY <1>1, <1>5, <1>6 DEF Told, Accepted
  <2>1. T[i] \in Tags /\ sub_map_[T[i]] \in Seq(Subs) /\ Len(sub_map_[T[i]]) \in Nat
    BY <1>3, ElementOfSeq DEF TypeOK
  <2>2. i < k \/ (i = k /\ j < it[t])
    <3>1. i < k \/ i = k
      BY <1>3, <2>1
    <3>2. i = k => j < it[t]
      BY <1>1, <1>3, <2>1
    <3> QED
      BY <3>1, <3>2
  <2> QED
    BY <1>1, <1>2, <2>2 DEF Told
<1>10. Even' /\ Ordered' /\ AcceptedOrErased'
  BY <1>1, <1>4 DEF Delivery, Even, Ordered, AcceptedOrErased
<1> QED
  BY <1>7, <1>8, <1>9, <1>10 DEF Delivery

\* After the last tag nothing is left to deliver.
LEMMA NotifiedDelivery ==
  ASSUME TypeOK, LockHeld, CallState, Delivery, NEW t \in Threads, Notified(t)
  PROVE  Delivery'
<1> DEFINE T == TagsAt(t)  k == Turn(t)  v == request[t].value
<1>1. /\ pc[t] = "notify" /\ todo[t] = <<>>
      /\ pc' = [pc EXCEPT ![t] = "unlock"]
      /\ UNCHANGED <<todo, it, sub_map_, request, disconnected, delivered, owed>>
  BY DEF Notified, subVars
<1>2. Walk(t) /\ Owing(t) /\ Told(t)
  BY DEF Delivery
<1>3. v \in Values /\ T \in Seq(Tags) /\ Len(T) \in Nat /\ it[t] \in Nat
  BY <1>1, <1>2, AtTurn
<1>4. \A u \in Threads : u # t => pc[u] \in {"idle", "lock"}
  BY <1>1, OthersIdle
<1>5. pc'[t] = "unlock" /\ \A u \in Threads : u # t => pc'[u] \in {"idle", "lock"}
  BY <1>1, <1>4 DEF TypeOK
<1>6. k = Len(T) + 1
  BY <1>1, <1>3 DEF Turn
<1>7. \A u \in Threads : Walk(u)' /\ Owing(u)' /\ Told(u)'
  BY <1>5 DEF Walk, Owing, Told
<1>8. Even'
  <2> SUFFICES ASSUME NEW s \in Subs \ disconnected PROVE owed[s] = delivered[s]
    BY <1>1 DEF Even
  <2>1. owed[s] = delivered[s] \o Copies(v, Cardinality(Left(t, s)))
    BY <1>1, <1>2 DEF Owing
  <2>2. Left(t, s) = {}
    <3> HIDE DEF T, k
    <3>1. Turns(sub_map_, T, k, it[t], s) = {}
      BY <1>3, <1>6, TurnsAtEnd DEF TypeOK
    <3> QED
      BY <3>1 DEF Left, T, k
  <2>3. delivered[s] \o Copies(v, 0) = delivered[s]
    BY <1>3, CopiesAre DEF TypeOK
  <2> QED
    BY <2>1, <2>2, <2>3, FS_EmptySet
<1>9. Ordered'
  BY <1>1 DEF Delivery, Ordered
<1>10. AcceptedOrErased'
  <2> SUFFICES ASSUME NEW g \in ToSet(T), NEW s \in ToSet(sub_map_[g])
               PROVE  delivered[s] # <<>> /\ Last(delivered[s]) = v
    BY <1>1, <1>5 DEF AcceptedOrErased, TagsAt
  <2>1. PICK i \in 1 .. Len(T) : T[i] = g
    BY <1>3, LenProperties DEF ToSet
  <2>2. g \in Tags /\ sub_map_[g] \in Seq(Subs)
    BY <1>3, <2>1, ElementOfSeq DEF TypeOK
  <2>3. PICK j \in 1 .. Len(sub_map_[g]) : sub_map_[g][j] = s
    BY <2>2, LenProperties DEF ToSet
  <2>4. i < k
    BY <1>3, <1>6
  <2> QED
    BY <1>1, <1>2, <2>1, <2>3, <2>4 DEF Told, Accepted
<1> QED
  BY <1>7, <1>8, <1>9, <1>10 DEF Delivery

\* A new subscription comes while no Put is in its loops.
LEMMA SubscribeDelivery ==
  ASSUME TypeOK, LockHeld, CallState, Delivery, NEW t \in Threads, Subscribe(t)
  PROVE  Delivery'
<1>1. /\ pc[t] = "body" /\ request[t].op = "Subscribe"
      /\ pc' = [pc EXCEPT ![t] = "unlock"]
      /\ UNCHANGED <<request, disconnected, delivered, owed>>
  BY DEF Subscribe, Answer, In
<1>2. \A u \in Threads : u # t => pc[u] \in {"idle", "lock"}
  BY <1>1, OthersIdle
<1>3. pc'[t] = "unlock" /\ \A u \in Threads : u # t => pc'[u] \in {"idle", "lock"}
  BY <1>1, <1>2 DEF TypeOK
<1>4. \A u \in Threads : Walk(u)' /\ Owing(u)' /\ Told(u)'
  BY <1>3 DEF Walk, Owing, Told
<1>5. Even' /\ Ordered'
  BY <1>1, <1>2 DEF Delivery, Even, Ordered
<1>6. AcceptedOrErased'
  BY <1>1, <1>3 DEF AcceptedOrErased
<1> QED
  BY <1>4, <1>5, <1>6 DEF Delivery

\* Who disconnects is owed nothing more.
LEMMA DisconnectDelivery ==
  ASSUME Delivery, NEW s \in Subs, Disconnect(s)
  PROVE  Delivery'
<1>1. /\ disconnected \subseteq disconnected'
      /\ UNCHANGED <<sub_map_, todo, it, delivered, owed, pc, request>>
  BY DEF Disconnect
<1>2. \A t \in Threads : TagsAt(t)' = TagsAt(t) /\ Turn(t)' = Turn(t)
  BY <1>1 DEF TagsAt, Turn
<1>3. \A t \in Threads, d \in Subs : Left(t, d)' = Left(t, d)
  BY <1>1, <1>2 DEF Left
<1>4. ASSUME NEW t \in Threads PROVE Walk(t)' /\ Told(t)'
  BY <1>1, <1>2 DEF Delivery, Walk, Told, Accepted
<1>5. ASSUME NEW t \in Threads PROVE Owing(t)'
  BY <1>1, <1>3 DEF Delivery, Owing
<1>6. Even' /\ Ordered' /\ AcceptedOrErased'
  BY <1>1 DEF Delivery, Even, Ordered, AcceptedOrErased
<1> QED
  BY <1>4, <1>5, <1>6 DEF Delivery

\* A callback that works takes its turn: one copy of the value less to come.
LEMMA AcceptDelivery ==
  ASSUME TypeOK, LockHeld, CallState, Delivery, NEW t \in Threads, Callback(t),
         sub_map_[Head(todo[t])][it[t]] \notin disconnected
  PROVE  Delivery'
<1> DEFINE T == TagsAt(t)  k == Turn(t)  v == request[t].value  n == it[t]
           c == sub_map_[T[k]][n]
<1>1. pc[t] = "notify" /\ todo[t] # <<>>
  BY DEF Callback
<1>2. Walk(t) /\ Owing(t) /\ Told(t)
  BY DEF Delivery
<1>3. /\ v \in Values /\ T \in Seq(Tags) /\ Len(T) \in Nat
      /\ k \in Nat /\ k \in 1 .. Len(T) /\ n \in Nat /\ n >= 1
      /\ Head(todo[t]) = T[k] /\ T[k] \in Tags
  BY <1>1, <1>2, AtTurn
<1>4. /\ n <= Len(sub_map_[T[k]]) /\ c \notin disconnected
      /\ delivered' = [delivered EXCEPT ![c] = Append(@, v)]
      /\ it' = [it EXCEPT ![t] = @ + 1]
      /\ UNCHANGED <<pc, request, todo, sub_map_, disconnected, owed>>
  BY <1>3 DEF Callback
<1>5. /\ sub_map_ \in [Tags -> Seq(Subs)]
      /\ sub_map_[T[k]] \in Seq(Subs) /\ Len(sub_map_[T[k]]) \in Nat
      /\ n \in 1 .. Len(sub_map_[T[k]]) /\ c \in Subs
  <2>1. sub_map_ \in [Tags -> Seq(Subs)]
    BY DEF TypeOK
  <2>2. sub_map_[T[k]] \in Seq(Subs) /\ Len(sub_map_[T[k]]) \in Nat
    BY <1>3, <2>1
  <2>3. n \in 1 .. Len(sub_map_[T[k]])
    BY <1>3, <1>4, <2>2
  <2> QED
    BY <2>1, <2>2, <2>3, ElementOfSeq
<1>6. \A u \in Threads : u # t => pc[u] \in {"idle", "lock"}
  BY <1>1, OthersIdle
<1>7. /\ it'[t] = n + 1
      /\ delivered \in [Subs -> Seq(Values)] /\ delivered[c] \in Seq(Values)
      /\ delivered'[c] = Append(delivered[c], v)
      /\ \A s \in Subs : s # c => delivered'[s] = delivered[s]
  BY <1>4, <1>5 DEF TypeOK
<1>8. TagsAt(t)' = T /\ Turn(t)' = k
  BY <1>4 DEF TagsAt, Turn
<1>9. ASSUME NEW s \in Subs
      PROVE  /\ IsFiniteSet(Left(t, s)) /\ Cardinality(Left(t, s)) \in Nat
             /\ Left(t, s)' = Left(t, s) \ {<<k, n>>}
             /\ <<k, n>> \in Left(t, s) <=> s = c
  <2>1. Left(t, s) = Turns(sub_map_, T, k, n, s)
    BY DEF Left
  <2>2. Left(t, s)' = Turns(sub_map_, T, k, n + 1, s)
    BY <1>4, <1>7, <1>8 DEF Left
  <2> HIDE DEF T, k, n
  <2>3. /\ IsFiniteSet(Turns(sub_map_, T, k, n, s))
        /\ Cardinality(Turns(sub_map_, T, k, n, s)) \in Nat
        /\ TurnsMean(sub_map_, T, k, n, s)
    BY <1>3, <1>5, TurnsAre
  <2>0. /\ sub_map_ \in [Tags -> Seq(Subs)] /\ T \in Seq(Tags)
        /\ k \in 1 .. Len(T) /\ n \in 1 .. Len(sub_map_[T[k]])
    BY <1>3, <1>5
  <2>4. Turns(sub_map_, T, k, n + 1, s) = Turns(sub_map_, T, k, n, s) \ {<<k, n>>}
    <3>1. Advanced(sub_map_, T, k, n, s)
      BY <2>0, TurnTaken
    <3> QED
      BY <3>1 DEF Advanced
  <2>5. <<k, n>> \in Turns(sub_map_, T, k, n, s) <=> sub_map_[T[k]][n] = s
    BY <1>3, <1>5, <2>3 DEF TurnsMean
  <2> QED
    BY <2>1, <2>2, <2>3, <2>4, <2>5
<1>10. ASSUME NEW u \in Threads PROVE Walk(u)'
  BY <1>4, <1>6, <1>8, <1>2 DEF Walk
<1>11. ASSUME NEW s \in Subs \ disconnected
       PROVE  owed'[s] = delivered'[s] \o Copies(v, Cardinality(Left(t, s)'))
  <2> DEFINE C == Cardinality(Left(t, s))
  <2>1. owed[s] = delivered[s] \o Copies(v, C)
    BY <1>1, <1>2 DEF Owing
  <2>2. CASE s = c
    <3>a. Cardinality(Left(t, s) \ {<<k, n>>}) = Cardinality(Left(t, s)) - 1
      BY <1>9, <2>2, FS_RemoveElement
    <3>b. Cardinality(Left(t, s) \ {<<k, n>>}) \in Nat
      BY <1>9, FS_Subset, FS_CardinalityType
    <3>1. C \in Nat /\ Cardinality(Left(t, s)') = C - 1 /\ C - 1 \in Nat
      BY <1>9, <3>a, <3>b
    <3>2. C > 0
      BY <3>1
    <3> HIDE DEF C, v
    <3>3. delivered[s] \o Copies(v, C) = Append(delivered[s], v) \o Copies(v, C - 1)
      BY <1>3, <1>7, <2>2, <3>1, <3>2, CopiesAre
    <3> QED
      BY <1>4, <1>7, <2>1, <2>2, <3>1, <3>3
  <2>3. CASE s # c
    <3>1. Left(t, s)' = Left(t, s)
      BY <1>9, <2>3
    <3> QED
      BY <1>4, <1>7, <2>1, <2>3, <3>1
  <2> QED
    BY <2>2, <2>3
<1>12. ASSUME NEW u \in Threads PROVE Owing(u)'
  <2>1. CASE u = t
    BY <1>4, <1>11, <2>1 DEF Owing
  <2>2. CASE u # t
    BY <1>4, <1>6, <2>2 DEF Owing
  <2> QED
    BY <2>1, <2>2
<1> DEFINE Now(s) == delivered'[s] # <<>> /\ Last(delivered'[s]) = v
<1>13. /\ Now(c)
       /\ \A s \in Subs : Accepted(s, v) => Now(s)
  <2>1. delivered'[c] # <<>> /\ Last(delivered'[c]) = v
    <3> DEFINE d == delivered[c]  e == Append(d, v)
    <3>1. d \in Seq(Values) /\ delivered'[c] = e
      BY <1>7
    <3> HIDE DEF d, v
    <3>2. e \in Seq(Values) /\ Len(e) = Len(d) + 1 /\ e[Len(d) + 1] = v
      BY <1>3, <3>1, AppendProperties
    <3>3. Len(d) \in Nat
      BY <3>1
    <3> HIDE DEF e
    <3>4. e # <<>>
      BY <3>2, <3>3, EmptySeq
    <3>5. Last(e) = v
      BY <3>2 DEF Last
    <3> QED
      BY <3>1, <3>4, <3>5
  <2>2. ASSUME NEW s \in Subs, s # c, Accepted(s, v) PROVE Now(s)
    BY <1>7, <2>2 DEF Accepted
  <2> QED
    BY <2>1, <2>2
<1>14. ASSUME NEW u \in Threads PROVE Told(u)'
  <2>1. CASE u = t
    <3>1. ASSUME NEW i \in 1 .. Len(T), NEW j \in 1 .. Len(sub_map_[T[i]]),
                 i < k \/ (i = k /\ j < n + 1)
          PROVE  Now(sub_map_[T[i]][j])
      <4>1. T[i] \in Tags /\ sub_map_[T[i]] \in Seq(Subs) /\ Len(sub_map_[T[i]]) \in Nat
        BY <1>3, <1>5, ElementOfSeq
      <4>2. sub_map_[T[i]][j] \in Subs /\ j \in Nat
        BY <4>1, ElementOfSeq
      <4>3. CASE i = k /\ j = n
        BY <1>13, <4>2, <4>3
      <4>4. CASE ~(i = k /\ j = n)
        <5>1. i < k \/ (i = k /\ j < n)
          BY <1>3, <3>1, <4>2, <4>4
        <5>2. Accepted(sub_map_[T[i]][j], v)
          BY <1>1, <1>2, <5>1 DEF Told
        <5> QED
          BY <1>13, <4>2, <5>2
      <4> QED
        BY <4>3, <4>4
    <3>2. request'[t] = request[t] /\ sub_map_' = sub_map_
      BY <1>4
    <3>3. \A s : Accepted(s, request[t].value)' <=> Now(s)
      BY <3>2 DEF Accepted
    <3>4. it'[t] = n + 1 /\ TagsAt(t)' = T /\ Turn(t)' = k
      BY <1>7, <1>8
    <3> HIDE DEF T, k, n, Now
    <3> QED
      BY <2>1, <3>1, <3>2, <3>3, <3>4 DEF Told
  <2>2. CASE u # t
    BY <1>4, <1>6, <2>2 DEF Told
  <2> QED
    BY <2>1, <2>2
<1>15. Even' /\ AcceptedOrErased'
  BY <1>1, <1>4, <1>6 DEF Even, AcceptedOrErased
<1>16. Ordered'
  <2> SUFFICES ASSUME NEW s \in Subs PROVE IsPrefix(delivered'[s], owed'[s])
    BY DEF Ordered
  <2>1. CASE s = c
    <3> DEFINE C == Cardinality(Left(t, s)')  d == delivered'[s]
    <3>1. C \in Nat
      BY <1>9, FS_Subset, FS_CardinalityType
    <3>2. d \in Seq(Values) /\ owed'[s] \in Seq(Values)
      <4>1. Append(delivered[c], v) \in Seq(Values)
        <5> HIDE DEF c, v
        <5> QED
          BY <1>3, <1>7, AppendProperties
      <4>2. owed'[s] \in Seq(Values)
        BY <1>4 DEF TypeOK
      <4> QED
        BY <1>7, <2>1, <4>1, <4>2
    <3>3. owed'[s] = d \o Copies(v, C)
      BY <1>4, <1>11, <2>1
    <3> HIDE DEF C, d, v
    <3>4. Copies(v, C) \in Seq(Values)
      BY <1>3, <3>1, <3>2, CopiesAre
    <3> QED
      BY <3>2, <3>3, <3>4, PrefixOfConcat DEF d
  <2>2. CASE s # c
    BY <1>4, <1>7, <2>2 DEF Delivery, Ordered
  <2> QED
    BY <2>1, <2>2
<1> QED
  BY <1>10, <1>12, <1>14, <1>15, <1>16 DEF Delivery

\* A callback that fails is erased: the others keep their turns.
LEMMA EraseDelivery ==
  ASSUME TypeOK, LockHeld, CallState, Delivery, NEW t \in Threads, Callback(t),
         sub_map_[Head(todo[t])][it[t]] \in disconnected
  PROVE  Delivery'
<1> DEFINE T == TagsAt(t)  k == Turn(t)  v == request[t].value  n == it[t]
           g == T[k]  q == sub_map_[g]
<1>1. pc[t] = "notify" /\ todo[t] # <<>>
  BY DEF Callback
<1>2. Walk(t) /\ Owing(t) /\ Told(t)
  BY DEF Delivery
<1>3. /\ v \in Values /\ T \in Seq(Tags) /\ Len(T) \in Nat
      /\ k \in Nat /\ k \in 1 .. Len(T) /\ n \in Nat /\ n >= 1
      /\ Head(todo[t]) = T[k] /\ T[k] \in Tags
  BY <1>1, <1>2, AtTurn
<1>4. /\ n <= Len(q) /\ q[n] \in disconnected
      /\ sub_map_' = [sub_map_ EXCEPT ![g] = RemoveAt(@, n)]
      /\ UNCHANGED <<pc, request, todo, it, disconnected, delivered, owed>>
  BY <1>3 DEF Callback
<1>5. /\ sub_map_ \in [Tags -> Seq(Subs)] /\ q \in Seq(Subs) /\ Len(q) \in Nat
      /\ n \in 1 .. Len(q)
  BY <1>3, <1>4 DEF TypeOK
<1>6. \A u \in Threads : u # t => pc[u] \in {"idle", "lock"}
  BY <1>1, OthersIdle
<1>7. TagsAt(t)' = T /\ Turn(t)' = k
  BY <1>4 DEF TagsAt, Turn
<1>8. /\ sub_map_'[g] = RemoveAt(q, n)
      /\ \A h \in Tags : h # g => sub_map_'[h] = sub_map_[h]
  BY <1>3, <1>4, <1>5
<1>9. /\ RemoveAt(q, n) \in Seq(Subs) /\ Len(RemoveAt(q, n)) = Len(q) - 1
      /\ \A j \in 1 .. Len(q) - 1 : RemoveAt(q, n)[j] = IF j < n THEN q[j] ELSE q[j + 1]
  <2> HIDE DEF q, n
  <2> QED
    BY <1>5, RemoveAtElements
<1>10. ASSUME NEW u \in Threads PROVE Walk(u)'
  BY <1>2, <1>4, <1>6, <1>7 DEF Walk
<1>11. ASSUME NEW s \in Subs \ disconnected
       PROVE  Cardinality(Left(t, s)') = Cardinality(Left(t, s))
  <2>1. Left(t, s) = Turns(sub_map_, T, k, n, s)
    BY DEF Left
  <2>2. Left(t, s)' = Turns(sub_map_', T, k, n, s)
    BY <1>4, <1>7 DEF Left
  <2>3. /\ n \in 1 .. Len(sub_map_[T[k]]) /\ sub_map_[T[k]][n] # s
        /\ sub_map_' \in [Tags -> Seq(Subs)]
        /\ sub_map_'[T[k]] = RemoveAt(sub_map_[T[k]], n)
        /\ \A h \in Tags : h # T[k] => sub_map_'[h] = sub_map_[h]
    BY <1>4, <1>5, <1>8, <1>9
  <2>4. /\ sub_map_ \in [Tags -> Seq(Subs)] /\ T \in Seq(Tags) /\ k \in 1 .. Len(T)
    BY <1>3, <1>5
  <2> HIDE DEF T, k, n
  <2>5. Cardinality(Turns(sub_map_', T, k, n, s)) = Cardinality(Turns(sub_map_, T, k, n, s))
    BY <2>3, <2>4, TurnsAfterErase
  <2> QED
    BY <2>1, <2>2, <2>5
<1>12. ASSUME NEW u \in Threads PROVE Owing(u)'
  <2>1. CASE u = t
    BY <1>1, <1>2, <1>4, <1>11, <2>1 DEF Owing
  <2>2. CASE u # t
    BY <1>4, <1>6, <2>2 DEF Owing
  <2> QED
    BY <2>1, <2>2
<1>13. \A s, w : Accepted(s, w)' = Accepted(s, w)
  BY <1>4 DEF Accepted
<1>14. ASSUME NEW u \in Threads PROVE Told(u)'
  <2>1. CASE u = t
    <3>1. ASSUME NEW i \in 1 .. Len(T), NEW j \in 1 .. Len(sub_map_'[T[i]]),
                 i < k \/ (i = k /\ j < n)
          PROVE  Accepted(sub_map_'[T[i]][j], v)
      <4>1. T[i] \in Tags /\ i \in Nat
        BY <1>3, ElementOfSeq
      <4>2. \A m \in 1 .. Len(sub_map_[T[i]]) :
              i < k \/ (i = k /\ m < n) => Accepted(sub_map_[T[i]][m], v)
        BY <1>1, <1>2 DEF Told
      <4>3. CASE T[i] # g
        BY <1>8, <3>1, <4>1, <4>2, <4>3
      <4>4. CASE T[i] = g
        <5>1. /\ \A m \in 1 .. Len(q) :
                   i < k \/ (i = k /\ m < n) => Accepted(q[m], v)
              /\ sub_map_'[T[i]] = RemoveAt(q, n) /\ j \in 1 .. Len(q) - 1
          BY <1>8, <1>9, <4>2, <4>4
        <5>2. CASE j < n
          BY <1>5, <1>9, <3>1, <5>1, <5>2
        <5>3. CASE ~(j < n)
          <6>1. j + 1 \in 1 .. Len(q) /\ i < k
            BY <1>5, <3>1, <5>1, <5>3
          <6>2. sub_map_'[T[i]][j] = q[j + 1]
            BY <1>9, <5>1, <5>3
          <6> QED
            BY <5>1, <6>1, <6>2
        <5> QED
          BY <5>2, <5>3
      <4> QED
        BY <4>3, <4>4
    <3>2. request'[t] = request[t] /\ it'[t] = n
      BY <1>4
    <3> HIDE DEF T, k, n
    <3> QED
      BY <1>7, <1>13, <2>1, <3>1, <3>2 DEF Told, v
  <2>2. CASE u # t
    BY <1>4, <1>6, <2>2 DEF Told
  <2> QED
    BY <2>1, <2>2
<1>15. Even' /\ Ordered' /\ AcceptedOrErased'
  BY <1>1, <1>4, <1>6 DEF Even, AcceptedOrErased, Delivery, Ordered
<1> QED
  BY <1>10, <1>12, <1>14, <1>15 DEF Delivery

-----------------------------------------------------------------------------
\* The invariant holds, and with it the two properties.

\* The store starts with nothing to deliver.
LEMMA DeliveryInit == Init => Delivery
<1> SUFFICES ASSUME Init PROVE Delivery
  OBVIOUS
<1>1. \A t \in Threads : pc[t] = "idle"
  BY DEF Init
<1>2. \A s \in Subs : delivered[s] = <<>> /\ owed[s] = <<>>
  BY DEF Init
<1>3. \A s \in Subs : IsPrefix(delivered[s], owed[s])
  <2>1. <<>> \in Seq(Values) /\ Len(<<>>) = 0
    BY EmptySeq
  <2>2. IsPrefix(<<>>, <<>>) <=>
          Len(<<>>) <= Len(<<>>) /\ \A i \in 1 .. Len(<<>>) : <<>>[i] = <<>>[i]
    BY <2>1, PrefixElements, Zenon
  <2> QED
    BY <1>2, <2>1, <2>2
<1> QED
  BY <1>1, <1>2, <1>3 DEF Delivery, Walk, Owing, Told, Even, Ordered, AcceptedOrErased

\* Every step keeps the invariant.
LEMMA DeliveryNext == Inv /\ Delivery /\ [Next]_vars => Delivery'
<1> SUFFICES ASSUME TypeOK, LockHeld, CallState, Delivery, [Next]_vars
             PROVE  Delivery'
  BY DEF Inv
<1>1. ASSUME NEW t \in Threads, Put(t) PROVE Delivery'
  BY <1>1, PutDelivery
<1>2. ASSUME NEW t \in Threads, NextTag(t) PROVE Delivery'
  BY <1>2, NextTagDelivery
<1>3. ASSUME NEW t \in Threads, Notified(t) PROVE Delivery'
  BY <1>3, NotifiedDelivery
<1>4. ASSUME NEW t \in Threads, Subscribe(t) PROVE Delivery'
  BY <1>4, SubscribeDelivery
<1>5. ASSUME NEW s \in Subs, Disconnect(s) PROVE Delivery'
  BY <1>5, DisconnectDelivery
<1>6. ASSUME NEW t \in Threads, Callback(t) PROVE Delivery'
  BY <1>6, AcceptDelivery, EraseDelivery
<1>7. ASSUME NEW t \in Threads, NEW r \in Requests, Invoke(t, r) PROVE Delivery'
  BY <1>7, DeliveryFrame DEF Invoke, TypeOK
<1>8. ASSUME NEW t \in Threads, Lock(t) PROVE Delivery'
  BY <1>8, DeliveryFrame DEF Lock, TypeOK
<1>9. ASSUME NEW t \in Threads, Return(t) PROVE Delivery'
  BY <1>9, DeliveryFrame DEF Return, TypeOK
<1>10. ASSUME NEW t \in Threads, NEW key \in Keys, CopyEntry(t, key) PROVE Delivery'
  BY <1>10, DeliveryFrame DEF CopyEntry
<1>11. ASSUME NEW t \in Threads, Get(t) \/ RemoveKey(t) \/ GetAllEntries(t)
       PROVE  Delivery'
  BY <1>11, DeliveryFrame DEF Get, RemoveKey, GetAllEntries, Answer, In, TypeOK
<1>12. ASSUME UNCHANGED vars PROVE Delivery'
  BY <1>12, DeliveryFrame DEF vars, subVars
<1> QED
  BY <1>1, <1>2, <1>3, <1>4, <1>5, <1>6, <1>7, <1>8, <1>9, <1>10, <1>11, <1>12
     DEF Next, Step

\* Every callback gets the values put while it was registered for one of their
\* tags, each as often as it was registered, in the order of the Puts, and one
\* that never fails has them all whenever no call is in progress: an erasure
\* during the loop at KeyValueStore.cpp:38-45 costs the others nothing.
THEOREM ValuesDelivered == Spec => []DeliveryExact
<1>1. Inv /\ Delivery => DeliveryExact
  <2> SUFFICES ASSUME TypeOK, LockHeld, Delivery PROVE DeliveryExact
    BY DEF Inv
  <2>1. lock_ = NoThread => \A t \in Threads : pc[t] # "notify"
    BY ConstantsAssumption DEF LockHeld
  <2> QED
    BY <2>1 DEF Delivery, Ordered, Even, DeliveryExact
<1> QED
  BY <1>1, InvInit, InvNext, DeliveryInit, DeliveryNext, PTL DEF Spec

\* Once a Put has notified, each callback registered for a tag of its value
\* has accepted the value: a callback that failed was erased
\* (KeyValueStore.cpp:40).
THEOREM FailedCallbacksErased == Spec => []AcceptedOrErased
<1>1. Delivery => AcceptedOrErased
  BY DEF Delivery
<1> QED
  BY <1>1, InvInit, InvNext, DeliveryInit, DeliveryNext, PTL DEF Spec
=============================================================================
