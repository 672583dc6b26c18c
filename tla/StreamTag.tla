------------------------------ MODULE StreamTag ------------------------------
(***************************************************************************)
(* `caw --stream <hashtag>` from end to end.  Each stream has three        *)
(* threads, in three processes:                                            *)
(*                                                                         *)
(*   client  CawClient::StreamHashtag and FazClient::StreamEvent           *)
(*   faz     FazServiceImpl::streamEvent, StreamTag and the streaming Get  *)
(*           of KeyValueStoreClient, which runs StreamTag's callback       *)
(*   store   KeyValueStoreImpl::get, which subscribes the stream           *)
(*                                                                         *)
(* and a gRPC stream between each two of them.  A Put of a tagged value    *)
(* writes to the streams subscribed to its tag, under the mutex of the     *)
(* store.  Write on a stream blocks while the stream holds Window messages *)
(* that were not read (flow control), and fails when the stream is broken. *)
(*                                                                         *)
(* A value may hold several tags, and one of them more than once; each     *)
(* occurrence calls the subscribers of its tag once.                       *)
(***************************************************************************)
EXTENDS Naturals, FiniteSets, SequencesExt

CONSTANTS
  Streams,     \* runs of `caw --stream`
  Tags, Values,
  Hashtag,     \* Hashtag[s]: the tag stream s asks for
  TagsOf,      \* TagsOf[v]: the tags the regular expression finds in v, in order
  NoValue,     \* marker: no Put is under way
  Window,      \* messages a stream takes before Write blocks
  MaxPuts,     \* bound: Puts in a behaviour
  MaxDeaths    \* bound: deaths of the Faz or the store process

ASSUME StreamAssumption ==
  /\ Hashtag \in [Streams -> Tags]
  /\ TagsOf \in [Values -> Seq(Tags)]
  /\ NoValue \notin Values
  /\ {Window, MaxPuts, MaxDeaths} \subseteq Nat

VARIABLES
  client,      \* the client process of each stream
  faz,         \* its Faz thread
  store,       \* its thread in the store
  toClient,    \* messages on the stream from Faz to the client
  response,    \* the message the Faz thread holds: none or one
  fromStore,   \* messages on the stream from the store to Faz
  cut,         \* the streams whose call from Faz to the store has broken
  sub_map_,
  putting,     \* the value of the Put that holds lock_, or NoValue
  tag,         \* that Put's place in TagsOf[putting]
  it,          \* its iterator into the subscribers of that tag
  owed,        \* history: what was put for each stream while it was subscribed
  received,    \* history: what the callback of the client was called with
  puts, deaths

storeVars == <<store, sub_map_, putting, tag, it>>
hops == <<toClient, response, fromStore>>
vars == <<client, faz, hops, cut, storeVars, owed, received, puts, deaths>>

NothingYet == [s \in Streams |-> <<>>]

Init ==
  /\ client = [s \in Streams |-> "idle"]
  /\ faz = [s \in Streams |-> "none"]
  /\ store = [s \in Streams |-> "none"]
  /\ toClient = NothingYet /\ response = NothingYet /\ fromStore = NothingYet
  /\ cut = {}
  /\ sub_map_ = [g \in Tags |-> <<>>]
  /\ putting = NoValue
  /\ tag = 1
  /\ it = 1
  /\ owed = NothingYet /\ received = NothingYet
  /\ puts = 0 /\ deaths = 0

-----------------------------------------------------------------------------
\* The client process.

\* stub_->streamEvent; the event type is hooked (otherwise the answer is
\* NOT_FOUND and there is no stream, see FazServer.tla).
StreamEvent(s) ==
  /\ client[s] = "idle"
  /\ client' = [client EXCEPT ![s] = "reading"]
  /\ faz' = [faz EXCEPT ![s] = "subscribe"]
  /\ UNCHANGED <<hops, cut, storeVars, owed, received, puts, deaths>>

\* while (reader->Read(&reply)) callback(reply)
Client_Read(s) ==
  /\ client[s] = "reading"
  /\ toClient[s] # <<>>
  /\ received' = [received EXCEPT ![s] = Append(@, Head(toClient[s]))]
  /\ toClient' = [toClient EXCEPT ![s] = Tail(@)]
  /\ UNCHANGED <<client, faz, response, fromStore, cut, storeVars, owed, puts, deaths>>

\* Read fails: the handler has returned and everything was read, or Faz is
\* gone, and what it wrote last may be lost.  Finish has a status that is not OK.
Client_Finish(s) ==
  /\ client[s] = "reading"
  /\ \/ faz[s] = "returned" /\ toClient[s] = <<>>
     \/ faz[s] = "dead"
  /\ client' = [client EXCEPT ![s] = "done"]
  /\ toClient' = [toClient EXCEPT ![s] = <<>>]
  /\ UNCHANGED <<faz, response, fromStore, cut, storeVars, owed, received, puts, deaths>>

\* The user stops the client, the only way to end a stream; the step is the
\* moment Faz's end of the stream notices.
Client_Leave(s) ==
  /\ client[s] = "reading"
  /\ client' = [client EXCEPT ![s] = "left"]
  /\ toClient' = [toClient EXCEPT ![s] = <<>>]
  /\ UNCHANGED <<faz, response, fromStore, cut, storeVars, owed, received, puts, deaths>>

-----------------------------------------------------------------------------
\* The Faz thread.

\* stub_->get with request-type "stream", Write(request), WritesDone.
Faz_Get(s) ==
  /\ faz[s] = "subscribe"
  /\ faz' = [faz EXCEPT ![s] = "read"]
  /\ store' = [store EXCEPT ![s] = "lock"]
  /\ UNCHANGED <<client, hops, cut, sub_map_, putting, tag, it, owed, received, puts, deaths>>

\* Mutant: a Read that fails is tried again.
Faz_Read_Again(s) ==
  /\ faz[s] = "read"
  /\ fromStore[s] # <<>>
  /\ response' = [response EXCEPT ![s] = <<Head(fromStore[s])>>]
  /\ fromStore' = [fromStore EXCEPT ![s] = Tail(@)]
  /\ faz' = [faz EXCEPT ![s] = "write"]
  /\ UNCHANGED <<client, toClient, cut, storeVars, owed, received, puts, deaths>>

\* Read, at the head of the loop; on a broken call it may fail before all
\* messages are read.
Faz_Read(s) ==
  /\ faz[s] = "read"
  /\ \/ /\ fromStore[s] # <<>>
        /\ response' = [response EXCEPT ![s] = <<Head(fromStore[s])>>]
        /\ fromStore' = [fromStore EXCEPT ![s] = Tail(@)]
        /\ faz' = [faz EXCEPT ![s] = "write"]
     \/ /\ s \in cut
        /\ fromStore' = [fromStore EXCEPT ![s] = <<>>]
        /\ faz' = [faz EXCEPT ![s] = "finish"]
        /\ UNCHANGED response
  /\ UNCHANGED <<client, toClient, cut, storeVars, owed, received, puts, deaths>>

\* Mutant: the loop ends when the callback returns true.
Faz_Write_Inverted(s) ==
  /\ faz[s] = "write"
  /\ \/ /\ client[s] = "reading"
        /\ Len(toClient[s]) < Window
        /\ toClient' = [toClient EXCEPT ![s] = @ \o response[s]]
        /\ faz' = [faz EXCEPT ![s] = "read_last"]
     \/ /\ client[s] # "reading"
        /\ UNCHANGED toClient
        /\ faz' = [faz EXCEPT ![s] = "read"]
  /\ response' = [response EXCEPT ![s] = <<>>]
  /\ UNCHANGED <<client, fromStore, cut, storeVars, owed, received, puts, deaths>>

\* The callback: tag_callback of StreamTag, stream_writer_function of
\* streamEvent, response->Write.  If it returns false the loop condition is
\* evaluated once more, and it reads before it looks.
Faz_Write(s) ==
  /\ faz[s] = "write"
  /\ \/ /\ client[s] = "reading"
        /\ Len(toClient[s]) < Window
        /\ toClient' = [toClient EXCEPT ![s] = @ \o response[s]]
        /\ faz' = [faz EXCEPT ![s] = "read"]
     \/ /\ client[s] # "reading"
        /\ UNCHANGED toClient
        /\ faz' = [faz EXCEPT ![s] = "read_last"]
  /\ response' = [response EXCEPT ![s] = <<>>]
  /\ UNCHANGED <<client, fromStore, cut, storeVars, owed, received, puts, deaths>>

Faz_ReadLast(s) ==
  /\ faz[s] = "read_last"
  /\ \/ fromStore[s] # <<>> /\ fromStore' = [fromStore EXCEPT ![s] = Tail(@)]
     \/ s \in cut /\ fromStore' = [fromStore EXCEPT ![s] = <<>>]
  /\ faz' = [faz EXCEPT ![s] = "finish"]
  /\ UNCHANGED <<client, toClient, response, cut, storeVars, owed, received, puts, deaths>>

\* stream->Finish() waits for the status of the call.  The store's thread
\* never sends one, so only a broken call ends the wait; then StreamTag
\* returns INTERNAL, and so does streamEvent.
Faz_Finish(s) ==
  /\ faz[s] = "finish"
  /\ s \in cut
  /\ faz' = [faz EXCEPT ![s] = "returned"]
  /\ UNCHANGED <<client, hops, cut, storeVars, owed, received, puts, deaths>>

-----------------------------------------------------------------------------
\* The store.

\* Mutant: a subscriber takes the place of the one before.
Store_Get_Replaces(s) ==
  /\ store[s] = "lock"
  /\ putting = NoValue
  /\ sub_map_' = [sub_map_ EXCEPT ![Hashtag[s]] = <<s>>]
  /\ store' = [store EXCEPT ![s] = "spin"]
  /\ UNCHANGED <<client, faz, hops, cut, putting, tag, it, owed, received, puts, deaths>>

\* Mutant: Get(tag, callback) takes no mutex.
Store_Get_Unlocked(s) ==
  /\ store[s] = "lock"
  /\ sub_map_' = [sub_map_ EXCEPT ![Hashtag[s]] = Append(@, s)]
  /\ store' = [store EXCEPT ![s] = "spin"]
  /\ UNCHANGED <<client, faz, hops, cut, putting, tag, it, owed, received, puts, deaths>>

\* store_.Get(tag, callback) takes the mutex; then the thread spins in
\* while (true), which no step leaves, and its stream stays open.
Store_Get(s) ==
  /\ store[s] = "lock"
  /\ putting = NoValue
  /\ sub_map_' = [sub_map_ EXCEPT ![Hashtag[s]] = Append(@, s)]
  /\ store' = [store EXCEPT ![s] = "spin"]
  /\ UNCHANGED <<client, faz, hops, cut, putting, tag, it, owed, received, puts, deaths>>

\* The subscribers of a tag.
Row(g) == ToSet(sub_map_[g])

\* A value as often as there are places in P.
Copies(v, P) == [n \in 1 .. Cardinality(P) |-> v]

\* The places of v's tags that call s back, if no callback is erased before.
Places(v, s) == {i \in DOMAIN TagsOf[v] : s \in Row(TagsOf[v][i])}

\* A Put takes the mutex, stores the value and starts with its first tag.
Store_Put(v) ==
  /\ putting = NoValue
  /\ puts < MaxPuts
  /\ puts' = puts + 1
  /\ putting' = v
  /\ tag' = 1
  /\ it' = 1
  /\ owed' = [s \in Streams |-> owed[s] \o Copies(v, Places(v, s))]
  /\ UNCHANGED <<client, faz, hops, cut, store, sub_map_, received, deaths>>

\* A Put is at one of its tags.
AtTag == putting # NoValue /\ tag <= Len(TagsOf[putting])

\* Mutant: Write never waits.
Store_Callback_Unbounded ==
  /\ AtTag
  /\ LET g == TagsOf[putting][tag]
         s == sub_map_[g][it]
     IN /\ it <= Len(sub_map_[g])
        /\ \/ /\ s \in cut
              /\ sub_map_' = [sub_map_ EXCEPT ![g] = RemoveAt(@, it)]
              /\ UNCHANGED <<it, fromStore>>
           \/ /\ s \notin cut
              /\ fromStore' = [fromStore EXCEPT ![s] = Append(@, putting)]
              /\ it' = it + 1
              /\ UNCHANGED sub_map_
  /\ UNCHANGED <<client, faz, toClient, response, cut, store, putting, tag, owed, received, puts, deaths>>

\* One turn of the loop over the callbacks: stream->Write, and erase the
\* callback if it fails.  With the stream full there is no step: the Put
\* waits, and it waits with the mutex.
Store_Callback ==
  /\ AtTag
  /\ LET g == TagsOf[putting][tag]
         s == sub_map_[g][it]
     IN /\ it <= Len(sub_map_[g])
        /\ \/ /\ s \in cut
              /\ sub_map_' = [sub_map_ EXCEPT ![g] = RemoveAt(@, it)]
              /\ UNCHANGED <<it, fromStore>>
           \/ /\ s \notin cut
              /\ Len(fromStore[s]) < Window
              /\ fromStore' = [fromStore EXCEPT ![s] = Append(@, putting)]
              /\ it' = it + 1
              /\ UNCHANGED sub_map_
  /\ UNCHANGED <<client, faz, toClient, response, cut, store, putting, tag, owed, received, puts, deaths>>

\* Mutant: a tag that was there before is passed over.
Store_NextTag_Once ==
  /\ AtTag
  /\ it > Len(sub_map_[TagsOf[putting][tag]])
  /\ tag' = IF /\ tag + 1 \in DOMAIN TagsOf[putting]
               /\ TagsOf[putting][tag + 1] = TagsOf[putting][tag]
              THEN tag + 2 ELSE tag + 1
  /\ it' = 1
  /\ UNCHANGED <<client, faz, hops, cut, store, sub_map_, putting, owed, received, puts, deaths>>

\* The end of a tag's callbacks: the next tag, which may be the same one.
Store_NextTag ==
  /\ AtTag
  /\ it > Len(sub_map_[TagsOf[putting][tag]])
  /\ tag' = tag + 1
  /\ it' = 1
  /\ UNCHANGED <<client, faz, hops, cut, store, sub_map_, putting, owed, received, puts, deaths>>

Store_PutReturns ==
  /\ putting # NoValue
  /\ tag > Len(TagsOf[putting])
  /\ putting' = NoValue
  /\ UNCHANGED <<client, faz, hops, cut, store, sub_map_, tag, it, owed, received, puts, deaths>>

-----------------------------------------------------------------------------
\* Deaths.  Both processes are started again at once; the streams that were
\* there are not.

InStore == {s \in Streams : store[s] \in {"lock", "spin"}}

\* The calls from Faz to the store break.  The store's threads spin on, and a
\* subscription whose request has arrived is made all the same.
Faz_Dies ==
  /\ deaths < MaxDeaths
  /\ deaths' = deaths + 1
  /\ faz' = [s \in Streams |-> IF faz[s] \in {"none", "returned"} THEN faz[s] ELSE "dead"]
  /\ response' = NothingYet
  /\ fromStore' = NothingYet
  /\ cut' = cut \cup InStore
  /\ UNCHANGED <<client, toClient, storeVars, owed, received, puts>>

\* sub_map_ is lost, and so is a Put under way.
Store_Dies ==
  /\ deaths < MaxDeaths
  /\ deaths' = deaths + 1
  /\ store' = [s \in Streams |-> IF s \in InStore THEN "gone" ELSE store[s]]
  /\ cut' = cut \cup InStore
  /\ sub_map_' = [g \in Tags |-> <<>>]
  /\ putting' = NoValue
  /\ tag' = 1
  /\ it' = 1
  /\ UNCHANGED <<client, faz, hops, owed, received, puts>>

-----------------------------------------------------------------------------
Client(s) == Client_Read(s) \/ Client_Finish(s)
Faz(s) == Faz_Get(s) \/ Faz_Read(s) \/ Faz_Write(s) \/ Faz_ReadLast(s) \/ Faz_Finish(s)
Notify == Store_Callback \/ Store_NextTag \/ Store_PutReturns

Next == \/ \E s \in Streams : \/ StreamEvent(s) \/ Client(s) \/ Client_Leave(s)
                              \/ Faz(s) \/ Store_Get(s)
        \/ \E v \in Values : Store_Put(v)
        \/ Notify \/ Faz_Dies \/ Store_Dies

Spec == Init /\ [][Next]_vars

\* Every thread that can run runs, and a client that has not left reads.  A
\* thread waiting for the mutex needs no strong fairness: Puts are bounded.
FairSpec == /\ Spec
            /\ \A s \in Streams : /\ WF_vars(Client(s))
                                  /\ WF_vars(Faz(s))
                                  /\ WF_vars(Store_Get(s))
            /\ WF_vars(Notify)

-----------------------------------------------------------------------------
\* Every variable has its type; no stream holds more than Window messages.
TypeOK ==
  LET Stream == {q \in Seq(Values) : Len(q) <= Window}
  IN /\ client \in [Streams -> {"idle", "reading", "left", "done"}]
     /\ faz \in [Streams -> {"none", "subscribe", "read", "write", "read_last",
                             "finish", "returned", "dead"}]
     /\ store \in [Streams -> {"none", "lock", "spin", "gone"}]
     /\ DOMAIN toClient = Streams /\ \A s \in Streams : toClient[s] \in Stream
     /\ DOMAIN fromStore = Streams /\ \A s \in Streams : fromStore[s] \in Stream
     /\ response \in [Streams -> {<<>>} \cup {<<v>> : v \in Values}]
     /\ cut \subseteq Streams
     /\ sub_map_ \in [Tags -> Seq(Streams)]
     /\ putting \in Values \cup {NoValue}
     /\ tag \in Nat \ {0} /\ it \in Nat \ {0}
     /\ owed \in [Streams -> Seq(Values)]
     /\ received \in [Streams -> Seq(Values)]
     /\ puts \in Nat /\ deaths \in Nat

\* What is on its way to the user of s, the next message first.
Transit(s) == toClient[s] \o response[s] \o fromStore[s]

\* No process or stream on the way of s has failed so far.
Whole(s) == /\ client[s] = "reading" /\ s \notin cut
            /\ faz[s] \in {"subscribe", "read", "write"}

\* The turns of the running Put's loops that have yet to come to s, by tag.
Turns(s) ==
  IF putting = NoValue THEN {}
    ELSE {i \in tag .. Len(TagsOf[putting]) :
            \E j \in (IF i = tag THEN it ELSE 1) .. Len(sub_map_[TagsOf[putting][i]]) :
              sub_map_[TagsOf[putting][i]][j] = s}

\* What the running Put has yet to write for s.
Due(s) == Copies(putting, Turns(s))

\* The two streams and the threads between are one FIFO: what the user got is
\* always a prefix of what was put while the stream was subscribed, and while
\* nothing on the way has failed the rest is exactly what is in transit or due
\* (the read and write loops of kvstore_client.cpp:71, faz_server.cpp:76-80,
\* faz_client.cpp:40 and KeyValueStore.cpp:38-45).
NothingLost ==
  \A s \in Streams :
    /\ IsPrefix(received[s] \o toClient[s], owed[s])
    /\ Whole(s) => received[s] \o Transit(s) \o Due(s) = owed[s]

\* A stream never falls silent: a client that waits for messages while its Faz
\* thread waits for the store is subscribed (or about to be), or the call has
\* broken, so that Read fails.  No loop over the callbacks may drop the
\* subscription of a stream that is alive (KeyValueStore.cpp:39-41).
NoSilentStream ==
  \A s \in Streams :
    faz[s] \in {"read", "write"} /\ s \notin cut =>
      \/ store[s] = "lock"
      \/ store[s] = "spin" /\ s \in ToSet(sub_map_[Hashtag[s]])

\* The pipeline implements the promise of TagFeed: a subscription is made once
\* and ends only after the stream to it broke, and until then a value is owed
\* once for each time its tag occurs in it.
Subscription ==
  [s \in Streams |-> IF store[s] \in {"none", "lock"} THEN "new"
                      ELSE IF s \in Row(Hashtag[s]) THEN "on" ELSE "over"]

Occurrences ==
  [s \in Streams |-> [v \in Values |->
     Cardinality({i \in DOMAIN TagsOf[v] : TagsOf[v][i] = Hashtag[s]})]]

Feed == INSTANCE TagFeed WITH subscription <- Subscription, broken <- cut
IsAFeed == Feed!Spec

\* Someone left, or a process died.
Disturbed == deaths > 0 \/ \E s \in Streams : client[s] = "left"

\* Until the first client leaves or process dies, every value put for a
\* subscribed stream reaches its user, however short the streams are and
\* although Put writes to them with the mutex held: "every new Caw created
\* that contains the given hashtag will be returned if it is while the user is
\* streaming" (caw_client.h:83-85).
AllDelivered == []<>(received = owed \/ Disturbed)

\* A client does not wait for ever for a process that died: it "returns if
\* error on the backend" (caw_client.h:86).
ErrorReported ==
  \A s \in Streams :
    (client[s] = "reading" /\ (s \in cut \/ faz[s] = "dead")) ~> client[s] # "reading"

\* Every Put returns, and with it gives up the mutex of the store ("Returns:
\* boolean indicating success/failure", KeyValueStore.h:26-29).
PutReturns == putting # NoValue ~> putting = NoValue
=============================================================================
