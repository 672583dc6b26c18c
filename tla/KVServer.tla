------------------------------- MODULE KVServer -------------------------------
(***************************************************************************)
(* src/key_value_store/server and kv_store.cpp: the life of the process    *)
(* that serves the store.  It loads the file given by --store when it      *)
(* starts, and saves to it only in the handler of SIGINT, which runs on    *)
(* top of whatever its thread was doing while the server threads go on.    *)
(*                                                                         *)
(* Put and Remove are the critical sections of KeyValueStore.tla; what     *)
(* matters here is who holds the lock of the store when the handler wants  *)
(* it.  A Put keeps it while it calls the subscribers (Notify), which ends *)
(* only if their streams take the caw: KeyValueStore.tla has the loop and  *)
(* StreamTag.tla the streams.  Get changes nothing and is left out.        *)
(***************************************************************************)
EXTENDS StoreOps, SequencesExt

CONSTANTS
  Threads,      \* threads of the gRPC server
  Main,         \* the thread in server->Wait()
  NoThread, NoRequest,
  Keys, Values,
  Works,        \* how a use of the file can turn out: {TRUE}, or BOOLEAN
  MaxCalls,     \* bound: calls in a behaviour
  MaxSignals,   \* bound: SIGINTs in one life of the process
  MaxKills,     \* bound: deaths of the process from outside (SIGKILL, power)
  MaxRuns       \* bound: lives of the process

Requests == [op : {"put"}, key : Keys, value : Values] \cup [op : {"remove"}, key : Keys]

ASSUME ServerAssumption ==
  /\ Main \notin Threads /\ NoThread \notin Threads
  /\ NoRequest \notin Requests
  /\ Works \subseteq BOOLEAN
  /\ {MaxCalls, MaxSignals, MaxKills, MaxRuns} \subseteq Nat

VARIABLES
  phase,      \* the process: down, starting (main has no service yet) or up
  kv_store_, lock_,
  freed,      \* the service object was deleted
  pc, request,
  handler,    \* the step of SignalHandler each thread is in, or "none"
  allPairs,   \* the handlers' copies of the store
  file,       \* what loading the file would yield; empty when it does not exist
  signals, calls, kills, runs,
  seen,       \* history: what the file may hold when this life ends
  torn        \* history: this life stopped or failed inside a save

bounds == <<signals, calls, kills, runs>>
vars == <<phase, kv_store_, lock_, freed, pc, request, handler, allPairs, file,
          bounds, seen, torn>>

Hosts == Threads \cup {Main}

Init ==
  /\ phase = "down"
  /\ kv_store_ = EmptyStore
  /\ lock_ = NoThread
  /\ freed = FALSE
  /\ pc = [t \in Threads |-> "idle"]
  /\ request = [t \in Threads |-> NoRequest]
  /\ handler = [h \in Hosts |-> "none"]
  /\ allPairs = [h \in Hosts |-> EmptyStore]
  /\ file = EmptyStore
  /\ signals = 0 /\ calls = 0 /\ kills = 0 /\ runs = 0
  /\ seen = {EmptyStore}
  /\ torn = FALSE

-----------------------------------------------------------------------------
\* The operating system starts the process.
Start ==
  /\ phase = "down"
  /\ runs < MaxRuns
  /\ runs' = runs + 1
  /\ phase' = "starting"
  /\ signals' = 0
  /\ seen' = {file}
  /\ torn' = FALSE
  /\ UNCHANGED <<kv_store_, lock_, freed, pc, request, handler, allPairs, file,
                 calls, kills>>

\* What is read back from the beginning of a file: some pairs, and the first
\* values of another one.
Torn(s) ==
  LET Whole == {[k \in D |-> s[k]] : D \in SUBSET DOMAIN s}
      Cut(w, x) == {LoadInto(w, [k \in {x} |-> p]) : p \in Prefixes(s[x])}
  IN Whole \cup UNION {UNION {Cut(w, x) : x \in DOMAIN s \ DOMAIN w} : w \in Whole}

\* service = new KeyValueStoreImpl(FLAGS_store), which loads the file; then
\* BuildAndStart.  A file that cannot be opened or read to its end is loaded as
\* far as it can, and nobody is told.
Load ==
  /\ phase = "starting"
  /\ handler[Main] = "none"
  /\ phase' = "up"
  /\ \E readable \in Works :
       \/ readable /\ kv_store_' = LoadInto(EmptyStore, file)
       \/ ~readable /\ kv_store_' \in Torn(file)
  /\ UNCHANGED <<lock_, freed, pc, request, handler, allPairs, file, bounds,
                 seen, torn>>

\* The process ends, and with it everything in memory.
End ==
  /\ phase' = "down"
  /\ kv_store_' = EmptyStore
  /\ lock_' = NoThread
  /\ freed' = FALSE
  /\ pc' = [t \in Threads |-> "idle"]
  /\ request' = [t \in Threads |-> NoRequest]
  /\ handler' = [h \in Hosts |-> "none"]
  /\ allPairs' = [h \in Hosts |-> EmptyStore]

-----------------------------------------------------------------------------
\* A server thread runs its own code unless a signal handler runs on it.
At(t, label) == pc[t] = label /\ handler[t] = "none"

\* The handlers that have truncated the file and not yet written it.
InSave == {h \in Hosts : handler[h] \in {"collect", "write"}}

\* The file is truncated and a copy of the store not yet taken.
Saving == \E h \in Hosts : handler[h] = "collect"

Invoke(t, r) ==
  /\ phase = "up" /\ At(t, "idle")
  /\ calls < MaxCalls
  /\ calls' = calls + 1
  /\ pc' = [pc EXCEPT ![t] = "lock"]
  /\ request' = [request EXCEPT ![t] = r]
  /\ UNCHANGED <<phase, kv_store_, lock_, freed, handler, allPairs, file, signals,
                 kills, runs, seen, torn>>

Lock(t) ==
  /\ At(t, "lock")
  /\ lock_ = NoThread
  /\ lock_' = t
  /\ pc' = [pc EXCEPT ![t] = "body"]
  /\ UNCHANGED <<phase, kv_store_, freed, request, handler, allPairs, file, bounds, seen, torn>>

\* KeyValueStore::Put up to its callbacks, or the whole of Remove.
Apply(t) ==
  /\ At(t, "body")
  /\ LET r == request[t]
     IN \/ /\ r.op = "put"
           /\ kv_store_' = PutInto(kv_store_, r.key, r.value)
           /\ pc' = [pc EXCEPT ![t] = "notify"]
           /\ UNCHANGED lock_
        \/ /\ r.op = "remove"
           /\ kv_store_' = EraseFrom(kv_store_, r.key)
           /\ pc' = [pc EXCEPT ![t] = "answer"]
           /\ lock_' = NoThread
  /\ seen' = IF Saving THEN seen \cup {kv_store_'} ELSE seen
  /\ UNCHANGED <<phase, freed, request, handler, allPairs, file, bounds, torn>>

\* Mutant: the Put returns without releasing the mutex.
Notify_Locked(t) ==
  /\ At(t, "notify")
  /\ pc' = [pc EXCEPT ![t] = "answer"]
  /\ UNCHANGED <<phase, kv_store_, lock_, freed, request, handler, allPairs, file, bounds,
                 seen, torn>>

\* The last callback of a Put has returned, and its lock_guard goes.
Notify(t) ==
  /\ At(t, "notify")
  /\ lock_' = NoThread
  /\ pc' = [pc EXCEPT ![t] = "answer"]
  /\ UNCHANGED <<phase, kv_store_, freed, request, handler, allPairs, file, bounds,
                 seen, torn>>

\* The client gets the status.
Answer(t) ==
  /\ At(t, "answer")
  /\ pc' = [pc EXCEPT ![t] = "idle"]
  /\ request' = [request EXCEPT ![t] = NoRequest]
  /\ UNCHANGED <<phase, kv_store_, lock_, freed, handler, allPairs, file, bounds, seen, torn>>

-----------------------------------------------------------------------------
\* SIGINT is handled by the main thread; while that one is in the handler,
\* which blocks SIGINT there, by any other thread.
Takes(h) == handler[h] = "none" /\ (h = Main \/ handler[Main] # "none")

\* Mutant: service is set before its constructor has loaded the file.
Sigint_Early(h) ==
  /\ phase # "down"
  /\ Takes(h)
  /\ signals < MaxSignals
  /\ signals' = signals + 1
  /\ handler' = [handler EXCEPT ![h] = "open"]
  /\ UNCHANGED <<phase, kv_store_, lock_, freed, pc, request, allPairs, file, calls,
                 kills, runs, seen, torn>>

\* Before the service exists, delete of a null pointer does nothing.
Sigint(h) ==
  /\ phase # "down"
  /\ Takes(h)
  /\ signals < MaxSignals
  /\ signals' = signals + 1
  /\ handler' = [handler EXCEPT ![h] = IF phase = "up" THEN "open" ELSE "exit"]
  /\ UNCHANGED <<phase, kv_store_, lock_, freed, pc, request, allPairs, file, calls,
                 kills, runs, seen, torn>>

Goto(h, label) ==
  /\ handler' = [handler EXCEPT ![h] = label]
  /\ UNCHANGED <<phase, kv_store_, lock_, pc, request, bounds>>

\* std::ofstream ofile(filename_) truncates the file, or fails to open it.  On a
\* service deleted by another handler anything may come of it.
Open(h) ==
  /\ handler[h] = "open"
  /\ \E opened \in Works :
       \/ /\ opened
          /\ file' = EmptyStore
          /\ seen' = {IF phase = "up" THEN kv_store_ ELSE file}
                     \cup (IF InSave # {} THEN seen ELSE {})
          /\ torn' = (torn \/ freed)
          /\ Goto(h, "collect")
       \/ /\ ~opened
          /\ Goto(h, "free")
          /\ UNCHANGED <<file, seen, torn>>
  /\ UNCHANGED <<freed, allPairs>>

\* Mutant: the copy does not release the lock.
Collect_Locked(h) ==
  /\ handler[h] = "collect"
  /\ lock_ = NoThread
  /\ lock_' = h
  /\ allPairs' = [allPairs EXCEPT ![h] = kv_store_]
  /\ handler' = [handler EXCEPT ![h] = "write"]
  /\ UNCHANGED <<phase, kv_store_, pc, request, bounds, freed, file, seen, torn>>

\* store_.GetAllEntries() takes the lock of the store; of a deleted store it may
\* find nothing.
Collect(h) ==
  /\ handler[h] = "collect"
  /\ lock_ = NoThread
  /\ \E s \in {kv_store_} \cup (IF freed THEN {EmptyStore} ELSE {}) :
       allPairs' = [allPairs EXCEPT ![h] = s]
  /\ torn' = (torn \/ freed)
  /\ Goto(h, "write")
  /\ UNCHANGED <<freed, file, seen>>

\* What the file holds when f is written from its beginning: where another
\* handler has written since the truncation, pairs of its longer file may remain.
Over(f) == {LoadInto(f, [k \in D |-> file[k]]) : D \in SUBSET DOMAIN file}

\* The same, when only the beginning of what handler h has to write got there.
Part(h) == UNION {Over(f) : f \in Torn(allPairs[h])}

\* SerializeToOstream, flush and close; a failure goes unnoticed.
Write(h) ==
  /\ handler[h] = "write"
  /\ \E written \in Works :
       \/ /\ written
          /\ file' \in Over(allPairs[h])
          /\ torn' = (torn \/ file' # allPairs[h])
       \/ /\ ~written
          /\ file' \in Part(h)
          /\ torn' = TRUE
  /\ Goto(h, "free")
  /\ UNCHANGED <<freed, allPairs, seen>>

Free(h) ==
  /\ handler[h] = "free"
  /\ freed' = TRUE
  /\ Goto(h, "exit")
  /\ UNCHANGED <<allPairs, file, seen, torn>>

\* The process stops, whatever its threads and its handlers are doing: a save
\* that has not ended leaves the file truncated or in part written.
Stop ==
  /\ End
  /\ \/ UNCHANGED file
     \/ \E h \in InSave : handler[h] = "write" /\ file' \in Part(h)
  /\ torn' = (torn \/ InSave # {})
  /\ UNCHANGED <<signals, calls, runs, seen>>

Exit(h) ==
  /\ handler[h] = "exit"
  /\ Stop
  /\ UNCHANGED kills

\* A thread that still uses the deleted service may go on as if nothing had
\* happened (the actions above), or bring the process down.
UseAfterFree(h) ==
  /\ freed
  /\ \/ handler[h] \in {"open", "collect", "write", "free"}
     \/ h \in Threads /\ handler[h] = "none" /\ pc[h] \in {"lock", "body", "notify"}
  /\ Stop
  /\ UNCHANGED kills

Kill ==
  /\ phase # "down"
  /\ kills < MaxKills
  /\ kills' = kills + 1
  /\ Stop

-----------------------------------------------------------------------------
Serve(t) == Lock(t) \/ Apply(t) \/ Answer(t)
Handle(h) == Open(h) \/ Collect(h) \/ Write(h) \/ Free(h) \/ Exit(h)

Next == \/ Start \/ Load \/ Kill
        \/ \E t \in Threads : Serve(t) \/ Notify(t) \/ \E r \in Requests : Invoke(t, r)
        \/ \E h \in Hosts : Sigint(h) \/ Handle(h) \/ UseAfterFree(h)

Spec == Init /\ [][Next]_vars

\* Every thread that can run runs, in its own code and in the handler.  A
\* callback is different: Write returns when the stream takes the caw, which is
\* up to its reader, so nothing says that Notify comes.
FairSpec == /\ Spec
            /\ \A t \in Threads : WF_vars(Serve(t))
            /\ \A h \in Hosts : WF_vars(Handle(h))

\* The same where every callback returns.
PromptSpec == FairSpec /\ \A t \in Threads : WF_vars(Notify(t))

-----------------------------------------------------------------------------
\* Every variable has its type.
TypeOK ==
  LET IsMap(f) == DOMAIN f \subseteq Keys /\ \A k \in DOMAIN f : f[k] \in Seq(Values)
  IN /\ phase \in {"down", "starting", "up"}
     /\ IsMap(kv_store_) /\ IsMap(file)
     /\ lock_ \in Threads \cup {NoThread}
     /\ freed \in BOOLEAN /\ torn \in BOOLEAN
     /\ pc \in [Threads -> {"idle", "lock", "body", "notify", "answer"}]
     /\ request \in [Threads -> Requests \cup {NoRequest}]
     /\ handler \in [Hosts -> {"none", "open", "collect", "write", "free", "exit"}]
     /\ DOMAIN allPairs = Hosts /\ \A h \in Hosts : IsMap(allPairs[h])

\* When the process is down, the file holds the store as it was at some moment
\* of the save, with every call applied before the save began; or, if nothing was
\* saved because there was no SIGINT, or it came before the file was loaded, or
\* the file could not be opened, what it held before.  A save that failed or that
\* the process did not live to end, or two at once, are the exception; but even
\* then, after one SIGINT, the file holds nothing that is not of one such store:
\* every list in it is the beginning of that key's list there
\* (storeDataToFile, kvstore_server.cpp:72-118; "writing all data to disk",
\* kv_store.cpp:21).
FileIsASnapshot ==
  phase = "down" =>
    /\ torn \/ file \in seen
    /\ signals <= 1 =>
         \E s \in seen : \A k \in DOMAIN file : k \in DOMAIN s /\ IsPrefix(file[k], s[k])

\* A single SIGINT makes the process exit, whatever calls it interrupts or meets,
\* provided that no callback keeps a Put for ever (kv_store.cpp:17-25; the handler
\* waits for the lock in GetAllEntries, kvstore_server.cpp:91).
ExitsIfCallbacksReturn ==
  (\A t \in Threads : []<>(~At(t, "notify")))
    => ((\E h \in Hosts : handler[h] # "none") ~> (phase = "down" \/ signals > 1))

\* After a SIGINT the process "then exits" (kv_store.cpp:22).
ExitsAfterSignal == (\E h \in Hosts : handler[h] # "none") ~> phase = "down"

=============================================================================
