# TLA+ specification of Caw, Faz and the key-value store

Caw is a small Twitter: a command-line client sends events to **Faz**, a
function-as-a-service server, which runs one of the *caw functions* for each of
them; the functions keep all their data in a **key-value store**, another
server. The specification follows the three layers. Everything below names
files relative to the root of the repository.

## 1. Inventory

| Component | State | Operations | Talks to | What is hard |
|---|---|---|---|---|
| Store core, `src/key_value_store/core` | `kv_store_` (key to list of values), `sub_map_` (tag to list of callbacks), `lock_` | `Put`, `Get(key)`, `Get(tag, callback)`, `Remove`, `GetAllEntries`, `LoadAllEntries` | callbacks, called under `lock_` by `Put` | threads; a loop that erases from the vector it walks; callbacks that fail |
| Store server, `src/key_value_store/server`, `kv_store.cpp` | `filename_`, the file, the process | `put`, `get`, `remove`, load, save, `SignalHandler` | the core; the operating system | a handler on top of running threads; save, kill and restart; opening truncates |
| Store client, `src/key_value_store/client` | none | the same calls, remote | store server | calls that fail; a `Get` that loses its tail |
| Caw functions, `src/caw/functions` | none of their own: keys of the store | `RegisterUser`, `PostCaw`, `ReadCaw`, `FollowUser`, `GetProfile`, `StreamTag` | store client, several calls each | nothing makes the calls of one request atomic; crashes in between |
| Faz server, `src/faz/server` | `hooked_functions_`, `caw_functions_`, `caw_stream_functions_` | `hook`, `unhook`, `event`, `streamEvent` | caw functions | no lock; `operator[]` inserts when it reads |
| StreamTag pipeline (`StreamTag`, streaming `Get`, streaming `get`, `streamEvent`) | a callback of the core, four streams | subscribe, deliver, disconnect | all layers | threads that spin; a write that blocks under `lock_`; clients that leave |
| Faz and Caw clients (C++ and Go), command line | the tables from functions to event types; a process runs one command | `HookAll`, `UnhookAll`, `HookFunction`, `UnhookFunction`, the events, `StreamHashtag` | Faz server | a sequence of calls that stops half way; several processes at once; a table written twice |

What makes each of them correct:

* *core*: one body at a time; every call atomic; every value offered, in order
  and as often as its tags say, to those registered; failed callbacks gone;
  every call returns.
* *store server*: what is in the file after the process ends is a state the
  store was in, with every call applied before the save; after a SIGINT the
  process ends. (That nothing acknowledged is lost would be right too, but the
  code makes no attempt at it.)
* *caw functions*: names, ids and follows are unique; replies form a forest;
  parents and children, followers and followed agree; a reply with status OK is
  true; every request is answered, and a thread is read completely and in order.
* *Faz server*: only functions are hooked; an event runs what its type was bound
  to while it was served.
* *StreamTag pipeline*: a user gets what was put for the hashtag while the
  stream was subscribed, in order, as often as the hashtag is in it, and nothing
  left out; a stream whose processes live is never forgotten; a dead process is
  noticed.
* *clients*: an event runs the function its user asked for; when `HookAll` or
  `UnhookAll` reports success, it is true.

The hazards that these properties are for are listed, each at its line, under
`hazards` in `PROJECT.json`.

## 2. Modules

| Module | Models | Checked by |
|---|---|---|
| `StoreOps` | the map as a partial function to non-empty lists, and what each call does to it | (used by the others) |
| `AtomicStore` | abstract: what the store promises, every call at one instant | (refined by `KeyValueStore`) |
| `KeyValueStore` | the core with its threads, mutex, subscriptions and loops | `MCKeyValueStore`, TLAPS |
| `KVServer` | the life of the store's process: load, serve, SIGINT, save, exit, kill | `KVServer` itself, TLAPS |
| `CawFunctions` | five caw functions, one action per remote call, with failures and crashes | `MCCawFunctions`, TLAPS |
| `FazServer` | the tables of Faz, one action per access | `MCFazServer`, TLAPS |
| `TagFeed` | abstract: what a hashtag stream promises its user | (refined by `StreamTag`) |
| `StreamTag` | a hashtag stream through three processes, with flow control, clients that leave and processes that die | `MCStreamTag`, TLAPS |
| `CawClient` | the commands of both client programs as sequences of calls | `MCCawClient`, TLAPS |
| `KeyValueStoreProofs`, `KVServerProofs`, `CawFunctionsProofs`, `FazServerProofs`, `StreamTagProofs`, `CawClientProofs` | theorems about the module each is named after | TLAPS |
| `CawSequentialProofs` | theorems about `CawFunctions` serving one request at a time | TLAPS |
| `SequenceFacts` | lemmas on sequences, and induction over the numbers, that they share | TLAPS |

`CawFunctions` and `KVServer` use the operators of `StoreOps` for what a call
does to the map. That a whole call may be one step there is what
`KeyValueStore` justifies (it implements `AtomicStore`). `FazServer` runs a hooked function as one step, and
`CawFunctions!Begin` starts the functions in `Hooked`: the two meet only in the
choice of the function. `CawClient` makes the handlers of Faz one step each and
looks at sequences of them; the overlap of two handlers is in `FazServer`.
`StreamTag` composes the client, Faz, the caw function, the store client and
the store, and keeps of each what a stream sees: of the store the subscriptions
and the mutex, not the map.

An operator named `X_Something` with a comment that says *mutant* is a changed
form of the operator `X` that follows it. It takes part in no specification:
putting it in the place of `X` shows that a property notices the bug.

### KeyValueStore

`pc[t]` follows a server thread through a method: `lock` (waiting for the
`lock_guard`), `body`, `notify` (the loops of `Put`), `unlock`. `Put` stores the
value and collects its tags; then `Callback` is one turn of the inner loop
(KeyValueStore.cpp:38-45) with the iterator `it`, `NextTag` one turn of the outer
loop. `CopyEntry` is one turn of the loop of `GetAllEntries`, in any order,
since a hash map has none. `Get(tag, callback)` is called `Subscribe`, and
`Remove` `RemoveKey`, because the names are taken. `TagsOf`, a constant, stands
for the regular expression: any finite list of tags for each value, repetitions
included. `Disconnect` makes a callback fail from then on. `delivered` and
`owed` are history.

*Abstractions.* A tag with no callbacks left and an absent tag are one state:
the code does the same for both. `LoadAllEntries` runs before there are
threads and appears in `KVServer`. A callback returns; one that blocks is in
`StreamTag`.

### KVServer

`phase` is the process: `down`, `starting` (`service` is still null) and `up`.
`pc[t]` follows a call: a Put that has stored its value (`Apply`) is in `notify`,
with `lock_`, until its last callback has returned (`Notify`).
`handler[h]` is the step of `SignalHandler` thread `h` is in: `open` (the
`ofstream` truncates), `collect` (`GetAllEntries` needs `lock_`), `write`, `free`
(the destructor is done, the object goes), `exit`. A thread whose handler runs
does nothing else. The first SIGINT goes to the main thread, which waits in
`server->Wait()`; during its handler SIGINT is blocked there, so a second one
goes to another thread. Opening, reading and writing can fail (`Works`), and
all three failures are ignored, as in the code: a file that cannot be read starts
a store with what could be read of it, possibly nothing, and the next save
replaces it. A death inside `write` leaves a
beginning of the file: some pairs and possibly one more with the first of its
values (`Torn`). Of two handlers in a save, the one that writes last writes over
what the other one wrote, and pairs at the end of a longer file may remain
(`Over`); the one that exits first cuts the other save short (`Stop`). A thread
that uses the deleted service goes on with stale memory, in which a handler may
find no entries, or brings the process down (`UseAfterFree`).

*Abstractions.* Only a server with `--store` is modelled; without it the
save is the branch in which opening fails. `Get` changes nothing and is left
out. Callbacks are not followed one by one: `notify` lasts as long as it likes.
A value that is itself cut in a torn file is not modelled, nor are bytes of an
older file that parse as another pair than the one they were. SIGINT
during `exit` is. Two handlers writing at once write one after the other
(`KeyValueStoreImpl::lock_`).

### CawFunctions

Each action is one remote call with the code up to the next one; `pc[w]` names
the call a Faz thread makes next. `Got(k)` is what a `Get` may return: the list,
or, if a failure is left in the budget, a beginning of it (the client returns
what it read so far). `Put` and `Remove` may be lost, and the functions do not
notice. `Undefined` is element 0 of an empty vector: a null reference, on which
the process dies. `Crash` kills Faz between any two calls; a call that is under
way at a crash is either made or not, as the crash comes after or before it.
Texts and timestamps are left out; an id is a number; the keys are tuples, which
keeps the families of keys apart as the strings do while ids are decimal
numbers. `ReadCaw` keeps `MaxThread` elements of its stack and of its reply; a
thread that is a tree never has more, and on a cycle it makes the endless loop
a finite cycle of states.

### FazServer

The tables are used without a lock, so each access is an action: `find`, then
`operator[]`, which inserts when the key is missing. An entry of a function
table is TRUE if it holds a function and FALSE if it is the empty one
`operator[]` made. `DataRace` is the undefined behaviour of two overlapping
accesses of which one modifies: either they happen in some order (the other
actions), or the process dies and starts again with empty hooks. `bound[w]` is
history: what the type of the request was bound to while it was served. An
exception in a handler (calling an empty `std::function`) becomes the status
UNKNOWN, as gRPC does it.

### StreamTag

Each stream has a client process, a thread in Faz and a thread in the store
(`client[s]`, `faz[s]`, `store[s]`) and two gRPC streams (`toClient[s]`,
`fromStore[s]`). The Faz thread is in the loop of `KeyValueStoreClient::Get`:
`Faz_Read` is the head of the loop, `Faz_Write` the callback that passes the
message on, `Faz_ReadLast` the read the loop makes after a callback has
returned false and before it looks at the result, `Faz_Finish` the wait for the status.
`Store_Get` subscribes under `lock_` and goes to spin; no step leads out of
`spin`, as in the code. `Store_Put`, `Store_Callback`, `Store_NextTag` and
`Store_PutReturns` are a `Put` by anyone, with `putting` as the mutex: it is the
value of the Put that holds it, `tag` its place in the list of the value's tags
and `it` its iterator. A value has any list of tags (`TagsOf`); one that holds a
tag twice goes to its subscribers twice, and `owed` and `TagFeed` count it so.
`Faz_Dies` and `Store_Dies` break the calls of that process (`cut`).
`owed` and `received` are history; `TagFeed` is about these two and about who is
subscribed.

*Abstractions.* `Write` blocks while the stream holds
`Window` unread messages and fails on a broken stream: this is gRPC's flow
control and the only external behaviour in the module. `Client_Leave` is the
moment Faz notices that a client has gone. A process that died is started again
at once. `received` counts the calls of the client's callback, which skips a caw
without a user name when it prints (caw_client.cpp:212).

### CawClient

A command is the set of calls it has still to make (`todo`): `HookAll` and
`UnhookAll` walk a hash map, so each order is possible. A call is a step; `Reply`
ends the command at the first status that is not OK (`log.Fatalf` in Go is the
outcome `false`). A name that is not in the table has type 0, in both
languages. `Kill` stops a process between two calls, `Faz_Dies` clears the hooks.
`found` and `alone` say what a command started from, and whether anyone else has
changed the hooks since.

*Abstractions.* What an event does, beyond running the hooked function, is left
to `CawFunctions` and `StreamTag`; its status may be anything. The command line
is the record of a flag and a name; a usage error ends the process
before it makes a call and changes nothing. The tables are constants: `ClientAssumption` asks that
two names never have one type, in one program or across the two, which
caw_client.h and caw_client.go satisfy.

## 3. Runs

Passing runs:

| Run | Instance | Shows |
|---|---|---|
| `store_calls` | 2 threads, 2 keys, 2 values (one with tags g1 g2 g1), 2 callbacks, 4 calls | `TypeOK`, `LockHeld`, `CallState`; `DeliveryExact`: no callback is skipped or called too often whatever fails; `AcceptedOrErased`; `Linearizable` (refinement of `AtomicStore`); `EveryCallReturns` |
| `caw_sequential` | 1 thread, 2 users, all functions, 6 requests | `UsersUnique`, `IdsDense`, `IdsUnique`, `ThreadsAreTrees`, `FollowOnce`, `ReadIsPreorder`, `EveryRequestAnswered` |
| `caw_concurrent` | 2 threads, 2 users, all functions, 5 requests, 1 crash, 1 failed call | `TypeOK`, `CawsGrounded`, `ChildrenExact`, `FollowMirror`, `AnswerTrue` |
| `faz_concurrent` | 3 threads, 1 event type, a function, a stream function and another name, 4 requests | `TypeOK`, `EventAnswer` |
| `server_shutdown` | 2 threads, 2 keys, 2 calls, 2 lives, 2 SIGINTs per life, 1 kill, failing files | `TypeOK`, `FileIsASnapshot`; `ExitsIfCallbacksReturn` |
| `stream_feed` | 2 streams of one tag, 2 values (one with tags g2 g1, one with g1 g1), streams of 1 message, 2 Puts, 1 death of Faz or the store, clients that leave | `TypeOK`; `NothingLost`, `NoSilentStream`; `IsAFeed` (refinement of `TagFeed`); `AllDelivered`, `ErrorReported` |
| `client_hooks` | a C++ and a Go process, 3 functions (the Go table lacks `hashtag`), a mistyped name, 4 commands, 1 death of Faz | `TypeOK`, `EventRunsItsFunction`, `HookAllReport`, `UnhookAllReport` |

`UsersUnique`, `IdsDense`, `IdsUnique` and `FollowOnce` are checked, and proved, for
one request at a time only: each function reads and writes in separate remote
calls, so two at once can register one name twice, take one id twice
(as in `caw_read_cycle`), or store one follow twice.
`CawsGrounded` holds whatever fails; the other properties of `caw_concurrent`
say in their definition what they give up after a crash or a failed call.
Passing `EventAnswer` allows an event to fail when its type is hooked to a
function of the other kind, which `hook` accepts.
`FileIsASnapshot` has two parts. A life whose saves were not cut short, did not
fail and did not meet leaves the store of one moment of the save, or the old
file if nothing was saved; after a single SIGINT, the file never holds anything
but beginnings of the lists of one such store, also when the save failed. It
does not say that nothing is lost: a death without SIGINT leaves the old file, a
put after the copy is not in it, and two handlers can undo each other's save.
`ExitsIfCallbacksReturn` is about one SIGINT, and only if no Put stays in its
callbacks for ever: with a subscriber as in `stream_stall` the handler waits for
`lock_` for ever, and even one SIGINT does not end the process. `EveryCallReturns`
has the same condition: callbacks return in `KeyValueStore`.

Runs in which the code does something the documentation or a comment says it
does not (each is a finding in `PROJECT.json`, with the quoted line):

| Run | Property | In short |
|---|---|---|
| `caw_read_cycle` | `EveryRequestAnswered` | two posts at once: while one has removed `latestCawId`, a reply takes id 1 again, which is the id of its parent; two caws then have one id, the thread is a cycle, and reading it never ends |
| `faz_race` | `HookedAreFunctions` | an unhook inside an event hooks the empty name |
| `server_twice_hang` | `ExitsAfterSignal` | a second SIGINT on a thread inside a call hangs the process, with the file truncated, even though every callback returns |
| `stream_stall` | `PutReturns` | after a client has left, Faz reads one message more and then waits for a status for ever; the stream fills and a Put blocks with the mutex, and every call to the store with it |
| `client_unhookall` | `UnhookAllUnhooks` | `UnhookAll` stops at the first function that is not hooked and leaves the others; the Go table has no `hashtag` at all |

Other observations from reading, visible in the models and listed as hazards
that no property covers:
a post between the Remove and the Put of another one reads `[0]` of an empty
vector; results of Put and Remove are ignored; a put answered after the copy
for the file was taken is lost; nothing is saved before the exit, although
kvstore_server.h:71-73 says "Each time a put or remove request is performed".
One comment is simply out of date: ReadCaw returns all levels of a thread
(`ReadIsPreorder`, which caw_functions.cpp:128-131 asks for), where
caw_functions.cpp:101 says one.

**Bounds.** `MaxCalls` and `MaxRequests` bound how many calls start, so every
behaviour ends and the runs do not check for deadlock (`CHECK_DEADLOCK FALSE`);
that calls end is a liveness property instead. Four store calls are enough for
two subscriptions of which the first fails, and two overlapping Puts, the
interesting case of the loop. Six sequential requests are enough for two users
who follow each other, or for a user, a thread of three levels or with two
branches, and a read of it. Five concurrent ones reach overlapping posts, a
reply and a reader of it. Two threads are enough for races between two
requests; Faz has three so that a `hook` and an `unhook` can both fall inside
one `event`. Two lives are what a save and the load that follows it
need; two calls, of two keys or one, give a file of two pairs or of a list that
can be cut, and a call that meets the save of another. Two SIGINTs per life are
enough for two saves that meet in any order. Streams of one message make a
`Write` block after the first one, and a value with the tag twice already fills a
stream, so two Puts reach a Put that waits, and two values in order; the other tag
gives a loop without subscribers. A
second stream is what the loop over the callbacks comes to after a full or a
broken one. Four commands are enough for a `hookall` of each program, a mistyped
`unhook` and an event, in any order and overlapping. `SYMMETRY` is used only
in runs without liveness.

**Fairness.** `FairSpec` gives each server thread weak fairness on its own
steps: the operating system schedules all threads, remote calls are answered
or fail. In `KVServer` a callback is no such step: it writes to a stream, and
returns when its reader lets it, so `FairSpec` says nothing of `Notify`;
`PromptSpec`, used by `server_twice_hang` only, adds that callbacks return, to
show that the hang does not come from them. A thread that waits for the mutex needs no strong fairness since the
number of calls is bounded and the others stop competing. Clients, signals,
crashes, kills and restarts are never forced. Handlers are fair because they
run on threads. In `StreamTag` a client that has not left reads its messages:
its loop does nothing else, so this is again the scheduling of its process;
without it a client that is merely stopped would block the store just as in
`stream_stall`. The thread in `Store_Get` waits for the mutex with weak
fairness since Puts are bounded. `CawClient` and `FazServer` state safety only,
without fairness.

## 4. Proofs

All theorems are for any values of the constants that satisfy the module's
named assumption: any finite or infinite sets of threads, keys, values,
callbacks, users, streams and clients, and any bounds. Where a theorem needs more
it says so in its `ASSUME`: a finite `Workers` where threads are counted, and
one thread where the code is right for one thread only.

**The store** (`KeyValueStoreProofs`, assumption `ConstantsAssumption`: `TagsOf`
maps values to sequences of tags, and the markers are no threads, requests and replies).
`TypeCorrect`, `MutualExclusion` (`LockHeld`), `CopiesStayTrue` (`CallState`)
and `StoreIsLinearizable`, the refinement of `AtomicStore`. `TypeOK` is not
inductive alone: the thread in `notify` must hold a Put to use
`request[t].value`, and pairs copied by `GetAllEntries` must stay a store. So
the invariant is `Inv == TypeOK /\ LockHeld /\ CallState`. `CallState` says how
far a call has come and that copied pairs equal the map; that needs `LockHeld`,
since a Put of another thread would make them differ (lemma `Alone`). The
refinement `StepRefines` maps the step that computes
a reply to `Perform` of the atomic store, `Invoke` and `Return` to
themselves, and all others to stuttering. For `GetAllEntries` the copied pairs
must be the whole map at the last step, which `CallState` gives.

**The notification loops** (`KeyValueStoreProofs`). `ValuesDelivered`
(`DeliveryExact`) and `FailedCallbacksErased` (`AcceptedOrErased`). `Turns` is
the set of positions, tag and callback, that the loops have still to visit for
one callback. The invariant `Delivery` says that the tags left are the last
ones of the value's (`Walk`); that a callback that works is owed what it has
accepted and one copy of the value for each turn left (`Owing`); that the
callbacks already passed, and kept, have accepted it last (`Told`); and that nothing is
owed when no Put is in its loops (`Even`). The step in which the loops erase a
callback is the interesting one: the later callbacks of that tag move one
position down, once in the current row and again in later rows if the value
repeats the tag, and `TurnsShifted` gives the bijection between the turns
before and after.

**The store's process** (`KVServerProofs`). `TypeCorrect`, and
`FileStaysASnapshot` (`FileIsASnapshot`), for any number of SIGINTs. `Snapshot`
says for each handler's step where a snapshot is: in the file, still in the
store, or in the copy of a handler that is about to write. `Parts` is for a
single SIGINT: then nothing has written to the file since it was truncated, so
what a write that fails leaves is part of the copy (`TornIsPart`, `OverIsPart`);
that needs to know that no second handler is there (`Handlers`).

**The caw functions** (`CawFunctionsProofs`). `CawsStayGrounded`
(`CawsGrounded`): for any number of requests, lost calls and crashes every
stored caw has a registered author and a stored parent. The invariant says that
the store is sound (`Sound`), and of each thread past a check that what it
checked still holds; that stays true because users and caws are never removed (`Grows`).

For a finite set of threads, `FollowListsMirror` (`FollowMirror`) and
`ChildListsExact` (`ChildrenExact`): two lists that two Puts of one request
write agree, up to the requests between the Puts. The invariants (`FollowInv`,
`ChildInv`) count: a first Put adds one to the list written first and one to
the threads between, a second Put moves one from the threads to the other list,
and a crash takes threads away, after which only the inequality is claimed. A
lost Put makes `failures` positive and ends the claim.

`AnswersStayTrue` (`AnswerTrue`): the invariant `Honest` says of each thread
what it has put or read so far on the way to its reply, and of each answered
request that what was reported is in the store. It survives the steps of the
others because a step only appends to lists (`Extends`); `latestCawId`, the one
key that is removed, is not reported to anybody.

`TypesHold` (`TypeOK`), for a finite set of threads, needs more than types: the
stored caws must have ids in `1 .. MaxRequests`, so the invariant `Numbered`
says that the greatest number in use, in `latestCawId` or carried by a thread,
and the count of posts that have still to take one together never exceed
the number of requests. `MaxThread >= 2` is assumed since a profile is a reply of two
parts, which `MaxThread` would otherwise cut.

**The caw functions, one request at a time** (`CawSequentialProofs`). `Sequential`
says that there is at most one thread and that no remote call fails;
`Undisturbed` also that Faz is not killed. These are the conditions of the
repository's tests, and of the run `caw_sequential`; the theorems are for any
users and any number of requests.

* Under `Sequential`, kills included: `NamesRegisteredOnce` (`UsersUnique`) and
  `FollowsOnce` (`FollowOnce`). The invariant `OnceInv` says that between the check and
  the Put the name is still not in the list.
* Under `Undisturbed`: `CawsNumberedDensely` (`IdsDense`) and `RepliesFormTrees`
  (`ThreadsAreTrees`), from `PostedInv`, which says for each step of `PostCaw` what is in
  the store and what is still missing; `IdsNameOneCaw` (`IdsUnique`), since with dense
  numbers the next id is free.
* Under `Undisturbed` and `MaxRequests <= MaxThread`, so that the model never
  cuts a stack: `ThreadsReadInOrder` (`ReadIsPreorder`), the loop of `ReadCaw` against
  the recursive `Preorder`, for threads of any depth and width. The invariant
  `ReadInv` says that what was read, followed by the preorders of the ids on the
  stack, is the preorder of the root. A caw posted meanwhile cannot disturb it as
  there is one thread. That `Preorder` exists is a proof of its own
  (`VisitExists`): children have greater ids than their parents, so it is built
  from the last caw down. The induction is stated over a set of numbers
  (`SetInduction`, from the least element of a well-founded order), because the
  library's induction theorems take an operator as a parameter.

**Faz** (`FazServerProofs`). `TypeCorrect`, and `EventsAreAnswered`
(`EventAnswer`), for any number of threads that change the tables without a
lock. `FunctionsAreHooked` (`HookedAreFunctions`), for one thread: what a `find`
has found is still there when `operator[]` reads it (`Found`). With two threads
that is what `faz_race` refutes.

**The pipeline** (`StreamTagProofs`, on the assumption `StreamAssumption`).
`TypeCorrect`; `StreamsAreHeard` (`NoSilentStream`); `NothingIsLost`
(`NothingLost`); `PipelineIsAFeed`, the refinement of `TagFeed`. The invariant
says where a subscription may be, that there is at most one per stream, and
that what is along the way, with what is due, is what is owed (`InOrder`,
`Flowing`); a break at any hop leaves a prefix. What is due is a number of
copies, one for each place of the tag that the loops have still to come to; a
callback that is erased takes all of its stream's places with it, which is why
the equality ends with the break. `PipelineIsAFeed` is about any list of tags
for each value, and says that a subscription ends only by a break.

**The clients** (`CawClientProofs`, on `ClientAssumption`). `TypeCorrect`,
`EventsAreRight`, `HookAllIsTrue`, `UnhookAllIsTrue`, from an invariant that
relates the calls a command has made to the hooks it found.

Every invariant, action property and refinement that a passing run checks is
also a theorem. Only model-checked is liveness (`EveryCallReturns`,
`EveryRequestAnswered`, `ExitsIfCallbacksReturn`, `AllDelivered`, `ErrorReported`), which is
out of the prover's reach.

## 5. Not modelled

* Usage errors and the text of the command-line tools.
* Formatting, logging, protobuf encoding and the regular expression itself.
* `std::stoi` overflow after 2^31-1 caws; ids that are not decimal numbers and
  collide with other keys (`"caw_" + "users"`), which only a client other than
  the command line can send.
* The composition of `CawFunctions` with a store that restarts from an old file:
  it needs both modules' states at once, and what it shows (users and caws that
  were acknowledged are gone) follows from `KVServer` alone.
* Protocol definitions and the build.

## 6. Order of work

The modules were written in the order of the table in section 2. What could be
added: the composition named in section 5.
