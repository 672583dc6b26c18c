--------------------------- MODULE FazServerProofs ---------------------------
(***************************************************************************)
(* Proofs about FazServer, for any number of server threads, event types   *)
(* and functions: however the unlocked accesses to the three tables        *)
(* interleave, an event is answered according to what was bound to it.     *)
(***************************************************************************)
EXTENDS FazServer, TLAPS

-----------------------------------------------------------------------------
\* The inductive invariant.

\* An entry of a function table that a client made by operator[] is empty, the
\* others hold their function.
TablesOK ==
  /\ \A n \in DOMAIN caw_functions_ :
       caw_functions_[n] \in BOOLEAN /\ (caw_functions_[n] <=> n \in Functions)
  /\ \A n \in DOMAIN caw_stream_functions_ :
       caw_stream_functions_[n] \in BOOLEAN
         /\ (caw_stream_functions_[n] <=> n \in StreamFunctions)

\* Where a thread is tells what it serves.
Serves(w) ==
  /\ pc[w] # "idle" => req[w] \in Requests
  /\ pc[w] \in {"hook", "hook_find_stream", "hook_set"} => req[w].op = "hook"
  /\ pc[w] \in {"unhook", "unhook_erase"} => req[w].op = "unhook"
  /\ pc[w] \in {"event", "streamEvent", "event_name", "event_call"} =>
       req[w].op \in {"event", "streamEvent"}
  /\ pc[w] = "event_function" => req[w].op = "event"
  /\ pc[w] = "stream_function" => req[w].op = "streamEvent"

\* What is bound now was bound while the request was served, and so was the
\* name that was read.
Knows(w) ==
  /\ pc[w] # "idle" => /\ Binding(hooked_functions_, req[w].event_type) \in bound[w]
                       /\ ran[w] = NoName
  /\ pc[w] \in {"event_function", "stream_function", "event_call"} => name[w] \in bound[w]

\* The function copied from its table is the one of that name, if there is one.
Copied(w) ==
  pc[w] = "event_call" => (callable[w] <=> name[w] \in Runnable(req[w].op))

\* EventAnswer, of one thread.
Answer(w) ==
  pc[w] = "idle" /\ req[w].op \in {"event", "streamEvent"} =>
    /\ status[w] = "RETURNED" => ran[w] \in bound[w] \cap Runnable(req[w].op)
    /\ status[w] = "NOT_FOUND" => Unhooked \in bound[w]
    /\ status[w] = "UNKNOWN" => ~ (bound[w] \subseteq Runnable(req[w].op))
    /\ status[w] # "RETURNED" => ran[w] = NoName

Worker(w) == Serves(w) /\ Knows(w) /\ Copied(w) /\ Answer(w)

Shapes == DOMAIN pc = Workers /\ DOMAIN status = Workers

Inv == TypeOK /\ Shapes /\ TablesOK /\ \A w \in Workers : Worker(w)

-----------------------------------------------------------------------------
\* operator[] of a map makes the entry if it is not there.
LEMMA TouchIs ==
  ASSUME NEW t, NEW k, NEW d
  PROVE  /\ DOMAIN Touch(t, k, d) = DOMAIN t \cup {k}
         /\ \A x \in DOMAIN t : Touch(t, k, d)[x] = t[x]
         /\ k \notin DOMAIN t => Touch(t, k, d)[k] = d
BY DEF Touch, Assign

\* A table of functions stays one when it is touched.
LEMMA TouchFunctions ==
  ASSUME NEW t, NEW k, NEW F, F \subseteq DOMAIN t,
         \A n \in DOMAIN t : t[n] \in BOOLEAN /\ (t[n] <=> n \in F)
  PROVE  LET u == Touch(t, k, FALSE)
         IN /\ k \in DOMAIN u
            /\ \A n \in DOMAIN u : u[n] \in BOOLEAN /\ (u[n] <=> n \in F)
<1> DEFINE u == Touch(t, k, FALSE)
<1>1. CASE k \in DOMAIN t
  BY <1>1 DEF Touch
<1>2. CASE k \notin DOMAIN t
  <2>1. DOMAIN u = DOMAIN t \cup {k} /\ u[k] = FALSE /\ \A x \in DOMAIN t : u[x] = t[x]
    BY <1>2, TouchIs
  <2>2. k \notin F
    BY <1>2
  <2> HIDE DEF u
  <2>3. ASSUME NEW n \in DOMAIN u PROVE u[n] \in BOOLEAN /\ (u[n] <=> n \in F)
    <3>1. CASE n = k
      BY <2>1, <2>2, <3>1, Zenon
    <3>2. CASE n \in DOMAIN t
      BY <2>1, <3>2, Zenon
    <3>3. QED
      BY <2>1, <3>1, <3>2
  <2>4. QED
    BY <2>1, <2>3 DEF u
<1>3. QED
  BY <1>1, <1>2

\* The request a thread serves names an event type.
LEMMA RequestHas ==
  ASSUME NEW r \in Requests
  PROVE  /\ r.event_type \in EventTypes
         /\ r.op \in {"hook", "unhook", "event", "streamEvent"}
         /\ r.op = "hook" => r.event_function \in Names
BY DEF Requests

\* What is bound to an event type is a name, or nothing.
LEMMA BindingType ==
  ASSUME NEW t, \A e \in DOMAIN t : t[e] \in Names, NEW e
  PROVE  Binding(t, e) \in Names \cup {Unhooked}
BY DEF Binding

\* A thread that does not move stays right when the binding is unchanged.
LEMMA Frame ==
  ASSUME NEW w \in Workers, Worker(w),
         pc'[w] = pc[w], req'[w] = req[w], name'[w] = name[w],
         callable'[w] = callable[w], ran'[w] = ran[w], status'[w] = status[w],
         bound'[w] = bound[w], UNCHANGED hooked_functions_
  PROVE  Worker(w)'
<1>1. Serves(w)' /\ Answer(w)'
  BY DEF Worker, Serves, Answer, Runnable
<1>2. Knows(w)'
  BY DEF Worker, Knows
<1>3. Copied(w)'
  BY Zenon DEF Worker, Copied, Runnable
<1>4. QED
  BY <1>1, <1>2, <1>3 DEF Worker

\* Initially no thread serves anything.
LEMMA InvInit == Init => Inv
<1> SUFFICES ASSUME Init PROVE Inv
  OBVIOUS
<1>1. TypeOK /\ Shapes
  BY NamesAssumption DEF Init, TypeOK, Shapes, NothingHooked, Holding, Names
<1>2. TablesOK
  BY DEF Init, TablesOK, Holding
<1>3. ASSUME NEW w \in Workers PROVE Worker(w)
  <2>1. pc[w] = "idle" /\ req[w].op = "none"
    BY DEF Init
  <2>2. QED
    BY <2>1 DEF Worker, Serves, Knows, Copied, Answer
<1>4. QED
  BY <1>1, <1>2, <1>3 DEF Inv

-----------------------------------------------------------------------------
\* One lemma per kind of step; what each says is that it keeps the invariant.

\* A step that touches no table and no history has to keep its own thread right.
LEMMA OneWorker ==
  ASSUME Inv, NEW w \in Workers,
         UNCHANGED <<tables, bound, requests>>,
         Shapes', TypeOK', Worker(w)',
         \A u \in Workers : u # w =>
           /\ pc'[u] = pc[u] /\ status'[u] = status[u] /\ req'[u] = req[u]
           /\ name'[u] = name[u] /\ callable'[u] = callable[u] /\ ran'[u] = ran[u]
  PROVE  Inv'
<1>1. ASSUME NEW u \in Workers PROVE Worker(u)'
  <2>1. CASE u = w
    BY <2>1
  <2>2. CASE u # w
    <3>1. Worker(u) /\ bound'[u] = bound[u] /\ UNCHANGED hooked_functions_
      BY DEF Inv, tables
    <3>2. QED
      BY <2>2, <3>1, Frame
  <2>3. QED
    BY <2>1, <2>2
<1>2. TablesOK'
  BY DEF Inv, TablesOK, tables
<1>3. QED
  BY <1>1, <1>2 DEF Inv

\* A find moves on, or answers NOT_FOUND.
LEMMA FindInv ==
  ASSUME Inv, NEW w \in Workers,
         Hook_Find(w) \/ Hook_FindStream(w) \/ Unhook_Find(w) \/ Event_Find(w)
  PROVE  Inv'
<1>1. /\ UNCHANGED <<tables, req, locals, bound, requests>>
      /\ DOMAIN pc' = Workers /\ DOMAIN status' = Workers
      /\ \A u \in Workers : u # w => pc'[u] = pc[u] /\ status'[u] = status[u]
  BY DEF Hook_Find, Hook_FindStream, Unhook_Find, Event_Find, Goto, Finish, Inv, Shapes
<1>2. \/ /\ pc[w] = "hook" /\ pc'[w] \in {"hook_set", "hook_find_stream"}
      \/ /\ pc[w] = "hook_find_stream" /\ pc'[w] \in {"hook_set", "idle"}
      \/ /\ pc[w] = "unhook" /\ pc'[w] \in {"unhook_erase", "idle"}
      \/ /\ pc[w] \in {"event", "streamEvent"}
         /\ \/ pc'[w] = "event_name"
            \/ /\ pc'[w] = "idle" /\ status'[w] = "NOT_FOUND"
               /\ req[w].event_type \notin DOMAIN hooked_functions_
  BY DEF Hook_Find, Hook_FindStream, Unhook_Find, Event_Find, Goto, Finish, Inv, Shapes
<1>3. TypeOK'
  BY <1>1 DEF Inv, TypeOK, tables, locals
<1>4. Worker(w)
  BY DEF Inv
<1>5. Serves(w)' /\ Knows(w)'
  BY <1>1, <1>2, <1>4 DEF Worker, Serves, Knows, tables, locals
<1>6. Copied(w)'
  BY <1>2 DEF Copied
<1>7. Answer(w)'
  <2>1. pc'[w] = "idle" /\ req[w].op \in {"event", "streamEvent"} =>
          /\ status'[w] = "NOT_FOUND" /\ Unhooked \in bound[w] /\ ran[w] = NoName
    BY <1>2, <1>4 DEF Worker, Serves, Knows, Binding
  <2>2. QED
    BY <1>1, <2>1 DEF Answer, locals
<1>8. QED
  BY <1>1, <1>3, <1>5, <1>6, <1>7, OneWorker DEF Worker, Shapes, locals

\* hooked_functions_ changes: every request that is being served sees it.
LEMMA SetHookedInv ==
  ASSUME Inv, NEW w \in Workers, NEW t, SetHooked(t), pc[w] # "idle",
         DOMAIN t \subseteq EventTypes, \A e \in DOMAIN t : t[e] \in Names,
         Shapes', Serves(w)', Copied(w)', Answer(w)',
         pc'[w] \in {"event_function", "stream_function"} =>
           name'[w] = Binding(t, req[w].event_type),
         pc'[w] # "event_call",
         name' \in [Workers -> Names],
         \A u \in Workers : u # w =>
           pc'[u] = pc[u] /\ status'[u] = status[u] /\ name'[u] = name[u],
         UNCHANGED <<caw_functions_, caw_stream_functions_, req, callable, ran, requests>>
  PROVE  Inv'
<1>1. /\ hooked_functions_' = t
      /\ \A u \in Workers : bound'[u] = IF pc[u] = "idle" THEN bound[u]
                              ELSE bound[u] \cup {Binding(t, req[u].event_type)}
      /\ \A u \in Workers : Binding(t, req[u].event_type) \in Names \cup {Unhooked}
  BY BindingType DEF SetHooked
<1>2. TypeOK'
  <2>1. bound' \in [Workers -> SUBSET (Names \cup {Unhooked})]
    <3>1. bound' = [u \in Workers |-> IF pc[u] = "idle" THEN bound[u]
                       ELSE bound[u] \cup {Binding(t, req[u].event_type)}]
      BY DEF SetHooked
    <3>2. QED
      BY <1>1, <3>1 DEF Inv, TypeOK
  <2>2. QED
    BY <1>1, <2>1 DEF Inv, TypeOK
<1>3. TablesOK'
  BY DEF Inv, TablesOK
<1>4. ASSUME NEW u \in Workers PROVE Worker(u)'
  <2>1. Worker(u)
    BY DEF Inv
  <2>2. CASE u = w
    <3>1. Binding(t, req[w].event_type) \in bound'[w] /\ ran[w] = NoName
      BY <1>1, <2>1, <2>2 DEF Worker, Knows
    <3>2. Knows(w)'
      BY <1>1, <3>1 DEF Knows
    <3>3. QED
      BY <2>2, <3>2 DEF Worker
  <2>3. CASE u # w
    <3>1. bound[u] \subseteq bound'[u]
          /\ (pc[u] # "idle" => Binding(t, req[u].event_type) \in bound'[u])
          /\ (pc[u] = "idle" => bound'[u] = bound[u])
      BY <1>1
    <3>2. Serves(u)' /\ Knows(u)'
      BY <1>1, <2>1, <2>3, <3>1 DEF Worker, Serves, Knows
    <3>3. Copied(u)'
      BY <2>1, <2>3, Zenon DEF Worker, Copied, Runnable
    <3>4. Answer(u)'
      BY <2>1, <2>3, <3>1 DEF Worker, Answer, Runnable
    <3>5. QED
      BY <3>2, <3>3, <3>4 DEF Worker
  <2>4. QED
    BY <2>2, <2>3
<1>5. QED
  BY <1>2, <1>3, <1>4 DEF Inv

\* hook and unhook change the table.
LEMMA HookUnhookInv ==
  ASSUME Inv, NEW w \in Workers, Hook_Set(w) \/ Unhook_Erase(w)
  PROVE  Inv'
<1>1. /\ pc[w] \in {"hook_set", "unhook_erase"} /\ pc'[w] = "idle"
      /\ Shapes'
      /\ \A u \in Workers : u # w => pc'[u] = pc[u] /\ status'[u] = status[u]
      /\ UNCHANGED <<caw_functions_, caw_stream_functions_, req, name, callable, ran, requests>>
  BY DEF Hook_Set, Unhook_Erase, Finish, locals, Inv, Shapes
<1>2. Worker(w) /\ name' \in [Workers -> Names]
  BY <1>1 DEF Inv, TypeOK
<1>3. req[w] \in Requests /\ req[w].op \in {"hook", "unhook"}
      /\ (pc[w] = "hook_set" => req[w].op = "hook")
  BY <1>1, <1>2 DEF Worker, Serves
<1>4. Serves(w)' /\ Copied(w)' /\ Answer(w)'
  BY <1>1, <1>3 DEF Serves, Copied, Answer
<1>5. CASE Hook_Set(w)
  <2> DEFINE t == Assign(hooked_functions_, req[w].event_type, req[w].event_function)
  <2>1. DOMAIN t \subseteq EventTypes /\ \A e \in DOMAIN t : t[e] \in Names
    <3>1. /\ req[w].event_type \in EventTypes /\ req[w].event_function \in Names
          /\ DOMAIN hooked_functions_ \subseteq EventTypes
          /\ \A e \in DOMAIN hooked_functions_ : hooked_functions_[e] \in Names
      BY <1>3, <1>5, RequestHas DEF Inv, TypeOK, Hook_Set
    <3>2. /\ DOMAIN t = DOMAIN hooked_functions_ \cup {req[w].event_type}
          /\ t[req[w].event_type] = req[w].event_function
          /\ \A x \in DOMAIN hooked_functions_ :
               x # req[w].event_type => t[x] = hooked_functions_[x]
      BY DEF Assign
    <3> HIDE DEF t
    <3>3. QED
      BY <3>1, <3>2
  <2>2. SetHooked(t)
    BY <1>5 DEF Hook_Set
  <2> HIDE DEF t
  <2>3. QED
    BY <1>1, <1>2, <1>4, <2>1, <2>2, SetHookedInv
<1>6. CASE Unhook_Erase(w)
  <2> DEFINE t == [e \in DOMAIN hooked_functions_ \ {req[w].event_type} |-> hooked_functions_[e]]
  <2>1. DOMAIN t \subseteq EventTypes /\ \A e \in DOMAIN t : t[e] \in Names
    BY DEF Inv, TypeOK
  <2>2. SetHooked(t)
    BY <1>6 DEF Unhook_Erase
  <2> HIDE DEF t
  <2>3. QED
    BY <1>1, <1>2, <1>4, <2>1, <2>2, SetHookedInv
<1>7. QED
  BY <1>5, <1>6

\* event reads the name, and may hook the empty one.
LEMMA EventNameInv ==
  ASSUME Inv, NEW w \in Workers, Event_Name(w)
  PROVE  Inv'
<1> DEFINE e == req[w].event_type
           t == Touch(hooked_functions_, e, NoName)
<1>1. /\ pc[w] = "event_name" /\ SetHooked(t) /\ hooked_functions_' = t
      /\ pc'[w] = IF req[w].op = "event" THEN "event_function" ELSE "stream_function"
      /\ Shapes' /\ DOMAIN name' = Workers
      /\ name' = [name EXCEPT ![w] = t[e]]
      /\ \A u \in Workers : u # w => /\ pc'[u] = pc[u] /\ status'[u] = status[u]
                                    /\ name'[u] = name[u]
      /\ UNCHANGED <<caw_functions_, caw_stream_functions_, req, callable, ran, requests>>
  BY DEF Event_Name, Goto, SetHooked, Inv, Shapes, TypeOK
<1>2. Worker(w)
  BY DEF Inv
<1>3. req[w] \in Requests /\ req[w].op \in {"event", "streamEvent"} /\ e \in EventTypes
  BY <1>1, <1>2, RequestHas DEF Worker, Serves
<1>4. /\ DOMAIN t \subseteq EventTypes /\ e \in DOMAIN t
      /\ \A x \in DOMAIN t : t[x] \in Names
  <2>1. NoName \in Names
    BY DEF Names
  <2>2. /\ DOMAIN hooked_functions_ \subseteq EventTypes
        /\ \A x \in DOMAIN hooked_functions_ : hooked_functions_[x] \in Names
    BY DEF Inv, TypeOK
  <2>3. /\ DOMAIN t = DOMAIN hooked_functions_ \cup {e}
        /\ \A x \in DOMAIN hooked_functions_ : t[x] = hooked_functions_[x]
        /\ e \notin DOMAIN hooked_functions_ => t[e] = NoName
    BY TouchIs, ZenonT(60)
  <2> HIDE DEF t
  <2>4. QED
    BY <1>3, <2>1, <2>2, <2>3
<1>5. Binding(t, e) = t[e] /\ t[e] \in Names
  BY <1>4 DEF Binding
<1>6. name' \in [Workers -> Names] /\ name'[w] = Binding(t, e)
  BY <1>1, <1>5 DEF Inv, TypeOK
<1>7. Serves(w)' /\ Copied(w)' /\ Answer(w)'
  BY <1>1, <1>3 DEF Serves, Copied, Answer
<1> HIDE DEF t
<1>8. QED
  BY <1>1, <1>4, <1>6, <1>7, SetHookedInv

\* event copies the function, and may make an empty one.
LEMMA FunctionInv ==
  ASSUME Inv, NEW w \in Workers, Event_Function(w) \/ StreamEvent_Function(w)
  PROVE  Inv'
<1>1. /\ pc[w] \in {"event_function", "stream_function"} /\ pc'[w] = "event_call"
      /\ Shapes' /\ DOMAIN callable' = Workers
      /\ \A u \in Workers : u # w => /\ pc'[u] = pc[u] /\ status'[u] = status[u]
                                    /\ callable'[u] = callable[u]
      /\ UNCHANGED <<hooked_functions_, req, name, ran, bound, requests>>
  BY DEF Event_Function, StreamEvent_Function, Goto, Inv, Shapes, TypeOK
<1>2. Worker(w) /\ name[w] \in Names
  BY DEF Inv, TypeOK
<1>3. /\ pc[w] = "event_function" => req[w].op = "event"
      /\ pc[w] = "stream_function" => req[w].op = "streamEvent"
      /\ req[w] \in Requests /\ name[w] \in bound[w]
  BY <1>1, <1>2 DEF Worker, Serves, Knows
<1>4. /\ TablesOK' /\ callable' \in [Workers -> BOOLEAN]
      /\ (callable'[w] <=> name[w] \in Runnable(req[w].op))
      /\ Functions \subseteq DOMAIN caw_functions_' /\ DOMAIN caw_functions_' \subseteq Names
      /\ StreamFunctions \subseteq DOMAIN caw_stream_functions_'
      /\ DOMAIN caw_stream_functions_' \subseteq Names
  <2>1. CASE Event_Function(w)
    <3> DEFINE u == Touch(caw_functions_, name[w], FALSE)
    <3>1. /\ name[w] \in DOMAIN u
          /\ \A n \in DOMAIN u : u[n] \in BOOLEAN /\ (u[n] <=> n \in Functions)
      <4>1. Functions \subseteq DOMAIN caw_functions_
        BY DEF Inv, TypeOK
      <4>2. \A n \in DOMAIN caw_functions_ :
              caw_functions_[n] \in BOOLEAN /\ (caw_functions_[n] <=> n \in Functions)
        BY Zenon DEF Inv, TablesOK
      <4>3. QED
        BY <4>1, <4>2, TouchFunctions, ZenonT(60)
    <3>2. DOMAIN u = DOMAIN caw_functions_ \cup {name[w]}
      BY TouchIs, ZenonT(60)
    <3>3. /\ caw_functions_' = u /\ callable' = [callable EXCEPT ![w] = u[name[w]]]
          /\ UNCHANGED caw_stream_functions_ /\ pc[w] = "event_function"
      BY <2>1 DEF Event_Function
    <3> HIDE DEF u
    <3>4. u[name[w]] \in BOOLEAN /\ (u[name[w]] <=> name[w] \in Functions)
      BY <3>1
    <3>5. callable' \in [Workers -> BOOLEAN] /\ callable'[w] = u[name[w]]
      BY <3>3, <3>4 DEF Inv, TypeOK
    <3>6. TablesOK'
      BY <3>1, <3>3, Zenon DEF Inv, TablesOK
    <3>7. Runnable(req[w].op) = Functions
      BY <1>3, <3>3 DEF Runnable
    <3>8. QED
      BY <1>2, <3>2, <3>3, <3>4, <3>5, <3>6, <3>7 DEF Inv, TypeOK
  <2>2. CASE StreamEvent_Function(w)
    <3> DEFINE u == Touch(caw_stream_functions_, name[w], FALSE)
    <3>1. /\ name[w] \in DOMAIN u
          /\ \A n \in DOMAIN u : u[n] \in BOOLEAN /\ (u[n] <=> n \in StreamFunctions)
      <4>1. StreamFunctions \subseteq DOMAIN caw_stream_functions_
        BY DEF Inv, TypeOK
      <4>2. \A n \in DOMAIN caw_stream_functions_ :
              caw_stream_functions_[n] \in BOOLEAN /\ (caw_stream_functions_[n] <=> n \in StreamFunctions)
        BY Zenon DEF Inv, TablesOK
      <4>3. QED
        BY <4>1, <4>2, TouchFunctions, ZenonT(60)
    <3>2. DOMAIN u = DOMAIN caw_stream_functions_ \cup {name[w]}
      BY TouchIs, ZenonT(60)
    <3>3. /\ caw_stream_functions_' = u /\ callable' = [callable EXCEPT ![w] = u[name[w]]]
          /\ UNCHANGED caw_functions_ /\ pc[w] = "stream_function"
      BY <2>2 DEF StreamEvent_Function
    <3> HIDE DEF u
    <3>4. u[name[w]] \in BOOLEAN /\ (u[name[w]] <=> name[w] \in StreamFunctions)
      BY <3>1
    <3>5. callable' \in [Workers -> BOOLEAN] /\ callable'[w] = u[name[w]]
      BY <3>3, <3>4 DEF Inv, TypeOK
    <3>6. TablesOK'
      BY <3>1, <3>3, Zenon DEF Inv, TablesOK
    <3>7. Runnable(req[w].op) = StreamFunctions
      BY <1>3, <3>3 DEF Runnable
    <3>8. QED
      BY <1>2, <3>2, <3>3, <3>4, <3>5, <3>6, <3>7 DEF Inv, TypeOK
  <2>3. QED
    BY <2>1, <2>2
<1>5. TypeOK'
  BY <1>1, <1>4 DEF Inv, TypeOK
<1>6. Worker(w)'
  <2>1. Serves(w)' /\ Knows(w)' /\ Answer(w)'
    BY <1>1, <1>2, <1>3 DEF Worker, Serves, Knows, Answer
  <2>2. Copied(w)'
    BY <1>1, <1>4, Zenon DEF Copied, Runnable
  <2>3. QED
    BY <2>1, <2>2 DEF Worker
<1>7. ASSUME NEW u \in Workers, u # w PROVE Worker(u)'
  BY <1>1, <1>7, Frame DEF Inv
<1>8. QED
  BY <1>1, <1>4, <1>5, <1>6, <1>7 DEF Inv

\* The function is called, or there is none to call.
LEMMA EventCallInv ==
  ASSUME Inv, NEW w \in Workers, Event_Call(w)
  PROVE  Inv'
<1>1. /\ pc[w] = "event_call" /\ pc'[w] = "idle" /\ Shapes'
      /\ \A u \in Workers : u # w => /\ pc'[u] = pc[u] /\ status'[u] = status[u]
                                    /\ ran'[u] = ran[u]
      /\ UNCHANGED <<tables, req, name, callable, bound, requests>>
  BY DEF Event_Call, Finish, Inv, Shapes, TypeOK
<1>2. \/ status'[w] = "RETURNED" /\ ran' = [ran EXCEPT ![w] = name[w]] /\ callable[w]
      \/ status'[w] = "UNKNOWN" /\ UNCHANGED ran /\ ~callable[w]
  BY DEF Event_Call, Finish, Inv, Shapes
<1>3. Worker(w)
  BY DEF Inv
<1>4. /\ name[w] \in bound[w] /\ ran[w] = NoName
      /\ req[w] \in Requests /\ req[w].op \in {"event", "streamEvent"}
  BY <1>1, <1>3 DEF Worker, Serves, Knows
<1>5. callable[w] <=> name[w] \in Runnable(req[w].op)
  BY <1>1, <1>3, Zenon DEF Worker, Copied
<1>6. CASE status'[w] = "RETURNED" /\ ran' = [ran EXCEPT ![w] = name[w]] /\ callable[w]
  <2>1. name[w] \in Runnable(req[w].op)
    BY <1>5, <1>6
  <2>2. ran' \in [Workers -> Functions \cup StreamFunctions \cup {NoName}] /\ ran'[w] = name[w]
    BY <1>6, <2>1 DEF Inv, TypeOK, Runnable
  <2>3. TypeOK'
    BY <1>1, <2>2 DEF Inv, TypeOK, tables
  <2>4. Serves(w)' /\ Knows(w)' /\ Copied(w)' /\ Answer(w)'
    BY <1>1, <1>4, <1>6, <2>1, <2>2 DEF Serves, Knows, Copied, Answer, Runnable
  <2>5. QED
    BY <1>1, <2>3, <2>4, OneWorker DEF Worker
<1>7. CASE status'[w] = "UNKNOWN" /\ UNCHANGED ran /\ ~callable[w]
  <2>1. name[w] \notin Runnable(req[w].op)
    BY <1>5, <1>7
  <2>2. TypeOK'
    BY <1>1, <1>7 DEF Inv, TypeOK, tables
  <2>3. Serves(w)' /\ Knows(w)' /\ Copied(w)' /\ Answer(w)'
    BY <1>1, <1>4, <1>7, <2>1 DEF Serves, Knows, Copied, Answer, Runnable
  <2>4. QED
    BY <1>1, <2>2, <2>3, OneWorker DEF Worker
<1>8. QED
  BY <1>2, <1>6, <1>7

\* A request arrives.
LEMMA BeginInv ==
  ASSUME Inv, NEW w \in Workers, NEW r \in Requests, Begin(w, r)
  PROVE  Inv'
<1>1. /\ req' = [req EXCEPT ![w] = r] /\ req'[w] = r /\ pc'[w] = r.op /\ ran'[w] = NoName
      /\ bound'[w] = {Binding(hooked_functions_, r.event_type)}
      /\ name' = [name EXCEPT ![w] = NoName]
      /\ callable' = [callable EXCEPT ![w] = FALSE]
      /\ ran' = [ran EXCEPT ![w] = NoName]
      /\ bound' = [bound EXCEPT ![w] = {Binding(hooked_functions_, r.event_type)}]
      /\ Shapes' /\ UNCHANGED tables
      /\ \A u \in Workers : u # w =>
           /\ pc'[u] = pc[u] /\ status'[u] = status[u] /\ req'[u] = req[u]
           /\ name'[u] = name[u] /\ callable'[u] = callable[u] /\ ran'[u] = ran[u]
           /\ bound'[u] = bound[u]
  BY DEF Begin, Inv, TypeOK, Shapes
<1>2. r.op \in {"hook", "unhook", "event", "streamEvent"}
  BY RequestHas
<1>3. Binding(hooked_functions_, r.event_type) \in Names \cup {Unhooked}
  BY BindingType DEF Inv, TypeOK
<1>4. TypeOK'
  <2>1. NoName \in Names
    BY DEF Names
  <2>2. name' \in [Workers -> Names] /\ callable' \in [Workers -> BOOLEAN]
    BY <1>1, <2>1 DEF Inv, TypeOK
  <2>3. /\ ran' \in [Workers -> Functions \cup StreamFunctions \cup {NoName}]
        /\ bound' \in [Workers -> SUBSET (Names \cup {Unhooked})]
        /\ req' \in [Workers -> Requests \cup {[op |-> "none"]}]
    BY <1>1, <1>3 DEF Inv, TypeOK
  <2>4. QED
    BY <1>1, <2>2, <2>3 DEF Inv, TypeOK, tables
<1>5. TablesOK'
  BY <1>1 DEF Inv, TablesOK, tables
<1>6. Worker(w)'
  BY <1>1, <1>2 DEF Worker, Serves, Knows, Copied, Answer, tables
<1>7. ASSUME NEW u \in Workers, u # w PROVE Worker(u)'
  BY <1>1, <1>7, Frame DEF Inv, tables
<1>8. QED
  BY <1>1, <1>4, <1>5, <1>6, <1>7 DEF Inv

\* A data race kills the process: no request that was being served is answered.
LEMMA DataRaceInv ==
  ASSUME Inv, NEW w \in Workers, NEW u \in Workers, DataRace(w, u)
  PROVE  Inv'
<1>1. /\ hooked_functions_' = NothingHooked
      /\ caw_functions_' = Holding(Functions)
      /\ caw_stream_functions_' = Holding(StreamFunctions)
      /\ pc' = [x \in Workers |-> "idle"]
      /\ status' = [x \in Workers |-> IF pc[x] = "idle" THEN status[x] ELSE "UNAVAILABLE"]
      /\ UNCHANGED <<req, name, callable, ran, bound, requests>>
  BY DEF DataRace, locals
<1>2. TypeOK' /\ Shapes'
  BY <1>1 DEF Inv, TypeOK, Shapes, NothingHooked, Holding, Names
<1>3. TablesOK'
  BY <1>1 DEF TablesOK, Holding
<1>4. ASSUME NEW x \in Workers PROVE Worker(x)'
  <2>1. Worker(x)
    BY DEF Inv
  <2>2. Serves(x)' /\ Knows(x)' /\ Copied(x)'
    BY <1>1 DEF Serves, Knows, Copied
  <2>3. Answer(x)'
    BY <1>1, <2>1 DEF Worker, Knows, Answer, Runnable
  <2>4. QED
    BY <2>2, <2>3 DEF Worker
<1>5. QED
  BY <1>2, <1>3, <1>4 DEF Inv

-----------------------------------------------------------------------------
\* The invariant holds.

\* Every step keeps it.
LEMMA InvNext == Inv /\ [Next]_vars => Inv'
<1> SUFFICES ASSUME Inv, [Next]_vars PROVE Inv'
  OBVIOUS
<1>1. CASE UNCHANGED vars
  <2> USE <1>1 DEF vars, tables, locals
  <2>1. TypeOK' /\ Shapes' /\ TablesOK'
    BY DEF Inv, TypeOK, Shapes, TablesOK
  <2>2. \A w \in Workers : Worker(w)'
    BY Frame DEF Inv
  <2>3. QED
    BY <2>1, <2>2 DEF Inv
<1>2. ASSUME NEW w \in Workers, Step(w) PROVE Inv'
  BY <1>2, FindInv, HookUnhookInv, EventNameInv, FunctionInv, EventCallInv DEF Step
<1>3. QED
  BY <1>1, <1>2, BeginInv, DataRaceInv DEF Next

\* In every behaviour.
LEMMA InvAlways == Spec => []Inv
BY InvInit, InvNext, PTL DEF Spec

\* Every variable has its type; in particular no overlap of the handlers takes
\* a function of the code out of its table (faz_server.cpp:41-58, 65-83).
THEOREM TypeCorrect == Spec => []TypeOK
<1>1. Inv => TypeOK
  BY DEF Inv
<1>2. QED
  BY <1>1, InvAlways, PTL

\* However hook, unhook, event and streamEvent interleave, and whatever a data
\* race destroys, an event is answered according to a function that was bound
\* to its type while it was served (faz_server.cpp:41-58, 65-83).
THEOREM EventsAreAnswered == Spec => []EventAnswer
<1>1. Inv => EventAnswer
  BY DEF Inv, Worker, Answer, EventAnswer
<1>2. QED
  BY <1>1, InvAlways, PTL

-----------------------------------------------------------------------------
\* One thread at a time.  With two, the run faz_race shows the contrary: an
\* unhook between the lookups of an event hooks the empty name.

AllFunctions == Functions \cup StreamFunctions

\* What was found, or read, is still so when the next step uses it.
Found(w) ==
  /\ pc[w] = "hook_set" => req[w].event_function \in AllFunctions
  /\ pc[w] = "event_name" => req[w].event_type \in DOMAIN hooked_functions_
  /\ pc[w] \in {"event_function", "stream_function"} => name[w] \in AllFunctions

\* operator[] on the tables of functions may leave an empty function of the
\* other kind in them, but no new name.
HookInv ==
  /\ HookedAreFunctions
  /\ DOMAIN caw_functions_ \subseteq AllFunctions
  /\ DOMAIN caw_stream_functions_ \subseteq AllFunctions
  /\ \A w \in Workers : Found(w)

\* Initially nothing is hooked and the tables hold what the code puts there.
LEMMA HookInit == Init => HookInv
BY DEF Init, HookInv, HookedAreFunctions, Found, NothingHooked, Holding, AllFunctions

\* A step of the only thread keeps it.
LEMMA HookStep ==
  ASSUME Inv, HookInv, NEW w \in Workers, Step(w), \A u \in Workers : u = w
  PROVE  HookInv'
<1> DEFINE e == req[w].event_type
<1>1. Shapes /\ Found(w) /\ HookedAreFunctions /\ name \in [Workers -> Names]
  BY DEF Inv, TypeOK, HookInv
<1>2. CASE Hook_Find(w) \/ Hook_FindStream(w) \/ Unhook_Find(w) \/ Event_Find(w)
  <2>1. /\ UNCHANGED <<hooked_functions_, caw_functions_, caw_stream_functions_, req, name>>
        /\ pc'[w] \notin {"event_function", "stream_function"}
        /\ pc'[w] = "hook_set" =>
             req[w].event_function \in DOMAIN caw_functions_ \cup DOMAIN caw_stream_functions_
        /\ pc'[w] = "event_name" => e \in DOMAIN hooked_functions_
    BY <1>1, <1>2 DEF Hook_Find, Hook_FindStream, Unhook_Find, Event_Find, Goto, Finish,
                      tables, locals, Shapes
  <2>2. Found(w)'
    BY <2>1 DEF Found, HookInv
  <2>3. QED
    BY <2>1, <2>2 DEF HookInv, HookedAreFunctions
<1>3. CASE Hook_Set(w)
  <2>1. /\ pc'[w] = "idle" /\ UNCHANGED <<caw_functions_, caw_stream_functions_>>
        /\ req[w].event_function \in AllFunctions
        /\ hooked_functions_' = Assign(hooked_functions_, e, req[w].event_function)
    BY <1>1, <1>3 DEF Hook_Set, SetHooked, Finish, Shapes, Found
  <2>2. HookedAreFunctions'
    BY <1>1, <2>1 DEF Assign, HookedAreFunctions, AllFunctions
  <2>3. Found(w)'
    BY <2>1 DEF Found
  <2>4. QED
    BY <2>1, <2>2, <2>3 DEF HookInv
<1>4. CASE Unhook_Erase(w)
  <2>1. /\ pc'[w] = "idle" /\ UNCHANGED <<caw_functions_, caw_stream_functions_>>
        /\ hooked_functions_' = [x \in DOMAIN hooked_functions_ \ {e} |-> hooked_functions_[x]]
    BY <1>1, <1>4 DEF Unhook_Erase, SetHooked, Finish, Shapes
  <2>2. HookedAreFunctions' /\ Found(w)'
    BY <1>1, <2>1 DEF HookedAreFunctions, Found
  <2>3. QED
    BY <2>1, <2>2 DEF HookInv
<1>5. CASE Event_Name(w)
  <2>1. e \in DOMAIN hooked_functions_
    BY <1>1, <1>5 DEF Event_Name, Found
  <2>2. Touch(hooked_functions_, e, NoName) = hooked_functions_
    BY <2>1 DEF Touch
  <2>3. /\ UNCHANGED <<hooked_functions_, caw_functions_, caw_stream_functions_>>
        /\ name'[w] = hooked_functions_[e]
        /\ pc'[w] \in {"event_function", "stream_function"}
    BY <1>1, <1>5, <2>2 DEF Event_Name, SetHooked, Goto, Shapes
  <2>4. name'[w] \in AllFunctions
    BY <1>1, <2>1, <2>3 DEF HookedAreFunctions, AllFunctions
  <2>5. Found(w)'
    BY <2>3, <2>4 DEF Found
  <2>6. QED
    BY <2>3, <2>5 DEF HookInv, HookedAreFunctions
<1>6. CASE Event_Function(w)
  <2>1. /\ pc'[w] = "event_call" /\ UNCHANGED <<hooked_functions_, caw_stream_functions_>>
        /\ name[w] \in AllFunctions
        /\ caw_functions_' = Touch(caw_functions_, name[w], FALSE)
    BY <1>1, <1>6 DEF Event_Function, Goto, Shapes, Found
  <2>2. DOMAIN caw_functions_' = DOMAIN caw_functions_ \cup {name[w]}
    BY <2>1 DEF Touch, Assign
  <2>3. Found(w)'
    BY <2>1 DEF Found
  <2>4. QED
    BY <2>1, <2>2, <2>3 DEF HookInv, HookedAreFunctions
<1>7. CASE StreamEvent_Function(w)
  <2>1. /\ pc'[w] = "event_call" /\ UNCHANGED <<hooked_functions_, caw_functions_>>
        /\ name[w] \in AllFunctions
        /\ caw_stream_functions_' = Touch(caw_stream_functions_, name[w], FALSE)
    BY <1>1, <1>7 DEF StreamEvent_Function, Goto, Shapes, Found
  <2>2. DOMAIN caw_stream_functions_' = DOMAIN caw_stream_functions_ \cup {name[w]}
    BY <2>1 DEF Touch, Assign
  <2>3. Found(w)'
    BY <2>1 DEF Found
  <2>4. QED
    BY <2>1, <2>2, <2>3 DEF HookInv, HookedAreFunctions
<1>8. CASE Event_Call(w)
  <2>1. pc'[w] = "idle"
        /\ UNCHANGED <<hooked_functions_, caw_functions_, caw_stream_functions_>>
    BY <1>1, <1>8 DEF Event_Call, Finish, tables, Shapes
  <2>2. QED
    BY <2>1 DEF HookInv, HookedAreFunctions, Found
<1>9. QED
  BY <1>2, <1>3, <1>4, <1>5, <1>6, <1>7, <1>8 DEF Step

\* Every step keeps it; a data race would need a second thread.
LEMMA HookNext ==
  ASSUME \A v, w \in Workers : v = w, Inv, HookInv, [Next]_vars
  PROVE  HookInv'
<1>1. CASE UNCHANGED vars
  BY <1>1 DEF vars, tables, locals, HookInv, HookedAreFunctions, Found
<1>2. ASSUME NEW w \in Workers, Step(w) PROVE HookInv'
  BY <1>2, HookStep
<1>3. ASSUME NEW w \in Workers, NEW r \in Requests, Begin(w, r) PROVE HookInv'
  <2>1. /\ UNCHANGED <<hooked_functions_, caw_functions_, caw_stream_functions_>>
        /\ pc'[w] \in {"hook", "unhook", "event", "streamEvent"}
    BY <1>3, RequestHas DEF Begin, tables, Inv, Shapes
  <2>2. QED
    BY <2>1 DEF HookInv, HookedAreFunctions, Found
<1>4. ASSUME NEW w \in Workers, NEW u \in Workers, DataRace(w, u) PROVE FALSE
  BY <1>4 DEF DataRace
<1>5. QED
  BY <1>1, <1>2, <1>3, <1>4 DEF Next

\* With one thread only functions are hooked, whatever clients hook, unhook and
\* call in whatever order (faz_server.cpp:3-58): a type found hooked is still
\* hooked when operator[] reads its name.
THEOREM FunctionsAreHooked ==
  ASSUME \A v, w \in Workers : v = w
  PROVE  Spec => []HookedAreFunctions
<1>1. Inv /\ HookInv /\ [Next]_vars => HookInv'
  BY HookNext
<1>2. HookInv => HookedAreFunctions
  BY DEF HookInv
<1>3. QED
  BY <1>1, <1>2, HookInit, InvAlways, PTL DEF Spec
=============================================================================
