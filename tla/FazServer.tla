------------------------------ MODULE FazServer ------------------------------
(***************************************************************************)
(* src/faz/server: the table of hooked functions and the two tables of     *)
(* functions, used without a lock by the threads of a synchronous gRPC     *)
(* server.                                                                 *)
(*                                                                         *)
(* One action per access to a table.  Two overlapping accesses of which    *)
(* one modifies the table are a data race: either some order of them       *)
(* happens, or the process dies.                                           *)
(***************************************************************************)
EXTENDS Naturals

CONSTANTS
  Workers,          \* Faz server threads
  EventTypes,
  Functions,        \* the names in caw_functions_ from the start
  StreamFunctions,  \* the names in caw_stream_functions_ from the start
  NoName,           \* the empty string
  OtherNames,       \* further names a client may ask to hook
  Unhooked,         \* history marker: no function is bound
  MaxRequests       \* bound: requests started in a behaviour

Names == Functions \cup StreamFunctions \cup OtherNames \cup {NoName}

ASSUME NamesAssumption ==
  /\ NoName \notin Functions \cup StreamFunctions
  /\ Functions \cap StreamFunctions = {}
  /\ Unhooked \notin Names
  /\ MaxRequests \in Nat

VARIABLES
  hooked_functions_, caw_functions_, caw_stream_functions_,
  pc, req,     \* each thread: where it is, and the request it serves or served
  name,        \* event, streamEvent: functionName
  callable,    \* event, streamEvent: the function copied from its table is not empty
  status,      \* the status returned for req
  ran,         \* history: the function that ran for req
  bound,       \* history: what was bound to the event type of req while it was served
  requests

locals == <<name, callable, ran>>
tables == <<hooked_functions_, caw_functions_, caw_stream_functions_>>
vars == <<tables, pc, req, locals, status, bound, requests>>

Requests ==
  [op : {"hook"}, event_type : EventTypes, event_function : Names]
    \cup [op : {"unhook", "event", "streamEvent"}, event_type : EventTypes]

\* An entry of a function table is TRUE when it holds a function, and FALSE
\* when it holds the empty std::function operator[] made.
Holding(names) == [n \in names |-> TRUE]
NothingHooked == [e \in {} |-> NoName]

Init == /\ hooked_functions_ = NothingHooked
        /\ caw_functions_ = Holding(Functions)
        /\ caw_stream_functions_ = Holding(StreamFunctions)
        /\ pc = [w \in Workers |-> "idle"]
        /\ req = [w \in Workers |-> [op |-> "none"]]
        /\ name = [w \in Workers |-> NoName]
        /\ callable = [w \in Workers |-> FALSE]
        /\ status = [w \in Workers |-> "none"]
        /\ ran = [w \in Workers |-> NoName]
        /\ bound = [w \in Workers |-> {}]
        /\ requests = 0

-----------------------------------------------------------------------------
\* table[key] = value, and what table[key] leaves behind when it only reads.
Assign(table, k, v) ==
  [x \in DOMAIN table \cup {k} |-> IF x = k THEN v ELSE table[x]]
Touch(table, k, default) == IF k \in DOMAIN table THEN table ELSE Assign(table, k, default)

Binding(table, e) == IF e \in DOMAIN table THEN table[e] ELSE Unhooked

\* Every change of hooked_functions_ is seen by the requests being served.
SetHooked(table) ==
  /\ hooked_functions_' = table
  /\ bound' = [w \in Workers |-> IF pc[w] = "idle" THEN bound[w]
                                 ELSE bound[w] \cup {Binding(table, req[w].event_type)}]

Goto(w, label) == /\ pc' = [pc EXCEPT ![w] = label]
                  /\ UNCHANGED status
Finish(w, s) == /\ pc' = [pc EXCEPT ![w] = "idle"]
                /\ status' = [status EXCEPT ![w] = s]

Begin(w, r) ==
  /\ pc[w] = "idle"
  /\ requests < MaxRequests
  /\ requests' = requests + 1
  /\ req' = [req EXCEPT ![w] = r]
  /\ name' = [name EXCEPT ![w] = NoName]
  /\ callable' = [callable EXCEPT ![w] = FALSE]
  /\ ran' = [ran EXCEPT ![w] = NoName]
  /\ bound' = [bound EXCEPT ![w] = {Binding(hooked_functions_, r.event_type)}]
  /\ status' = [status EXCEPT ![w] = "none"]
  /\ pc' = [pc EXCEPT ![w] = r.op]
  /\ UNCHANGED tables

\* hook: find in caw_functions_, find in caw_stream_functions_, assign.
Hook_Find(w) ==
  /\ pc[w] = "hook"
  /\ Goto(w, IF req[w].event_function \in DOMAIN caw_functions_
               THEN "hook_set" ELSE "hook_find_stream")
  /\ UNCHANGED <<tables, req, locals, bound, requests>>

Hook_FindStream(w) ==
  /\ pc[w] = "hook_find_stream"
  /\ IF req[w].event_function \in DOMAIN caw_stream_functions_
       THEN Goto(w, "hook_set") ELSE Finish(w, "NOT_FOUND")
  /\ UNCHANGED <<tables, req, locals, bound, requests>>

Hook_Set(w) ==
  /\ pc[w] = "hook_set"
  /\ SetHooked(Assign(hooked_functions_, req[w].event_type, req[w].event_function))
  /\ Finish(w, "OK")
  /\ UNCHANGED <<caw_functions_, caw_stream_functions_, req, locals, requests>>

\* unhook: find, erase.
Unhook_Find(w) ==
  /\ pc[w] = "unhook"
  /\ IF req[w].event_type \in DOMAIN hooked_functions_
       THEN Goto(w, "unhook_erase") ELSE Finish(w, "NOT_FOUND")
  /\ UNCHANGED <<tables, req, locals, bound, requests>>

Unhook_Erase(w) ==
  /\ pc[w] = "unhook_erase"
  /\ SetHooked([e \in DOMAIN hooked_functions_ \ {req[w].event_type} |->
                  hooked_functions_[e]])
  /\ Finish(w, "OK")
  /\ UNCHANGED <<caw_functions_, caw_stream_functions_, req, locals, requests>>

\* event and streamEvent: find the type, read its function name, copy the
\* function from its table, call it.
Event_Find(w) ==
  /\ pc[w] \in {"event", "streamEvent"}
  /\ IF req[w].event_type \in DOMAIN hooked_functions_
       THEN Goto(w, "event_name") ELSE Finish(w, "NOT_FOUND")
  /\ UNCHANGED <<tables, req, locals, bound, requests>>

\* operator[]: a type that was unhooked meanwhile is hooked to "".
Event_Name(w) ==
  /\ pc[w] = "event_name"
  /\ SetHooked(Touch(hooked_functions_, req[w].event_type, NoName))
  /\ name' = [name EXCEPT ![w] = hooked_functions_'[req[w].event_type]]
  /\ Goto(w, IF req[w].op = "event" THEN "event_function" ELSE "stream_function")
  /\ UNCHANGED <<caw_functions_, caw_stream_functions_, req, callable, ran, requests>>

\* Mutants: the function is moved out of the table; every entry is callable.
Event_Function_Moves(w) ==
  /\ pc[w] = "event_function"
  /\ caw_functions_' = [n \in DOMAIN caw_functions_ \ {name[w]} |-> caw_functions_[n]]
  /\ callable' = [callable EXCEPT ![w] = name[w] \in DOMAIN caw_functions_]
  /\ Goto(w, "event_call")
  /\ UNCHANGED <<hooked_functions_, caw_stream_functions_, req, name, ran, bound, requests>>

Event_Function_Default(w) ==
  /\ pc[w] = "event_function"
  /\ caw_functions_' = Touch(caw_functions_, name[w], TRUE)
  /\ callable' = [callable EXCEPT ![w] = TRUE]
  /\ Goto(w, "event_call")
  /\ UNCHANGED <<hooked_functions_, caw_stream_functions_, req, name, ran, bound, requests>>

\* operator[] again: a name that is not in the table gets an empty function.
Event_Function(w) ==
  /\ pc[w] = "event_function"
  /\ caw_functions_' = Touch(caw_functions_, name[w], FALSE)
  /\ callable' = [callable EXCEPT ![w] = caw_functions_'[name[w]]]
  /\ Goto(w, "event_call")
  /\ UNCHANGED <<hooked_functions_, caw_stream_functions_, req, name, ran, bound, requests>>

StreamEvent_Function(w) ==
  /\ pc[w] = "stream_function"
  /\ caw_stream_functions_' = Touch(caw_stream_functions_, name[w], FALSE)
  /\ callable' = [callable EXCEPT ![w] = caw_stream_functions_'[name[w]]]
  /\ Goto(w, "event_call")
  /\ UNCHANGED <<hooked_functions_, caw_functions_, req, name, ran, bound, requests>>

\* The function returns a status of its own; calling an empty function throws
\* std::bad_function_call, which gRPC turns into the status UNKNOWN.
Event_Call(w) ==
  /\ pc[w] = "event_call"
  /\ \/ /\ callable[w]
        /\ ran' = [ran EXCEPT ![w] = name[w]]
        /\ Finish(w, "RETURNED")
     \/ /\ ~callable[w]
        /\ UNCHANGED ran
        /\ Finish(w, "UNKNOWN")
  /\ UNCHANGED <<tables, req, name, callable, bound, requests>>

\* What the next step of w accesses, and whether it modifies it.
Accesses(w) ==
  CASE pc[w] \in {"hook_set", "unhook", "unhook_erase", "event", "streamEvent",
                  "event_name"} -> "hooked_functions_"
    [] pc[w] \in {"hook", "event_function"} -> "caw_functions_"
    [] pc[w] \in {"hook_find_stream", "stream_function"} -> "caw_stream_functions_"
    [] OTHER -> "none"
Modifies(w) ==
  \/ pc[w] = "hook_set"
  \/ pc[w] = "unhook_erase" /\ req[w].event_type \in DOMAIN hooked_functions_
  \/ pc[w] = "event_name" /\ req[w].event_type \notin DOMAIN hooked_functions_
  \/ pc[w] = "event_function" /\ name[w] \notin DOMAIN caw_functions_
  \/ pc[w] = "stream_function" /\ name[w] \notin DOMAIN caw_stream_functions_

\* A data race may kill the process; Faz then starts again with nothing hooked.
DataRace(w, u) ==
  /\ w # u
  /\ Modifies(w)
  /\ Accesses(w) = Accesses(u)
  /\ hooked_functions_' = NothingHooked
  /\ caw_functions_' = Holding(Functions)
  /\ caw_stream_functions_' = Holding(StreamFunctions)
  /\ pc' = [x \in Workers |-> "idle"]
  /\ status' = [x \in Workers |-> IF pc[x] = "idle" THEN status[x] ELSE "UNAVAILABLE"]
  /\ UNCHANGED <<req, locals, bound, requests>>

Step(w) == \/ Hook_Find(w) \/ Hook_FindStream(w) \/ Hook_Set(w)
           \/ Unhook_Find(w) \/ Unhook_Erase(w)
           \/ Event_Find(w) \/ Event_Name(w) \/ Event_Function(w)
           \/ StreamEvent_Function(w) \/ Event_Call(w)

Next == \/ \E w \in Workers : Step(w) \/ \E r \in Requests : Begin(w, r)
        \/ \E w, u \in Workers : DataRace(w, u)

Spec == Init /\ [][Next]_vars

-----------------------------------------------------------------------------
\* Every variable has its type.
TypeOK ==
  /\ DOMAIN hooked_functions_ \subseteq EventTypes
  /\ \A e \in DOMAIN hooked_functions_ : hooked_functions_[e] \in Names
  /\ Functions \subseteq DOMAIN caw_functions_ /\ DOMAIN caw_functions_ \subseteq Names
  /\ StreamFunctions \subseteq DOMAIN caw_stream_functions_
  /\ DOMAIN caw_stream_functions_ \subseteq Names
  /\ req \in [Workers -> Requests \cup {[op |-> "none"]}]
  /\ name \in [Workers -> Names]
  /\ callable \in [Workers -> BOOLEAN]
  /\ ran \in [Workers -> Functions \cup StreamFunctions \cup {NoName}]
  /\ bound \in [Workers -> SUBSET (Names \cup {Unhooked})]

\* The functions the two kinds of event can call.
Runnable(op) == IF op = "event" THEN Functions ELSE StreamFunctions

\* However hook, unhook and event overlap, an event is answered according to
\* what was bound to its type at some moment while it was served: it runs only
\* a function bound to the type, of the right kind; it reports NOT_FOUND only
\* if nothing was bound; it fails only if no function of the kind was
\* (faz_server.cpp:41-58 and 65-83).
EventAnswer ==
  \A w \in Workers :
    pc[w] = "idle" /\ req[w].op \in {"event", "streamEvent"} =>
      /\ status[w] = "RETURNED" => ran[w] \in bound[w] \cap Runnable(req[w].op)
      /\ status[w] = "NOT_FOUND" => Unhooked \in bound[w]
      /\ status[w] = "UNKNOWN" => ~ (bound[w] \subseteq Runnable(req[w].op))
      /\ status[w] # "RETURNED" => ran[w] = NoName

\* Only functions are hooked: an event type is registered "with a string that
\* will correspond to a function name" (faz_server.h:96-98).
HookedAreFunctions ==
  \A e \in DOMAIN hooked_functions_ :
    hooked_functions_[e] \in Functions \cup StreamFunctions

=============================================================================
