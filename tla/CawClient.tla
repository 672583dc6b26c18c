------------------------------ MODULE CawClient ------------------------------
(***************************************************************************)
(* The command-line clients, in C++ and in Go, that hook, unhook and call  *)
(* functions.  A process runs one command: a sequence of remote calls to   *)
(* Faz that stops at the first call that fails.  Several processes run at  *)
(* the same time, and each may be killed between two calls; Faz may die    *)
(* too, and it keeps its hooks in memory only.                             *)
(*                                                                         *)
(* A call is one step here.  What happens inside the handlers of Faz, and  *)
(* when two of them overlap, is in FazServer.tla; what an event does, in   *)
(* CawFunctions.tla and StreamTag.tla.                                     *)
(***************************************************************************)
EXTENDS Naturals, FiniteSets, Functions

CONSTANTS
  Clients,        \* processes
  Kind,           \* Kind[c]: the client program c runs
  Functions,      \* names Faz has a function for
  Typos,          \* other names a user may type
  EventTypeIn,    \* EventTypeIn[k]: functionToEventType_ of program k
  NoName,         \* marker
  MaxCommands,    \* bound: commands in a behaviour
  MaxDeaths       \* bound: deaths of Faz

ASSUME ClientAssumption ==
  /\ \A c \in Clients : /\ DOMAIN EventTypeIn[Kind[c]] \in (SUBSET Functions) \ {{}}
                        /\ Range(EventTypeIn[Kind[c]]) \subseteq Nat \ {0}
  \* The tables are written twice and agree: no two names have one event type.
  /\ \A c, d \in Clients : \A f \in DOMAIN EventTypeIn[Kind[c]] :
       \A h \in DOMAIN EventTypeIn[Kind[d]] :
         EventTypeIn[Kind[c]][f] = EventTypeIn[Kind[d]][h] => f = h
  /\ NoName \notin Functions
  /\ Functions \cap Typos = {}
  /\ {MaxCommands, MaxDeaths} \subseteq Nat

VARIABLES
  faz,         \* is Faz running?
  hooked,      \* hooked_functions_
  running,     \* the command of each process
  outcome,     \* "running", then the result of the command, or "killed"
  todo,        \* the calls it has still to make
  ran,         \* history: the function the event of the process ran, or NoName
  found,       \* history: the event types hooked when it started
  alone,       \* history: hooked was not changed by anyone else since
  commands, deaths

clientVars == <<running, outcome, todo>>
history == <<ran, found, alone>>
vars == <<faz, hooked, clientVars, history, commands, deaths>>

Table(c) == EventTypeIn[Kind[c]]
Types(c) == Range(Table(c))

\* Mutant: a name that is not in the table is given a type that is.
EventType_First(c, f) ==
  IF f \in DOMAIN Table(c)
    THEN Table(c)[f]
    ELSE CHOOSE t \in Types(c) : \A u \in Types(c) : t <= u

\* functionToEventType_[f]: a missing key is 0, in both languages.
EventType(c, f) == IF f \in DOMAIN Table(c) THEN Table(c)[f] ELSE 0

Commands(c) ==
  [flag : {"hookall", "unhookall"}]
    \cup [flag : {"hook", "unhook"}, name : Functions \cup Typos]
    \cup [flag : {"event"}, name : DOMAIN Table(c)]

\* The calls of a command.  HookAll and UnhookAll walk through a hash map, so
\* a set says all there is to know of their order.
CallsOf(c, cmd) ==
  IF cmd.flag = "hookall" THEN
    {[call |-> "hook", type |-> Table(c)[f], name |-> f] : f \in DOMAIN Table(c)}
  ELSE IF cmd.flag = "unhookall" THEN
    {[call |-> "unhook", type |-> t] : t \in Types(c)}
  ELSE IF cmd.flag = "hook" THEN
    {[call |-> "hook", type |-> EventType(c, cmd.name), name |-> cmd.name]}
  ELSE {[call |-> cmd.flag, type |-> EventType(c, cmd.name)]}

NothingHooked == [t \in {} |-> NoName]

Init ==
  /\ faz = "up"
  /\ hooked = NothingHooked
  /\ running = [c \in Clients |-> [flag |-> "hookall"]]
  /\ outcome = [c \in Clients |-> "none"]
  /\ todo = [c \in Clients |-> {}]
  /\ ran = [c \in Clients |-> NoName]
  /\ found = [c \in Clients |-> {}]
  /\ alone = [c \in Clients |-> FALSE]
  /\ commands = 0 /\ deaths = 0

-----------------------------------------------------------------------------
\* A user runs the program.
Start(c) ==
  /\ outcome[c] # "running"
  /\ commands < MaxCommands
  /\ commands' = commands + 1
  /\ \E cmd \in Commands(c) :
       /\ running' = [running EXCEPT ![c] = cmd]
       /\ todo' = [todo EXCEPT ![c] = CallsOf(c, cmd)]
  /\ outcome' = [outcome EXCEPT ![c] = "running"]
  /\ ran' = [ran EXCEPT ![c] = NoName]
  /\ found' = [found EXCEPT ![c] = DOMAIN hooked]
  /\ alone' = [alone EXCEPT ![c] = TRUE]
  /\ UNCHANGED <<faz, hooked, deaths>>

\* Mutants: the status is not looked at; a failure leaves the rest to do.
Reply_Ignored(c, call, ok) ==
  /\ todo' = [todo EXCEPT ![c] = @ \ {call}]
  /\ outcome' = [outcome EXCEPT ![c] = IF todo'[c] = {} THEN "true" ELSE "running"]
  /\ UNCHANGED <<faz, running, found, commands, deaths>>

Reply_Unfinished(c, call, ok) ==
  /\ outcome' = [outcome EXCEPT ![c] =
                   IF ~ok THEN "false" ELSE IF todo[c] = {call} THEN "true" ELSE "running"]
  /\ todo' = [todo EXCEPT ![c] = @ \ {call}]
  /\ UNCHANGED <<faz, running, found, commands, deaths>>

\* The first status that is not OK ends the command: `return false`, or
\* log.Fatalf in the Go client.
Reply(c, call, ok) ==
  /\ todo' = [todo EXCEPT ![c] = IF ok THEN @ \ {call} ELSE {}]
  /\ outcome' = [outcome EXCEPT ![c] =
                   IF ~ok THEN "false" ELSE IF todo'[c] = {} THEN "true" ELSE "running"]
  /\ UNCHANGED <<faz, running, found, commands, deaths>>

\* c has changed the hooks.
Interfere(c) == alone' = [d \in Clients |-> d = c /\ alone[d]]

Hook(c) ==
  \E call \in todo[c] :
    /\ call.call = "hook"
    /\ \/ /\ faz = "up" /\ call.name \in Functions
          /\ hooked' = [t \in DOMAIN hooked \cup {call.type} |->
                          IF t = call.type THEN call.name ELSE hooked[t]]
          /\ Reply(c, call, TRUE)
          /\ Interfere(c)
       \/ /\ faz = "down" \/ call.name \notin Functions
          /\ Reply(c, call, FALSE)
          /\ UNCHANGED <<hooked, alone>>
    /\ UNCHANGED ran

\* Mutant: erase takes everything.
Unhook_Clears(c) ==
  \E call \in todo[c] :
    /\ call.call = "unhook"
    /\ \/ /\ call.type \in DOMAIN hooked
          /\ hooked' = NothingHooked
          /\ Reply(c, call, TRUE)
          /\ Interfere(c)
       \/ /\ call.type \notin DOMAIN hooked
          /\ Reply(c, call, FALSE)
          /\ UNCHANGED <<hooked, alone>>
    /\ UNCHANGED ran

\* With Faz down nothing is hooked, and the call fails as well.
Unhook(c) ==
  \E call \in todo[c] :
    /\ call.call = "unhook"
    /\ \/ /\ call.type \in DOMAIN hooked
          /\ hooked' = Restrict(hooked, DOMAIN hooked \ {call.type})
          /\ Reply(c, call, TRUE)
          /\ Interfere(c)
       \/ /\ call.type \notin DOMAIN hooked
          /\ Reply(c, call, FALSE)
          /\ UNCHANGED <<hooked, alone>>
    /\ UNCHANGED ran

\* event, or streamEvent for a hashtag: Faz runs the function the type is
\* hooked to, and its status becomes the result of the command.
Event(c) ==
  \E call \in todo[c] :
    /\ call.call = "event"
    /\ \/ /\ call.type \in DOMAIN hooked
          /\ ran' = [ran EXCEPT ![c] = hooked[call.type]]
          /\ \E ok \in BOOLEAN : Reply(c, call, ok)
       \/ /\ call.type \notin DOMAIN hooked
          /\ Reply(c, call, FALSE)
          /\ UNCHANGED ran
    /\ UNCHANGED <<hooked, alone>>

\* The user stops the program between two calls.
Kill(c) ==
  /\ outcome[c] = "running"
  /\ outcome' = [outcome EXCEPT ![c] = "killed"]
  /\ todo' = [todo EXCEPT ![c] = {}]
  /\ UNCHANGED <<faz, hooked, running, history, commands, deaths>>

\* Faz dies and is started again, with nothing hooked.
Faz_Dies ==
  /\ faz = "up"
  /\ deaths < MaxDeaths
  /\ deaths' = deaths + 1
  /\ faz' = "down"
  /\ hooked' = NothingHooked
  /\ alone' = [c \in Clients |-> FALSE]
  /\ UNCHANGED <<clientVars, ran, found, commands>>

Faz_Starts ==
  /\ faz = "down"
  /\ faz' = "up"
  /\ alone' = [c \in Clients |-> FALSE]
  /\ UNCHANGED <<hooked, clientVars, ran, found, commands, deaths>>

Next == \/ \E c \in Clients : Start(c) \/ Hook(c) \/ Unhook(c) \/ Event(c) \/ Kill(c)
        \/ Faz_Dies \/ Faz_Starts

Spec == Init /\ [][Next]_vars

-----------------------------------------------------------------------------
AllTypes == UNION {Types(c) : c \in Clients}

\* Every variable has its type; a process that has ended makes no more calls,
\* and while Faz is down nothing is hooked.
TypeOK ==
  /\ faz \in {"up", "down"}
  /\ DOMAIN hooked \subseteq AllTypes \cup {0} /\ Range(hooked) \subseteq Functions
  /\ faz = "down" => hooked = NothingHooked
  /\ DOMAIN running = Clients /\ DOMAIN todo = Clients
  /\ outcome \in [Clients -> {"none", "running", "true", "false", "killed"}]
  /\ \A c \in Clients : /\ running[c] \in Commands(c)
                        /\ todo[c] \subseteq CallsOf(c, running[c])
                        /\ todo[c] # {} <=> outcome[c] = "running"
  /\ ran \in [Clients -> Functions \cup {NoName}]
  /\ found \in [Clients -> SUBSET (AllTypes \cup {0})]
  /\ alone \in [Clients -> BOOLEAN]
  /\ commands \in Nat /\ deaths \in Nat

\* Whatever clients of both kinds did before, and however many of their
\* commands stopped half way, an event runs the function its user asked for or
\* none: type 0, which names without a type share, never shadows another one
\* (functionToEventType_[...] in caw_client.cpp:242-265, faz_server.cpp:47).
EventRunsItsFunction ==
  \A c \in Clients :
    running[c].flag = "event" => ran[c] \in {running[c].name, NoName}

\* A HookAll that nobody disturbs leaves the functions of its table hooked and
\* the other hooks as they were, from whatever state it started, and says so; it
\* fails only when Faz cannot be reached (caw_client.cpp:267-278).
HookAllReport ==
  \A c \in Clients :
    /\ running[c].flag = "hookall"
    /\ alone[c]
    => /\ outcome[c] = "true" => /\ DOMAIN hooked = found[c] \cup Types(c)
                                 /\ \A f \in DOMAIN Table(c) : hooked[Table(c)[f]] = f
       /\ outcome[c] = "false" => faz = "down"

\* An UnhookAll that nobody disturbs leaves the hooks alone that are not in its
\* table and makes no new ones, however it ends; and when it says that it
\* succeeded, nothing of its table is hooked (caw_client.cpp:280-291).
UnhookAllReport ==
  \A c \in Clients :
    /\ running[c].flag = "unhookall"
    /\ alone[c]
    => /\ outcome[c] = "true" => DOMAIN hooked \cap Types(c) = {}
       /\ found[c] \ Types(c) \subseteq DOMAIN hooked
       /\ DOMAIN hooked \subseteq found[c]

\* "You can also unhook all functions by running `<client> --unhookall`"
\* (README.md:87): when an undisturbed UnhookAll has ended, nothing is hooked.
UnhookAllUnhooks ==
  \A c \in Clients :
    /\ running[c].flag = "unhookall"
    /\ alone[c]
    /\ outcome[c] \in {"true", "false"}
    => hooked = NothingHooked
=============================================================================
