--------------------------- MODULE CawClientProofs ---------------------------
(***************************************************************************)
(* Proofs about CawClient, for any number of clients and any tables that   *)
(* agree with each other.                                                  *)
(***************************************************************************)
EXTENDS CawClient, TLAPS

\* A type other than 0 is only ever hooked to the function whose type it is.
HooksAgree ==
  \A t \in DOMAIN hooked : \A c \in Clients : \A f \in DOMAIN Table(c) :
    Table(c)[f] = t => hooked[t] = f

\* The calls of the command that were made, and the types that are left.
Made(c) == CallsOf(c, running[c]) \ todo[c]
Left(c) == {call.type : call \in todo[c]}

\* How far an undisturbed HookAll has come.
HookProgress(c) ==
  running[c].flag = "hookall" /\ alone[c] =>
    /\ outcome[c] \in {"running", "true"} =>
         /\ DOMAIN hooked = found[c] \cup {call.type : call \in Made(c)}
         /\ \A call \in Made(c) : hooked[call.type] = call.name
    /\ outcome[c] = "false" => faz = "down"

\* How far an undisturbed UnhookAll has come.
UnhookProgress(c) ==
  running[c].flag = "unhookall" /\ alone[c] =>
    /\ outcome[c] \in {"running", "true"} =>
         /\ DOMAIN hooked = found[c] \ (Types(c) \ Left(c))
    /\ found[c] \ Types(c) \subseteq DOMAIN hooked
    /\ DOMAIN hooked \subseteq found[c]

Progress == \A c \in Clients : HookProgress(c) /\ UnhookProgress(c)

Inv == TypeOK /\ HooksAgree /\ EventRunsItsFunction /\ Progress

-----------------------------------------------------------------------------
\* What a call of a command looks like (CallsOf), flag by flag.
LEMMA CallShape ==
  ASSUME NEW c \in Clients, NEW cmd \in Commands(c), NEW call \in CallsOf(c, cmd)
  PROVE  /\ cmd.flag = "hookall" =>
              /\ call.call = "hook" /\ call.name \in DOMAIN Table(c)
              /\ call.type = Table(c)[call.name]
         /\ cmd.flag = "unhookall" => call.call = "unhook" /\ call.type \in Types(c)
         /\ cmd.flag = "hook" =>
              call.call = "hook" /\ call.name = cmd.name /\ call.type = EventType(c, cmd.name)
         /\ cmd.flag \in {"unhook", "event"} =>
              call.call = cmd.flag /\ call.type = EventType(c, cmd.name)
<1>1. cmd.flag \in {"hookall", "unhookall", "hook", "unhook", "event"}
  BY DEF Commands
<1>2. CASE cmd.flag = "hookall"
  BY <1>2 DEF CallsOf
<1>3. CASE cmd.flag = "unhookall"
  BY <1>3 DEF CallsOf
<1>4. CASE cmd.flag = "hook"
  BY <1>4 DEF CallsOf
<1>5. CASE cmd.flag \in {"unhook", "event"}
  BY <1>5 DEF CallsOf
<1>6. QED
  BY <1>1, <1>2, <1>3, <1>4, <1>5

\* What the call hook of a client binds: its function's type, or type 0.
LEMMA HookBinds ==
  ASSUME NEW c \in Clients, NEW cmd \in Commands(c), NEW call \in CallsOf(c, cmd),
         call.call = "hook"
  PROVE  /\ cmd.flag \in {"hookall", "hook"}
         /\ \/ call.name \in DOMAIN Table(c) /\ call.type = Table(c)[call.name]
            \/ call.type = 0
<1>1. cmd.flag \in {"hookall", "unhookall", "hook", "unhook", "event"}
  BY DEF Commands
<1>2. QED
  BY <1>1, CallShape DEF EventType

\* The types of a table are not 0, and belong to AllTypes.
LEMMA TableTypes ==
  ASSUME NEW c \in Clients, NEW f \in DOMAIN Table(c)
  PROVE  /\ Table(c)[f] \in Types(c) /\ Table(c)[f] \in AllTypes
         /\ Table(c)[f] # 0 /\ f \in Functions
<1>1. Table(c)[f] \in Types(c)
  BY DEF Types, Range
<1>2. Types(c) \subseteq Nat \ {0} /\ DOMAIN Table(c) \subseteq Functions
  BY ClientAssumption DEF Table, Types
<1>3. QED
  BY <1>1, <1>2 DEF AllTypes

\* An unhook names a type that some client knows, or 0.
LEMMA CallType ==
  ASSUME NEW c \in Clients, NEW cmd \in Commands(c), NEW call \in CallsOf(c, cmd)
  PROVE  call.type \in AllTypes \cup {0}
<1>1. cmd.flag \in {"hookall", "unhookall", "hook", "unhook", "event"}
  BY DEF Commands
<1>2. \A f : EventType(c, f) \in AllTypes \cup {0}
  BY TableTypes DEF EventType
<1>3. Types(c) \subseteq AllTypes
  BY DEF AllTypes
<1>4. QED
  BY <1>1, <1>2, <1>3, CallShape, TableTypes

\* No two calls of HookAll have one type.
LEMMA HookAllDistinct ==
  ASSUME NEW c \in Clients, NEW cmd \in Commands(c), cmd.flag = "hookall",
         NEW a \in CallsOf(c, cmd), NEW b \in CallsOf(c, cmd), a.type = b.type
  PROVE  a = b
<1>1. PICK f \in DOMAIN Table(c) : a = [call |-> "hook", type |-> Table(c)[f], name |-> f]
  BY DEF CallsOf
<1>2. PICK h \in DOMAIN Table(c) : b = [call |-> "hook", type |-> Table(c)[h], name |-> h]
  BY DEF CallsOf
<1>3. f = h
  BY <1>1, <1>2, ClientAssumption DEF Table
<1>4. QED
  BY <1>1, <1>2, <1>3

\* The calls of HookAll and of UnhookAll have exactly the types of the table.
LEMMA AllCalls ==
  ASSUME NEW c \in Clients, NEW cmd \in Commands(c), cmd.flag \in {"hookall", "unhookall"}
  PROVE  {call.type : call \in CallsOf(c, cmd)} = Types(c)
<1>1. CASE cmd.flag = "hookall"
  <2>1. ASSUME NEW t \in Types(c) PROVE \E call \in CallsOf(c, cmd) : call.type = t
    <3>1. PICK f \in DOMAIN Table(c) : Table(c)[f] = t
      BY DEF Types, Range
    <3>2. [call |-> "hook", type |-> t, name |-> f] \in CallsOf(c, cmd)
      BY <1>1, <3>1 DEF CallsOf
    <3>3. QED
      BY <3>2
  <2>2. \A call \in CallsOf(c, cmd) : call.type \in Types(c)
    BY <1>1, CallShape, TableTypes
  <2>3. QED
    BY <2>1, <2>2
<1>2. CASE cmd.flag = "unhookall"
  <2>1. ASSUME NEW t \in Types(c) PROVE \E call \in CallsOf(c, cmd) : call.type = t
    <3>1. [call |-> "unhook", type |-> t] \in CallsOf(c, cmd)
      BY <1>2 DEF CallsOf
    <3>2. QED
      BY <3>1
  <2>2. \A call \in CallsOf(c, cmd) : call.type \in Types(c)
    BY <1>2, CallShape
  <2>3. QED
    BY <2>1, <2>2
<1>3. QED
  BY <1>1, <1>2

\* Initially no command has run.
LEMMA InvInit == Init => Inv
<1> SUFFICES ASSUME Init PROVE Inv
  OBVIOUS
<1>1. TypeOK
  <2>1. \A c \in Clients : [flag |-> "hookall"] \in Commands(c)
    BY DEF Commands
  <2>2. DOMAIN NothingHooked = {} /\ Range(NothingHooked) = {}
    BY DEF NothingHooked, Range
  <2>3. QED
    BY <2>1, <2>2, ClientAssumption DEF Init, TypeOK
<1>2. HooksAgree
  BY DEF Init, HooksAgree, NothingHooked
<1>3. EventRunsItsFunction
  BY DEF Init, EventRunsItsFunction
<1>4. Progress
  BY DEF Init, Progress, HookProgress, UnhookProgress
<1>5. QED
  BY <1>1, <1>2, <1>3, <1>4 DEF Inv

-----------------------------------------------------------------------------
\* What Reply does to the process whose call succeeded, and to no other.
LEMMA ReplyOk ==
  ASSUME TypeOK, NEW c \in Clients, NEW call \in todo[c], Reply(c, call, TRUE)
  PROVE  /\ outcome[c] = "running"
         /\ todo'[c] = todo[c] \ {call}
         /\ outcome'[c] = IF todo'[c] = {} THEN "true" ELSE "running"
         /\ DOMAIN todo' = Clients
         /\ outcome' \in [Clients -> {"none", "running", "true", "false", "killed"}]
         /\ \A d \in Clients : d # c => todo'[d] = todo[d] /\ outcome'[d] = outcome[d]
         /\ \A d \in Clients : /\ todo'[d] \subseteq CallsOf(d, running[d])
                               /\ todo'[d] # {} <=> outcome'[d] = "running"
BY DEF Reply, TypeOK

\* The same for a call that failed.
LEMMA ReplyFails ==
  ASSUME TypeOK, NEW c \in Clients, NEW call \in todo[c], Reply(c, call, FALSE)
  PROVE  /\ outcome[c] = "running"
         /\ todo'[c] = {}
         /\ outcome'[c] = "false"
         /\ DOMAIN todo' = Clients
         /\ outcome' \in [Clients -> {"none", "running", "true", "false", "killed"}]
         /\ \A d \in Clients : d # c => todo'[d] = todo[d] /\ outcome'[d] = outcome[d]
         /\ \A d \in Clients : /\ todo'[d] \subseteq CallsOf(d, running[d])
                               /\ todo'[d] # {} <=> outcome'[d] = "running"
BY DEF Reply, TypeOK

\* A step that does not touch the hooks nor a process leaves its progress.
LEMMA ProgressFrame ==
  ASSUME NEW d \in Clients, HookProgress(d), UnhookProgress(d),
         faz' = faz, hooked' = hooked, running'[d] = running[d], found'[d] = found[d],
         alone'[d] = alone[d], todo'[d] = todo[d], outcome'[d] = outcome[d]
  PROVE  HookProgress(d)' /\ UnhookProgress(d)'
<1>1. Made(d)' = Made(d) /\ Left(d)' = Left(d)
  BY DEF Made, Left
<1>2. QED
  BY <1>1 DEF HookProgress, UnhookProgress

\* Nor does anybody who is disturbed make progress to speak of.
LEMMA ProgressDisturbed ==
  ASSUME NEW d \in Clients, ~alone'[d]
  PROVE  HookProgress(d)' /\ UnhookProgress(d)'
BY DEF HookProgress, UnhookProgress

\* A new command has made none of its calls.
LEMMA StartInv ==
  ASSUME Inv, NEW c \in Clients, Start(c)
  PROVE  Inv'
<1>1. PICK cmd \in Commands(c) : /\ running' = [running EXCEPT ![c] = cmd]
                                 /\ todo' = [todo EXCEPT ![c] = CallsOf(c, cmd)]
  BY DEF Start
<1>2. CallsOf(c, cmd) # {}
  <2>1. DOMAIN Table(c) # {} /\ Types(c) # {}
    <3>1. DOMAIN Table(c) # {}
      BY ClientAssumption DEF Table
    <3>2. PICK f : f \in DOMAIN Table(c)
      BY <3>1
    <3>3. Table(c)[f] \in Types(c)
      BY <3>2, TableTypes
    <3>4. QED
      BY <3>1, <3>3
  <2>2. CASE cmd.flag = "hookall"
    BY <2>1, <2>2 DEF CallsOf
  <2>3. CASE cmd.flag = "unhookall"
    BY <2>1, <2>3 DEF CallsOf
  <2>4. CASE cmd.flag \notin {"hookall", "unhookall"}
    BY <2>4 DEF CallsOf
  <2>5. QED
    BY <2>2, <2>3, <2>4
<1>3. TypeOK'
  BY <1>1, <1>2 DEF Inv, TypeOK, Start
<1>4. HooksAgree'
  BY DEF Inv, HooksAgree, Start
<1>5. EventRunsItsFunction'
  BY <1>1 DEF Inv, EventRunsItsFunction, TypeOK, Start
<1>6. ASSUME NEW d \in Clients PROVE HookProgress(d)' /\ UnhookProgress(d)'
  <2>1. CASE d # c
    BY <1>1, <2>1, ProgressFrame DEF Inv, Progress, TypeOK, Start
  <2>2. CASE d = c
    <3>1. /\ running'[c] = cmd /\ todo'[c] = CallsOf(c, cmd)
          /\ outcome'[c] = "running" /\ found'[c] = DOMAIN hooked /\ hooked' = hooked
      BY <1>1 DEF Inv, TypeOK, Start
    <3>2. Made(c)' = {}
      BY <3>1 DEF Made
    <3>3. HookProgress(c)'
      BY <3>1, <3>2 DEF HookProgress
    <3>4. ASSUME cmd.flag = "unhookall" PROVE Left(c)' = Types(c)
      <4>1. Left(c)' = {call.type : call \in CallsOf(c, cmd)}
        BY <3>1 DEF Left
      <4>2. QED
        BY <3>4, <4>1, AllCalls
    <3>5. UnhookProgress(c)'
      BY <3>1, <3>4 DEF UnhookProgress
    <3>6. QED
      BY <2>2, <3>3, <3>5
  <2>3. QED
    BY <2>1, <2>2
<1>7. QED
  BY <1>3, <1>4, <1>5, <1>6 DEF Inv, Progress

\* A hook binds a type to its function, and is one more call of HookAll.
LEMMA HookInv ==
  ASSUME Inv, NEW c \in Clients, Hook(c)
  PROVE  Inv'
<1>1. PICK call \in todo[c] :
        /\ call.call = "hook"
        /\ \/ /\ faz = "up" /\ call.name \in Functions
              /\ hooked' = [t \in DOMAIN hooked \cup {call.type} |->
                              IF t = call.type THEN call.name ELSE hooked[t]]
              /\ Reply(c, call, TRUE)
              /\ Interfere(c)
           \/ /\ faz = "down" \/ call.name \notin Functions
              /\ Reply(c, call, FALSE)
              /\ UNCHANGED <<hooked, alone>>
        /\ UNCHANGED ran
  BY DEF Hook
<1>2. /\ running[c] \in Commands(c)
      /\ call \in CallsOf(c, running[c])
      /\ running[c].flag \in {"hookall", "hook"}
      /\ call.type \in AllTypes \cup {0}
  BY <1>1, HookBinds, CallType DEF Inv, TypeOK
<1>3. CASE /\ faz = "up" /\ call.name \in Functions
           /\ hooked' = [t \in DOMAIN hooked \cup {call.type} |->
                           IF t = call.type THEN call.name ELSE hooked[t]]
           /\ Reply(c, call, TRUE)
           /\ Interfere(c)
  <2>1. UNCHANGED <<faz, running, found, commands, deaths>>
    BY <1>3 DEF Reply
  <2>2. alone' \in [Clients -> BOOLEAN] /\ alone'[c] = alone[c]
        /\ \A d \in Clients : d # c => ~alone'[d]
    BY <1>3 DEF Interfere, Inv, TypeOK
  <2>3. TypeOK'
    <3>1. DOMAIN hooked' \subseteq AllTypes \cup {0} /\ Range(hooked') \subseteq Functions
      BY <1>2, <1>3 DEF Inv, TypeOK, Range
    <3>2. QED
      BY <1>1, <1>3, <2>1, <2>2, <3>1, ReplyOk DEF Inv, TypeOK
  <2>4. HooksAgree'
    <3> SUFFICES ASSUME NEW t \in DOMAIN hooked', NEW d \in Clients,
                        NEW f \in DOMAIN Table(d), Table(d)[f] = t
                 PROVE  hooked'[t] = f
      BY DEF HooksAgree
    <3>1. CASE t # call.type
      BY <1>3, <3>1 DEF Inv, HooksAgree
    <3>2. CASE t = call.type
      <4>1. call.name \in DOMAIN Table(c) /\ call.type = Table(c)[call.name]
        BY <1>1, <1>2, <3>2, HookBinds, TableTypes
      <4>2. call.name = f
        BY <3>2, <4>1, ClientAssumption DEF Table
      <4>3. QED
        BY <1>3, <3>2, <4>2
    <3>3. QED
      BY <3>1, <3>2
  <2>5. EventRunsItsFunction'
    BY <1>1, <2>1 DEF Inv, EventRunsItsFunction
  <2>6. HookProgress(c)'
    <3> SUFFICES ASSUME running[c].flag = "hookall", alone[c]
                 PROVE  /\ outcome'[c] # "false"
                        /\ DOMAIN hooked' = found[c] \cup {a.type : a \in Made(c)'}
                        /\ \A a \in Made(c)' : hooked'[a.type] = a.name
      BY <2>1, <2>2 DEF HookProgress
    <3>1. outcome[c] = "running" /\ todo'[c] = todo[c] \ {call} /\ outcome'[c] # "false"
      BY <1>1, <1>3, ReplyOk DEF Inv
    <3>2. Made(c)' = Made(c) \cup {call} /\ call \notin Made(c)
      BY <1>1, <1>2, <2>1, <3>1 DEF Made
    <3>3. \A a \in Made(c) : a.type # call.type
      BY <1>2, <3>2, HookAllDistinct DEF Made
    <3>4. /\ DOMAIN hooked = found[c] \cup {a.type : a \in Made(c)}
          /\ \A a \in Made(c) : hooked[a.type] = a.name
      BY <3>1 DEF Inv, Progress, HookProgress
    <3>5. QED
      BY <1>3, <3>1, <3>2, <3>3, <3>4
  <2>7. UnhookProgress(c)'
    BY <1>2, <2>1 DEF UnhookProgress
  <2>8. Progress'
    BY <2>2, <2>6, <2>7, ProgressDisturbed DEF Progress
  <2>9. QED
    BY <2>3, <2>4, <2>5, <2>8 DEF Inv
<1>4. CASE /\ faz = "down" \/ call.name \notin Functions
           /\ Reply(c, call, FALSE)
           /\ UNCHANGED <<hooked, alone>>
  <2>1. UNCHANGED <<faz, running, found, commands, deaths>>
    BY <1>4 DEF Reply
  <2>2. TypeOK' /\ HooksAgree' /\ EventRunsItsFunction'
    BY <1>1, <1>4, <2>1, ReplyFails DEF Inv, TypeOK, HooksAgree, EventRunsItsFunction
  <2>3. ASSUME NEW d \in Clients, d # c PROVE HookProgress(d)' /\ UnhookProgress(d)'
    BY <1>1, <1>4, <2>1, <2>3, ReplyFails, ProgressFrame DEF Inv, Progress
  <2>4. HookProgress(c)'
    <3>1. running[c].flag = "hookall" => faz = "down"
      BY <1>2, <1>4, CallShape, TableTypes
    <3>2. outcome'[c] = "false"
      BY <1>1, <1>4, ReplyFails DEF Inv
    <3>3. QED
      BY <2>1, <3>1, <3>2 DEF HookProgress
  <2>5. UnhookProgress(c)'
    BY <1>2, <2>1 DEF UnhookProgress
  <2>6. QED
    BY <2>2, <2>3, <2>4, <2>5 DEF Inv, Progress
<1>5. QED
  BY <1>1, <1>3, <1>4

\* An unhook takes one type away, and is one more call of UnhookAll.
LEMMA UnhookInv ==
  ASSUME Inv, NEW c \in Clients, Unhook(c)
  PROVE  Inv'
<1>1. PICK call \in todo[c] :
        /\ call.call = "unhook"
        /\ \/ /\ call.type \in DOMAIN hooked
              /\ hooked' = Restrict(hooked, DOMAIN hooked \ {call.type})
              /\ Reply(c, call, TRUE)
              /\ Interfere(c)
           \/ /\ call.type \notin DOMAIN hooked
              /\ Reply(c, call, FALSE)
              /\ UNCHANGED <<hooked, alone>>
        /\ UNCHANGED ran
  BY DEF Unhook
<1>2. /\ running[c] \in Commands(c)
      /\ call \in CallsOf(c, running[c])
      /\ running[c].flag # "hookall"
  BY <1>1, CallShape DEF Inv, TypeOK
<1>3. outcome[c] = "running"
  BY <1>1 DEF Inv, TypeOK
<1>4. ASSUME running[c].flag = "unhookall"
      PROVE  /\ call.type \in Types(c)
             /\ Left(c) \subseteq Types(c) /\ call.type \in Left(c)
             /\ \A a \in todo[c] : a.type = call.type => a = call
  <2>1. \A a \in todo[c] : a \in {[call |-> "unhook", type |-> t] : t \in Types(c)}
    BY <1>4 DEF Inv, TypeOK, CallsOf
  <2>2. QED
    BY <1>1, <2>1 DEF Left
<1>5. CASE /\ call.type \in DOMAIN hooked
           /\ hooked' = Restrict(hooked, DOMAIN hooked \ {call.type})
           /\ Reply(c, call, TRUE)
           /\ Interfere(c)
  <2>1. UNCHANGED <<faz, running, found, commands, deaths>>
    BY <1>5 DEF Reply
  <2>2. alone' \in [Clients -> BOOLEAN] /\ alone'[c] = alone[c]
        /\ \A d \in Clients : d # c => ~alone'[d]
    BY <1>5 DEF Interfere, Inv, TypeOK
  <2>3. /\ DOMAIN hooked' = DOMAIN hooked \ {call.type}
        /\ \A t \in DOMAIN hooked' : hooked'[t] = hooked[t]
    BY <1>5 DEF Restrict
  <2>4. TypeOK'
    <3>1. DOMAIN hooked' \subseteq AllTypes \cup {0} /\ Range(hooked') \subseteq Functions
      BY <2>3 DEF Inv, TypeOK, Range
    <3>2. faz # "down"
      BY <1>5 DEF Inv, TypeOK, NothingHooked
    <3>3. QED
      BY <1>1, <1>5, <2>1, <2>2, <3>1, <3>2, ReplyOk DEF Inv, TypeOK
  <2>5. HooksAgree' /\ EventRunsItsFunction'
    BY <1>1, <2>1, <2>3 DEF Inv, HooksAgree, EventRunsItsFunction
  <2>6. HookProgress(c)'
    BY <1>2, <2>1 DEF HookProgress
  <2>7. UnhookProgress(c)'
    <3> SUFFICES ASSUME running[c].flag = "unhookall", alone[c]
                 PROVE  /\ outcome'[c] # "false"
                        /\ DOMAIN hooked' = found[c] \ (Types(c) \ Left(c)')
                        /\ found[c] \ Types(c) \subseteq DOMAIN hooked'
                        /\ DOMAIN hooked' \subseteq found[c]
      BY <2>1, <2>2 DEF UnhookProgress
    <3>1. todo'[c] = todo[c] \ {call} /\ outcome'[c] # "false"
      BY <1>1, <1>5, ReplyOk DEF Inv
    <3>2. Left(c)' = Left(c) \ {call.type}
      BY <1>1, <1>4, <3>1 DEF Left
    <3>3. DOMAIN hooked = found[c] \ (Types(c) \ Left(c))
      BY <1>3 DEF Inv, Progress, UnhookProgress
    <3>4. QED
      BY <1>4, <1>5, <2>3, <3>1, <3>2, <3>3
  <2>8. Progress'
    BY <2>2, <2>6, <2>7, ProgressDisturbed DEF Progress
  <2>9. QED
    BY <2>4, <2>5, <2>8 DEF Inv
<1>6. CASE /\ call.type \notin DOMAIN hooked
           /\ Reply(c, call, FALSE)
           /\ UNCHANGED <<hooked, alone>>
  <2>1. UNCHANGED <<faz, running, found, commands, deaths>>
    BY <1>6 DEF Reply
  <2>2. TypeOK' /\ HooksAgree' /\ EventRunsItsFunction'
    BY <1>1, <1>6, <2>1, ReplyFails DEF Inv, TypeOK, HooksAgree, EventRunsItsFunction
  <2>3. ASSUME NEW d \in Clients, d # c PROVE HookProgress(d)' /\ UnhookProgress(d)'
    BY <1>1, <1>6, <2>1, <2>3, ReplyFails, ProgressFrame DEF Inv, Progress
  <2>4. HookProgress(c)'
    BY <1>2, <2>1 DEF HookProgress
  <2>5. UnhookProgress(c)'
    <3> SUFFICES ASSUME running[c].flag = "unhookall", alone[c]
                 PROVE  /\ found[c] \ Types(c) \subseteq DOMAIN hooked
                        /\ DOMAIN hooked \subseteq found[c]
                        /\ outcome'[c] = "false"
      BY <1>6, <2>1 DEF UnhookProgress
    <3>1. DOMAIN hooked = found[c] \ (Types(c) \ Left(c))
      BY <1>3 DEF Inv, Progress, UnhookProgress
    <3>2. outcome'[c] = "false"
      BY <1>1, <1>6, ReplyFails DEF Inv
    <3>3. QED
      BY <1>4, <1>6, <3>1, <3>2
  <2>6. QED
    BY <2>2, <2>3, <2>4, <2>5 DEF Inv, Progress
<1>7. QED
  BY <1>1, <1>5, <1>6

\* An event runs what its type is hooked to, and HooksAgree says what that is.
LEMMA EventInv ==
  ASSUME Inv, NEW c \in Clients, Event(c)
  PROVE  Inv'
<1>1. PICK call \in todo[c] :
        /\ call.call = "event"
        /\ \/ /\ call.type \in DOMAIN hooked
              /\ ran' = [ran EXCEPT ![c] = hooked[call.type]]
              /\ \E ok \in BOOLEAN : Reply(c, call, ok)
           \/ /\ call.type \notin DOMAIN hooked
              /\ Reply(c, call, FALSE)
              /\ UNCHANGED ran
        /\ UNCHANGED <<hooked, alone>>
  BY DEF Event
<1>2. /\ running[c] \in Commands(c)
      /\ running[c].flag = "event"
      /\ running[c].name \in DOMAIN Table(c)
      /\ call.type = Table(c)[running[c].name]
  <2>1. running[c] \in Commands(c) /\ call \in CallsOf(c, running[c])
    BY <1>1 DEF Inv, TypeOK
  <2>2. running[c].flag \in {"hookall", "unhookall", "hook", "unhook", "event"}
    BY <2>1 DEF Commands
  <2>3. running[c].flag = "event" /\ call.type = EventType(c, running[c].name)
    BY <1>1, <2>1, <2>2, CallShape
  <2>4. running[c].name \in DOMAIN Table(c)
    BY <2>1, <2>3 DEF Commands
  <2>5. QED
    BY <2>1, <2>3, <2>4 DEF EventType
<1>3. Reply(c, call, TRUE) \/ Reply(c, call, FALSE)
  BY <1>1
<1>4. UNCHANGED <<faz, running, found, commands, deaths, hooked, alone>>
  BY <1>1, <1>3 DEF Reply
<1>5. ran' \in [Clients -> Functions \cup {NoName}] /\ ran'[c] \in {ran[c], running[c].name}
      /\ \A d \in Clients : d # c => ran'[d] = ran[d]
  <2>1. CASE UNCHANGED ran
    BY <2>1 DEF Inv, TypeOK
  <2>2. CASE call.type \in DOMAIN hooked /\ ran' = [ran EXCEPT ![c] = hooked[call.type]]
    <3>1. hooked[call.type] = running[c].name
      BY <1>2, <2>2 DEF Inv, HooksAgree
    <3>2. running[c].name \in Functions
      BY <1>2, TableTypes
    <3>3. QED
      BY <2>2, <3>1, <3>2 DEF Inv, TypeOK
  <2>3. QED
    BY <1>1, <2>1, <2>2
<1>6. TypeOK'
  BY <1>1, <1>3, <1>4, <1>5, ReplyOk, ReplyFails DEF Inv, TypeOK
<1>7. HooksAgree' /\ EventRunsItsFunction'
  BY <1>2, <1>4, <1>5 DEF Inv, HooksAgree, EventRunsItsFunction
<1>8. ASSUME NEW d \in Clients PROVE HookProgress(d)' /\ UnhookProgress(d)'
  <2>1. CASE d = c
    BY <1>2, <1>4, <2>1 DEF HookProgress, UnhookProgress
  <2>2. CASE d # c
    <3>1. todo'[d] = todo[d] /\ outcome'[d] = outcome[d]
      BY <1>1, <1>3, <2>2, ReplyOk, ReplyFails DEF Inv
    <3>2. QED
      BY <1>4, <3>1, ProgressFrame DEF Inv, Progress
  <2>3. QED
    BY <2>1, <2>2
<1>9. QED
  BY <1>6, <1>7, <1>8 DEF Inv, Progress

\* A process that is killed reports nothing.
LEMMA KillInv ==
  ASSUME Inv, NEW c \in Clients, Kill(c)
  PROVE  Inv'
<1>1. TypeOK' /\ HooksAgree' /\ EventRunsItsFunction'
  BY DEF Inv, TypeOK, HooksAgree, EventRunsItsFunction, Kill, history
<1>2. ASSUME NEW d \in Clients PROVE HookProgress(d)' /\ UnhookProgress(d)'
  <2>1. CASE d = c
    <3>1. outcome'[c] = "killed"
      BY DEF Kill, Inv, TypeOK
    <3>2. UNCHANGED <<running, alone, found, hooked>>
      BY DEF Kill, history
    <3>3. QED
      BY <2>1, <3>1, <3>2 DEF Inv, Progress, HookProgress, UnhookProgress
  <2>2. CASE d # c
    BY <2>2, ProgressFrame DEF Inv, Progress, TypeOK, Kill, history
  <2>3. QED
    BY <2>1, <2>2
<1>3. QED
  BY <1>1, <1>2 DEF Inv, Progress

\* The death and the start of Faz disturb everybody.
LEMMA FazInv ==
  ASSUME Inv, Faz_Dies \/ Faz_Starts
  PROVE  Inv'
<1>1. hooked' = NothingHooked /\ alone' = [c \in Clients |-> FALSE]
      /\ UNCHANGED <<running, outcome, todo, ran, found, commands>>
      /\ faz' \in {"up", "down"} /\ deaths' \in Nat
  BY DEF Inv, TypeOK, Faz_Dies, Faz_Starts, clientVars
<1>2. DOMAIN NothingHooked = {} /\ Range(NothingHooked) = {}
  BY DEF NothingHooked, Range
<1>3. TypeOK' /\ HooksAgree' /\ EventRunsItsFunction'
  BY <1>1, <1>2 DEF Inv, TypeOK, HooksAgree, EventRunsItsFunction
<1>4. Progress'
  BY <1>1, ProgressDisturbed DEF Progress
<1>5. QED
  BY <1>3, <1>4 DEF Inv

\* Inv is kept by every step of every client and of Faz.
THEOREM InvNext == Inv /\ [Next]_vars => Inv'
<1> SUFFICES ASSUME Inv, [Next]_vars PROVE Inv'
  OBVIOUS
<1>1. CASE Next
  BY <1>1, StartInv, HookInv, UnhookInv, EventInv, KillInv, FazInv DEF Next
<1>2. CASE UNCHANGED vars
  <2>1. TypeOK' /\ HooksAgree' /\ EventRunsItsFunction'
    BY <1>2 DEF vars, clientVars, history, Inv, TypeOK, HooksAgree, EventRunsItsFunction
  <2>2. Progress'
    BY <1>2, ProgressFrame DEF vars, clientVars, history, Inv, Progress
  <2>3. QED
    BY <2>1, <2>2 DEF Inv
<1>3. QED
  BY <1>1, <1>2

\* The invariant holds in every behaviour.
LEMMA InvAlways == Spec => []Inv
BY InvInit, InvNext, PTL DEF Spec

\* Every variable has its type, and no process that has ended makes a call.
THEOREM TypeCorrect == Spec => []TypeOK
<1>1. Inv => TypeOK
  BY DEF Inv
<1>2. QED
  BY <1>1, InvAlways, PTL

\* An event runs the function its user asked for, whatever the other clients did.
THEOREM EventsAreRight == Spec => []EventRunsItsFunction
<1>1. Inv => EventRunsItsFunction
  BY DEF Inv
<1>2. QED
  BY <1>1, InvAlways, PTL

\* What an undisturbed HookAll reports is true.
THEOREM HookAllIsTrue == Spec => []HookAllReport
<1>1. Inv => HookAllReport
  <2> SUFFICES ASSUME Inv, NEW c \in Clients, running[c].flag = "hookall", alone[c]
               PROVE  /\ outcome[c] = "true" =>
                           /\ DOMAIN hooked = found[c] \cup Types(c)
                           /\ \A f \in DOMAIN Table(c) : hooked[Table(c)[f]] = f
                      /\ outcome[c] = "false" => faz = "down"
    BY DEF HookAllReport
  <2>1. outcome[c] = "false" => faz = "down"
    BY DEF Inv, Progress, HookProgress
  <2>2. ASSUME outcome[c] = "true"
        PROVE  /\ DOMAIN hooked = found[c] \cup Types(c)
               /\ \A f \in DOMAIN Table(c) : hooked[Table(c)[f]] = f
    <3>1. running[c] \in Commands(c) /\ todo[c] = {}
      BY <2>2 DEF Inv, TypeOK
    <3>2. Made(c) = CallsOf(c, running[c])
      BY <3>1 DEF Made
    <3>3. {call.type : call \in Made(c)} = Types(c)
      BY <3>1, <3>2, AllCalls
    <3>4. DOMAIN hooked = found[c] \cup Types(c)
      BY <2>2, <3>3 DEF Inv, Progress, HookProgress
    <3>5. \A f \in DOMAIN Table(c) : hooked[Table(c)[f]] = f
      BY <3>4, TableTypes DEF Inv, HooksAgree
    <3>6. QED
      BY <3>4, <3>5
  <2>3. QED
    BY <2>1, <2>2
<1>2. QED
  BY <1>1, InvAlways, PTL

\* An undisturbed UnhookAll touches no hook but those of its table, and leaves
\* none of those when it succeeds, for any tables, clients and names.
THEOREM UnhookAllIsTrue == Spec => []UnhookAllReport
<1>1. Inv => UnhookAllReport
  <2> SUFFICES ASSUME Inv, NEW c \in Clients, running[c].flag = "unhookall", alone[c]
               PROVE  /\ outcome[c] = "true" => DOMAIN hooked \cap Types(c) = {}
                      /\ found[c] \ Types(c) \subseteq DOMAIN hooked
                      /\ DOMAIN hooked \subseteq found[c]
    BY DEF UnhookAllReport
  <2>1. ASSUME outcome[c] = "true" PROVE DOMAIN hooked \cap Types(c) = {}
    <3>1. Left(c) = {}
      BY <2>1 DEF Inv, TypeOK, Left
    <3>2. DOMAIN hooked = found[c] \ Types(c)
      BY <2>1, <3>1 DEF Inv, Progress, UnhookProgress
    <3>3. QED
      BY <3>2
  <2>2. QED
    BY <2>1 DEF Inv, Progress, UnhookProgress
<1>2. QED
  BY <1>1, InvAlways, PTL
=============================================================================
