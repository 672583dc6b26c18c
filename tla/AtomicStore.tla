----------------------------- MODULE AtomicStore -----------------------------
(***************************************************************************)
(* What the key-value store promises its callers: every call takes effect  *)
(* at one instant between its invocation and its return, and answers from  *)
(* the map as it is at that instant.  KeyValueStore implements it.         *)
(***************************************************************************)
EXTENDS StoreOps

CONSTANTS Threads, Requests, NoRequest, NoReply

VARIABLES store, request, reply

vars == <<store, request, reply>>

Init == /\ store = EmptyStore
        /\ request = [t \in Threads |-> NoRequest]
        /\ reply = [t \in Threads |-> NoReply]

Invoke(t, r) == /\ request[t] = NoRequest
                /\ request' = [request EXCEPT ![t] = r]
                /\ UNCHANGED <<store, reply>>

\* The instant at which the pending call of t takes effect.
Effect(r) == CASE r.op = "Put"    -> PutInto(store, r.key, r.value)
               [] r.op = "Remove" -> EraseFrom(store, r.key)
               [] OTHER           -> store

Answer(r) == [ok      |-> r.op = "Remove" => r.key \in DOMAIN store,
              values  |-> IF r.op = "Get" THEN Lookup(store, r.key) ELSE <<>>,
              entries |-> IF r.op = "GetAllEntries" THEN store ELSE EmptyStore]

Perform(t) == /\ request[t] # NoRequest
              /\ reply[t] = NoReply
              /\ store' = Effect(request[t])
              /\ reply' = [reply EXCEPT ![t] = Answer(request[t])]
              /\ UNCHANGED request

Return(t) == /\ reply[t] # NoReply
             /\ request' = [request EXCEPT ![t] = NoRequest]
             /\ reply' = [reply EXCEPT ![t] = NoReply]
             /\ UNCHANGED store

Next == \E t \in Threads : \/ \E r \in Requests : Invoke(t, r)
                           \/ Perform(t)
                           \/ Return(t)

Spec == Init /\ [][Next]_vars
=============================================================================
