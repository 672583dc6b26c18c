------------------------------- MODULE TagFeed -------------------------------
(***************************************************************************)
(* What a hashtag stream promises its user, without the processes and      *)
(* buffers in between: from the moment the stream is subscribed its user   *)
(* receives the values put with its tag, in the order they were put, each  *)
(* as often as the tag occurs in it, none left out.  A subscription is     *)
(* made once, and it ends only when the connection has broken; then the    *)
(* user receives no more than what was put before.  StreamTag implements   *)
(* it.                                                                     *)
(***************************************************************************)
EXTENDS Naturals, Sequences

CONSTANTS Streams, Values,
          Occurrences   \* Occurrences[s][v]: how often the tag of stream s is in v

VARIABLES
  subscription,  \* of each stream: "new", then "on", then "over"
  broken,        \* the streams whose connection has broken
  owed,          \* what was put for each stream while it was subscribed
  received       \* what its user got

vars == <<subscription, broken, owed, received>>

Init == /\ subscription = [s \in Streams |-> "new"]
        /\ broken = {}
        /\ owed = [s \in Streams |-> <<>>]
        /\ received = [s \in Streams |-> <<>>]

Subscribe(s) == /\ subscription[s] = "new"
                /\ subscription' = [subscription EXCEPT ![s] = "on"]
                /\ UNCHANGED <<broken, owed, received>>

\* The connections of S break, and the subscriptions of some that have are over.
Fail(S) ==
  /\ broken' = broken \cup S
  /\ \E D \in SUBSET broken' :
       subscription' = [s \in Streams |-> IF s \in D THEN "over" ELSE subscription[s]]
  /\ UNCHANGED <<owed, received>>

\* A value goes to a stream once for each time the stream's tag occurs in it.
Put(v) ==
  /\ owed' = [s \in Streams |->
                IF subscription[s] = "on"
                  THEN owed[s] \o [n \in 1 .. Occurrences[s][v] |-> v]
                  ELSE owed[s]]
  /\ UNCHANGED <<subscription, broken, received>>

\* The next value owed, and no other.
Receive(s) ==
  /\ Len(received[s]) < Len(owed[s])
  /\ received' = [received EXCEPT ![s] = Append(@, owed[s][Len(@) + 1])]
  /\ UNCHANGED <<subscription, broken, owed>>

Next == \/ \E s \in Streams : Subscribe(s) \/ Receive(s)
        \/ \E S \in SUBSET Streams : Fail(S)
        \/ \E v \in Values : Put(v)

Spec == Init /\ [][Next]_vars
=============================================================================
