--------------------------- MODULE StreamTagProofs ---------------------------
(***************************************************************************)
(* Proofs about StreamTag, for any number of streams, tags, values and     *)
(* deaths and for any window: nothing is lost or reordered while nothing   *)
(* fails, no live stream falls silent, and the pipeline implements         *)
(* TagFeed.                                                                *)
(***************************************************************************)
EXTENDS StreamTag, SequenceFacts, FiniteSetTheorems

-----------------------------------------------------------------------------
\* The invariant.

\* A stream is listed once, under its own tag, and its thread spins.
Listed ==
  \A g \in Tags :
    /\ \A i \in DOMAIN sub_map_[g] : /\ Hashtag[sub_map_[g][i]] = g
                                     /\ store[sub_map_[g][i]] = "spin"
    /\ \A i, j \in DOMAIN sub_map_[g] : sub_map_[g][i] = sub_map_[g][j] => i = j

\* Where nothing has started nothing is owed nor on its way, and the Faz
\* thread holds no message while it reads.
Quiet(s) ==
  /\ client[s] = "idle" => faz[s] = "none"
  /\ faz[s] \in {"none", "subscribe"} => store[s] = "none"
  /\ store[s] \in {"none", "lock"} =>
       /\ owed[s] = <<>> /\ received[s] = <<>>
       /\ toClient[s] = <<>> /\ response[s] = <<>> /\ fromStore[s] = <<>>
  /\ faz[s] = "read" => response[s] = <<>>

\* What the user got, then what is on its way to him.
Along(s) == ((received[s] \o toClient[s]) \o response[s]) \o fromStore[s]

\* A stream of which neither end has stopped, though the call to the store may
\* have broken.
Flowing(s) == client[s] = "reading" /\ faz[s] \in {"subscribe", "read", "write"}

\* Nothing overtakes and nothing is made up: Along is a prefix of what was owed
\* as long as the stream flows, and all of it if the call is whole.
InOrder(s) ==
  /\ IsPrefix(received[s] \o toClient[s], owed[s])
  /\ Flowing(s) => IsPrefix(Along(s), owed[s])
  /\ Whole(s) => Along(s) \o Due(s) = owed[s]

Inv == /\ TypeOK /\ Listed /\ NoSilentStream
       /\ \A s \in Streams : Quiet(s) /\ InOrder(s)

-----------------------------------------------------------------------------
\* Copies of a value.
LEMMA CopiesType ==
  ASSUME NEW v \in Values, NEW P, IsFiniteSet(P)
  PROVE  Copies(v, P) \in Seq(Values)
<1>1. Cardinality(P) \in Nat
  BY FS_CardinalityType
<1>2. QED
  BY <1>1 DEF Copies

LEMMA CopiesNone == \A v : Copies(v, {}) = <<>>
BY FS_EmptySet DEF Copies

\* One copy, then those for the other places.
LEMMA CopiesFirst ==
  ASSUME NEW v \in Values, NEW P, IsFiniteSet(P), NEW x \in P
  PROVE  Copies(v, P) = <<v>> \o Copies(v, P \ {x})
<1> DEFINE c == Cardinality(P)  d == Cardinality(P \ {x})
           e == [n \in 1 .. c |-> v]  r == [n \in 1 .. d |-> v]
<1>1. c \in Nat /\ d \in Nat /\ c = d + 1
  <2>1. IsFiniteSet(P \ {x}) /\ d = c - 1
    BY FS_RemoveElement
  <2>2. c \in Nat /\ d \in Nat
    BY <2>1, FS_CardinalityType
  <2> HIDE DEF c, d
  <2>3. QED
    BY <2>1, <2>2
<1>2. Copies(v, P) = e /\ Copies(v, P \ {x}) = r
  BY DEF Copies
<1> HIDE DEF c, d
<1>3. /\ e \in Seq(Values) /\ r \in Seq(Values) /\ Len(e) = c /\ Len(r) = d
      /\ (\A i \in 1 .. c : e[i] = v) /\ (\A i \in 1 .. d : r[i] = v)
  BY <1>1
<1> HIDE DEF e, r
<1>4. <<v>> \in Seq(Values) /\ Len(<<v>>) = 1 /\ <<v>>[1] = v
  OBVIOUS
<1>5. /\ <<v>> \o r \in Seq(Values) /\ Len(<<v>> \o r) = 1 + d
      /\ \A i \in 1 .. 1 + d : (<<v>> \o r)[i] = IF i <= 1 THEN <<v>>[i] ELSE r[i - 1]
  BY <1>1, <1>3, <1>4, ConcatProperties
<1>6. \A i \in 1 .. c : (<<v>> \o r)[i] = e[i]
  BY <1>1, <1>3, <1>4, <1>5
<1>7. e = <<v>> \o r
  <2> DEFINE w == <<v>> \o r
  <2>1. w \in Seq(Values) /\ Len(w) = c /\ \A i \in 1 .. c : w[i] = e[i]
    BY <1>1, <1>5, <1>6
  <2> HIDE DEF w
  <2>2. e = w
    BY <1>3, <2>1, SeqEqual
  <2>3. QED
    BY <2>2 DEF w
<1>8. QED
  BY <1>2, <1>7

\* A Put has finitely many turns to go.
LEMMA TurnsFinite ==
  ASSUME TypeOK, NEW s
  PROVE  IsFiniteSet(Turns(s))
<1>1. CASE putting = NoValue
  BY <1>1, FS_EmptySet DEF Turns
<1>2. CASE putting # NoValue
  <2> DEFINE n == Len(TagsOf[putting])
  <2>1. tag \in Int /\ n \in Int
    BY <1>2, StreamAssumption DEF TypeOK
  <2>2. IsFiniteSet(tag .. n)
    BY <2>1, FS_Interval
  <2>3. Turns(s) \in SUBSET (tag .. n)
    BY <1>2 DEF Turns
  <2>4. QED
    BY <2>2, <2>3, FS_Subset
<1>3. QED
  BY <1>1, <1>2

\* What is due are values.
LEMMA DueType ==
  ASSUME TypeOK, NEW s
  PROVE  Due(s) \in Seq(Values)
<1>1. CASE putting = NoValue
  <2>1. Due(s) = <<>>
    BY <1>1, CopiesNone DEF Due, Turns
  <2>2. QED
    BY <2>1
<1>2. CASE putting # NoValue
  BY <1>2, TurnsFinite, CopiesType DEF Due, TypeOK
<1>3. QED
  BY <1>1, <1>2

\* The types of the sequences of one stream.
LEMMA Types ==
  ASSUME TypeOK, NEW s \in Streams
  PROVE  /\ received[s] \in Seq(Values) /\ owed[s] \in Seq(Values)
         /\ toClient[s] \in Seq(Values) /\ response[s] \in Seq(Values)
         /\ fromStore[s] \in Seq(Values) /\ Due(s) \in Seq(Values)
         /\ received[s] \o toClient[s] \in Seq(Values)
         /\ (received[s] \o toClient[s]) \o response[s] \in Seq(Values)
         /\ Along(s) \in Seq(Values)
<1>1. /\ received[s] \in Seq(Values) /\ owed[s] \in Seq(Values)
      /\ toClient[s] \in Seq(Values) /\ response[s] \in Seq(Values)
      /\ fromStore[s] \in Seq(Values)
  <2>1. <<>> \in Seq(Values) /\ \A v \in Values : <<v>> \in Seq(Values)
    OBVIOUS
  <2>2. response[s] = <<>> \/ \E v \in Values : response[s] = <<v>>
    BY DEF TypeOK
  <2>3. response[s] \in Seq(Values)
    BY <2>1, <2>2
  <2>4. QED
    BY <2>3 DEF TypeOK
<1>2. Due(s) \in Seq(Values)
  BY DueType
<1>3. received[s] \o toClient[s] \in Seq(Values)
  BY <1>1, ConcatProperties
<1>4. (received[s] \o toClient[s]) \o response[s] \in Seq(Values)
  BY <1>1, <1>3, ConcatProperties
<1>5. Along(s) \in Seq(Values)
  BY <1>1, <1>4, ConcatProperties DEF Along
<1>6. QED
  BY <1>1, <1>2, <1>3, <1>4, <1>5

\* Along with the parentheses of Transit.
LEMMA AlongTransit ==
  ASSUME TypeOK, NEW s \in Streams
  PROVE  received[s] \o Transit(s) = Along(s)
<1> DEFINE r == received[s]  c == toClient[s]  m == response[s]  f == fromStore[s]
<1>1. r \in Seq(Values) /\ c \in Seq(Values) /\ m \in Seq(Values) /\ f \in Seq(Values)
  BY Types
<1> HIDE DEF r, c, m, f
<1> DEFINE e == c \o m
<1>2. e \in Seq(Values)
  BY <1>1, ConcatProperties
<1>3. Associative(r, e, f)
  <2> HIDE DEF e
  <2> QED
    BY <1>1, <1>2, ConcatIsAssociative
<1>4. Associative(r, c, m)
  BY <1>1, ConcatIsAssociative
<1>5. QED
  BY <1>3, <1>4 DEF Associative, Transit, Along, r, c, m, f

\* A stream whose part of the state does not change keeps its invariant.
LEMMA Frame ==
  ASSUME NEW d \in Streams, Quiet(d), InOrder(d),
         client'[d] = client[d], faz'[d] = faz[d], store'[d] = store[d],
         toClient'[d] = toClient[d], response'[d] = response[d],
         fromStore'[d] = fromStore[d], received'[d] = received[d], owed'[d] = owed[d],
         Due(d)' = Due(d), d \in cut => d \in cut'
  PROVE  Quiet(d)' /\ InOrder(d)'
<1>1. Quiet(d)'
  BY DEF Quiet
<1>2. Along(d)' = Along(d) /\ Flowing(d)' = Flowing(d) /\ (Whole(d)' => Whole(d))
  BY DEF Along, Flowing, Whole
<1>3. InOrder(d)'
  BY <1>2 DEF InOrder
<1>4. QED
  BY <1>1, <1>3

\* The loop of a Put is where it was.
LEMMA SameDue ==
  ASSUME UNCHANGED <<sub_map_, putting, tag, it>>
  PROVE  \A d \in Streams : Due(d)' = Due(d)
BY DEF Due, Turns

\* A Put has nothing for a stream whose thread does not spin.
LEMMA NotDue ==
  ASSUME TypeOK, Listed, NEW s \in Streams, store[s] # "spin"
  PROVE  Due(s) = <<>>
<1>1. Turns(s) = {}
  <2>1. CASE putting = NoValue
    BY <2>1 DEF Turns
  <2>2. CASE putting # NoValue
    <3> DEFINE T == TagsOf[putting]
    <3>1. T \in Seq(Tags) /\ tag \in Nat \ {0} /\ it \in Nat \ {0} /\ Len(T) \in Nat
      BY <2>2, StreamAssumption DEF TypeOK
    <3> HIDE DEF T
    <3>2. ASSUME NEW i \in tag .. Len(T),
                 NEW j \in (IF i = tag THEN it ELSE 1) .. Len(sub_map_[T[i]])
          PROVE  sub_map_[T[i]][j] # s
      <4>1. T[i] \in Tags
        BY <3>1
      <4>2. sub_map_[T[i]] \in Seq(Streams) /\ Len(sub_map_[T[i]]) \in Nat
        BY <4>1 DEF TypeOK
      <4>3. j \in 1 .. Len(sub_map_[T[i]])
        BY <3>1, <4>2
      <4>4. store[sub_map_[T[i]][j]] = "spin"
        BY <4>1, <4>2, <4>3 DEF Listed
      <4>5. QED
        BY <4>4
    <3>3. QED
      BY <2>2, <3>2 DEF Turns, T
  <2>3. QED
    BY <2>1, <2>2
<1>2. QED
  BY <1>1, CopiesNone DEF Due

\* Initially nothing flows.
LEMMA InvInit == Init => Inv
<1> SUFFICES ASSUME Init PROVE Inv
  OBVIOUS
<1>1. <<>> \in Seq(Values) /\ Len(<<>>) = 0 /\ <<>> \in Seq(Streams)
  OBVIOUS
<1>2. TypeOK
  BY <1>1, StreamAssumption DEF Init, TypeOK, NothingYet
<1>3. Listed /\ NoSilentStream
  BY DEF Init, Listed, NoSilentStream
<1>4. ASSUME NEW s \in Streams PROVE Quiet(s) /\ InOrder(s)
  <2>1. Quiet(s)
    BY DEF Init, Quiet, NothingYet
  <2>2. received[s] \o toClient[s] = <<>> /\ owed[s] = <<>>
    BY <1>1, ConcatEmptySeq DEF Init, NothingYet
  <2>3. ~Flowing(s) /\ ~Whole(s)
    BY DEF Init, Flowing, Whole
  <2>4. IsPrefix(<<>>, <<>>)
    BY <1>1 DEF IsPrefix
  <2>5. QED
    BY <2>1, <2>2, <2>3, <2>4 DEF InOrder
<1>5. QED
  BY <1>2, <1>3, <1>4 DEF Inv

-----------------------------------------------------------------------------
\* One lemma per action; what each says is that it keeps the invariant.

\* A step of one stream's own threads has to keep that stream's part.
LEMMA OneStream ==
  ASSUME Inv, TypeOK', Listed', NEW s \in Streams,
         \A d \in Streams : d # s =>
           /\ client'[d] = client[d] /\ faz'[d] = faz[d] /\ store'[d] = store[d]
           /\ toClient'[d] = toClient[d] /\ response'[d] = response[d]
           /\ fromStore'[d] = fromStore[d] /\ received'[d] = received[d],
         UNCHANGED <<owed, cut, sub_map_, putting, tag, it>>,
         faz'[s] \in {"read", "write"} /\ s \notin cut =>
           \/ store'[s] = "lock"
           \/ store'[s] = "spin" /\ s \in ToSet(sub_map_[Hashtag[s]]),
         Quiet(s)', InOrder(s)'
  PROVE  Inv'
<1>1. ASSUME NEW d \in Streams PROVE Quiet(d)' /\ InOrder(d)'
  <2>1. CASE d = s
    BY <2>1
  <2>2. CASE d # s
    BY <2>2, Frame, SameDue DEF Inv
  <2>3. QED
    BY <2>1, <2>2
<1>2. NoSilentStream'
  BY DEF Inv, NoSilentStream
<1>3. QED
  BY <1>1, <1>2 DEF Inv

\* The client calls.
LEMMA StreamEventInv ==
  ASSUME Inv, NEW s \in Streams, StreamEvent(s)
  PROVE  Inv'
<1> USE DEF hops, storeVars
<1>1. TypeOK' /\ Listed'
  BY DEF Inv, TypeOK, Listed, StreamEvent
<1>2. NoSilentStream'
  BY DEF Inv, TypeOK, NoSilentStream, StreamEvent
<1>3. ASSUME NEW d \in Streams, d # s PROVE Quiet(d)' /\ InOrder(d)'
  BY <1>3, Frame, SameDue DEF Inv, TypeOK, StreamEvent
<1>4. /\ client'[s] = "reading" /\ faz'[s] = "subscribe" /\ store[s] = "none"
      /\ owed[s] = <<>> /\ received[s] = <<>> /\ toClient[s] = <<>>
      /\ response[s] = <<>> /\ fromStore[s] = <<>>
      /\ UNCHANGED <<owed, received, hops, storeVars>>
  BY DEF Inv, TypeOK, Quiet, StreamEvent
<1>5. Quiet(s)'
  BY <1>4 DEF Quiet
<1>6. Due(s)' = <<>>
  BY <1>4, NotDue, SameDue DEF Inv
<1>7. <<>> \in Seq(Values) /\ <<>> \o <<>> = <<>> /\ IsPrefix(<<>>, <<>>)
  BY ConcatEmptySeq DEF IsPrefix
<1>8. Along(s)' = <<>>
  BY <1>4, <1>7 DEF Along
<1>9. InOrder(s)'
  BY <1>4, <1>6, <1>7, <1>8 DEF InOrder
<1>10. QED
  BY <1>1, <1>2, <1>3, <1>5, <1>9 DEF Inv

\* The client reads a message.
LEMMA ClientReadInv ==
  ASSUME Inv, NEW s \in Streams, Client_Read(s)
  PROVE  Inv'
<1> USE DEF hops, storeVars
<1>1. /\ Head(toClient[s]) \in Values /\ Tail(toClient[s]) \in Seq(Values)
      /\ Len(Tail(toClient[s])) = Len(toClient[s]) - 1
      /\ Append(received[s], Head(toClient[s])) \in Seq(Values)
      /\ Append(received[s], Head(toClient[s])) \o Tail(toClient[s])
           = received[s] \o toClient[s]
  <2>1. toClient[s] # <<>> /\ toClient[s] \in Seq(Values) /\ received[s] \in Seq(Values)
    BY Types DEF Client_Read, Inv
  <2> DEFINE q == toClient[s]  p == received[s]
  <2>2. q # <<>> /\ q \in Seq(Values) /\ p \in Seq(Values)
    BY <2>1
  <2> HIDE DEF q, p
  <2>3. /\ Head(q) \in Values /\ Tail(q) \in Seq(Values) /\ Len(Tail(q)) = Len(q) - 1
        /\ Append(p, Head(q)) \o Tail(q) = p \o q
    BY <2>2, Shift
  <2>4. Append(p, Head(q)) \in Seq(Values)
    BY <2>2, <2>3, AppendProperties
  <2>5. QED
    BY <2>3, <2>4 DEF q, p
<1>2. /\ received'[s] = Append(received[s], Head(toClient[s]))
      /\ toClient'[s] = Tail(toClient[s])
      /\ \A d \in Streams : d # s => received'[d] = received[d] /\ toClient'[d] = toClient[d]
      /\ UNCHANGED <<client, faz, response, fromStore, cut, storeVars, owed, puts, deaths>>
  BY DEF Inv, TypeOK, Client_Read
<1>3. TypeOK'
  <2>1. Len(Tail(toClient[s])) <= Window
    BY <1>1, Types, StreamAssumption DEF Inv, TypeOK
  <2>2. received' \in [Streams -> Seq(Values)] /\ DOMAIN toClient' = Streams
    BY <1>1 DEF Inv, TypeOK, Client_Read
  <2>3. \A d \in Streams : toClient'[d] \in Seq(Values) /\ Len(toClient'[d]) <= Window
    BY <1>1, <1>2, <2>1 DEF Inv, TypeOK
  <2>4. QED
    BY <1>2, <2>2, <2>3 DEF Inv, TypeOK
<1>4. Listed' /\ NoSilentStream'
  BY <1>2 DEF Inv, Listed, NoSilentStream
<1>5. ASSUME NEW d \in Streams, d # s PROVE Quiet(d)' /\ InOrder(d)'
  BY <1>2, <1>5, Frame, SameDue DEF Inv
<1>6. Quiet(s)'
  BY <1>2 DEF Inv, Quiet, Client_Read
<1>7. Along(s)' = Along(s) /\ Due(s)' = Due(s)
      /\ received'[s] \o toClient'[s] = received[s] \o toClient[s]
  BY <1>1, <1>2, SameDue DEF Along
<1>8. InOrder(s)'
  BY <1>2, <1>7 DEF Inv, InOrder, Flowing, Whole
<1>9. QED
  BY <1>3, <1>4, <1>5, <1>6, <1>8 DEF Inv

\* The client is gone, and what was on its stream with it.
LEMMA ClientGoesInv ==
  ASSUME Inv, NEW s \in Streams, Client_Finish(s) \/ Client_Leave(s)
  PROVE  Inv'
<1> USE DEF hops, storeVars
<1>1. /\ client' \in [Streams -> {"idle", "reading", "left", "done"}]
      /\ client'[s] \in {"left", "done"} /\ toClient'[s] = <<>>
      /\ DOMAIN toClient' = Streams
      /\ \A d \in Streams : d # s => client'[d] = client[d] /\ toClient'[d] = toClient[d]
      /\ UNCHANGED <<faz, response, fromStore, cut, storeVars, owed, received, puts, deaths>>
  BY DEF Inv, TypeOK, Client_Finish, Client_Leave
<1>2. TypeOK'
  <2>1. <<>> \in Seq(Values) /\ Len(<<>>) <= Window
    BY StreamAssumption
  <2>2. \A d \in Streams : toClient'[d] \in Seq(Values) /\ Len(toClient'[d]) <= Window
    BY <1>1, <2>1 DEF Inv, TypeOK
  <2>3. QED
    BY <1>1, <2>2 DEF Inv, TypeOK
<1>3. Listed' /\ NoSilentStream'
  BY <1>1 DEF Inv, Listed, NoSilentStream
<1>4. ASSUME NEW d \in Streams, d # s PROVE Quiet(d)' /\ InOrder(d)'
  BY <1>1, <1>4, Frame, SameDue DEF Inv
<1>5. Quiet(s)'
  BY <1>1 DEF Inv, Quiet
<1>6. IsPrefix(received[s], owed[s])
  BY Types, PrefixOfConcat DEF Inv, InOrder
<1>7. received[s] \o <<>> = received[s]
  BY Types, ConcatEmptySeq DEF Inv
<1>8. InOrder(s)'
  BY <1>1, <1>6, <1>7 DEF InOrder, Flowing, Whole
<1>9. QED
  BY <1>2, <1>3, <1>4, <1>5, <1>8 DEF Inv

\* The Faz thread calls the store.
LEMMA FazGetInv ==
  ASSUME Inv, NEW s \in Streams, Faz_Get(s)
  PROVE  Inv'
<1> USE DEF hops, storeVars
<1>1. /\ faz' = [faz EXCEPT ![s] = "read"] /\ store' = [store EXCEPT ![s] = "lock"]
      /\ faz[s] = "subscribe" /\ faz'[s] = "read"
      /\ store[s] = "none" /\ store'[s] = "lock"
      /\ \A d \in Streams : d # s => faz'[d] = faz[d] /\ store'[d] = store[d]
      /\ UNCHANGED <<client, hops, cut, sub_map_, putting, tag, it, owed, received, puts, deaths>>
  BY DEF Inv, TypeOK, Quiet, Faz_Get
<1>2. TypeOK'
  BY <1>1 DEF Inv, TypeOK
<1>3. Listed'
  <2>1. \A g \in Tags : \A i \in DOMAIN sub_map_[g] : sub_map_[g][i] \in Streams
    BY DEF Inv, TypeOK
  <2>2. \A g \in Tags : \A i \in DOMAIN sub_map_[g] : sub_map_[g][i] # s
    BY <1>1 DEF Inv, Listed
  <2>3. QED
    BY <1>1, <2>1, <2>2 DEF Inv, Listed
<1>4. Quiet(s)'
  BY <1>1 DEF Inv, Quiet
<1>5. Along(s)' = Along(s) /\ Due(s)' = Due(s)
  BY <1>1, SameDue DEF Along
<1>6. InOrder(s)'
  BY <1>1, <1>5 DEF Inv, InOrder, Flowing, Whole
<1>7. QED
  BY <1>1, <1>2, <1>3, <1>4, <1>6, OneStream

\* The Faz thread reads a message, or the end of a broken call.
LEMMA FazReadInv ==
  ASSUME Inv, NEW s \in Streams, Faz_Read(s)
  PROVE  Inv'
<1> USE DEF hops, storeVars
<1>1. /\ faz[s] = "read" /\ response[s] = <<>>
      /\ fromStore[s] \in Seq(Values) /\ Len(fromStore[s]) <= Window
      /\ UNCHANGED <<client, toClient, cut, storeVars, owed, received, puts, deaths>>
      /\ \A d \in Streams : d # s => /\ faz'[d] = faz[d] /\ response'[d] = response[d]
                                    /\ fromStore'[d] = fromStore[d]
  BY DEF Inv, TypeOK, Quiet, Faz_Read
<1>2. Listed'
  BY <1>1 DEF Inv, Listed
<1>3. CASE fromStore[s] # <<>> /\ response' = [response EXCEPT ![s] = <<Head(fromStore[s])>>]
           /\ fromStore' = [fromStore EXCEPT ![s] = Tail(@)]
           /\ faz' = [faz EXCEPT ![s] = "write"]
  <2> DEFINE f == fromStore[s]  rc == received[s] \o toClient[s]  h == Head(f)
  <2>1. f # <<>> /\ f \in Seq(Values) /\ rc \in Seq(Values) /\ Len(f) <= Window
    BY <1>1, <1>3, Types DEF Inv
  <2>2. /\ response'[s] = <<h>> /\ fromStore'[s] = Tail(f) /\ faz'[s] = "write"
        /\ received'[s] \o toClient'[s] = rc
    BY <1>1, <1>3 DEF Inv, TypeOK
  <2>3. Along(s) = (rc \o <<>>) \o f /\ Along(s)' = (rc \o <<h>>) \o Tail(f)
    BY <1>1, <2>2 DEF Along
  <2>4. DOMAIN fromStore' = Streams /\ DOMAIN response' = Streams
    BY <1>3 DEF Inv, TypeOK
  <2> HIDE DEF f, rc
  <2>5. /\ h \in Values /\ Tail(f) \in Seq(Values) /\ Len(Tail(f)) <= Window
        /\ Append(rc, h) \o Tail(f) = rc \o f
    <3>1. Len(Tail(f)) = Len(f) - 1
      BY <2>1, Shift
    <3>2. Len(f) \in Nat /\ Window \in Nat
      BY <2>1, StreamAssumption
    <3>3. QED
      BY <2>1, <3>1, <3>2, Shift
  <2>6. Append(rc, h) = rc \o <<h>> /\ rc \o <<>> = rc
    BY <2>1, <2>5, AppendIsConcat, ConcatEmptySeq
  <2>7. Along(s)' = Along(s) /\ Due(s)' = Due(s)
    BY <1>1, <2>3, <2>5, <2>6, SameDue
  <2>8. TypeOK'
    <3>1. \A d \in Streams : fromStore'[d] \in Seq(Values) /\ Len(fromStore'[d]) <= Window
      BY <1>1, <2>2, <2>5 DEF Inv, TypeOK
    <3>2. response' \in [Streams -> {<<>>} \cup {<<v>> : v \in Values}]
      BY <1>3, <2>5 DEF Inv, TypeOK, f
    <3>3. faz' \in [Streams -> {"none", "subscribe", "read", "write", "read_last",
                                "finish", "returned", "dead"}]
      BY <1>3 DEF Inv, TypeOK
    <3>4. QED
      BY <1>1, <2>4, <3>1, <3>2, <3>3 DEF Inv, TypeOK
  <2>9. Quiet(s)'
    BY <1>1, <2>1, <2>2 DEF Inv, Quiet, f
  <2>10. InOrder(s)'
    BY <1>1, <2>2, <2>7 DEF Inv, InOrder, Flowing, Whole
  <2>11. QED
    BY <1>1, <1>2, <2>2, <2>8, <2>9, <2>10, OneStream DEF Inv, NoSilentStream
<1>4. CASE s \in cut /\ fromStore' = [fromStore EXCEPT ![s] = <<>>]
           /\ faz' = [faz EXCEPT ![s] = "finish"] /\ UNCHANGED response
  <2>1. fromStore'[s] = <<>> /\ faz'[s] = "finish" /\ DOMAIN fromStore' = Streams
    BY <1>4 DEF Inv, TypeOK
  <2>2. TypeOK'
    <3>1. <<>> \in Seq(Values) /\ Len(<<>>) <= Window
      BY StreamAssumption
    <3>2. \A d \in Streams : fromStore'[d] \in Seq(Values) /\ Len(fromStore'[d]) <= Window
      BY <1>1, <2>1, <3>1 DEF Inv, TypeOK
    <3>3. faz' \in [Streams -> {"none", "subscribe", "read", "write", "read_last",
                                "finish", "returned", "dead"}]
      BY <1>4 DEF Inv, TypeOK
    <3>4. QED
      BY <1>1, <1>4, <2>1, <3>2, <3>3 DEF Inv, TypeOK
  <2>3. Quiet(s)'
    BY <1>1, <1>4, <2>1 DEF Inv, Quiet
  <2>4. InOrder(s)'
    BY <1>1, <2>1 DEF Inv, InOrder, Flowing, Whole
  <2>5. QED
    BY <1>1, <1>2, <1>4, <2>1, <2>2, <2>3, <2>4, OneStream
<1>5. QED
  BY <1>3, <1>4 DEF Faz_Read

\* The Faz thread runs the callback.
LEMMA FazWriteInv ==
  ASSUME Inv, NEW s \in Streams, Faz_Write(s)
  PROVE  Inv'
<1> USE DEF hops, storeVars
<1>1. /\ faz[s] = "write" /\ response'[s] = <<>>
      /\ UNCHANGED <<client, fromStore, cut, storeVars, owed, received, puts, deaths>>
      /\ DOMAIN toClient' = Streams
      /\ response' \in [Streams -> {<<>>} \cup {<<v>> : v \in Values}]
      /\ faz' \in [Streams -> {"none", "subscribe", "read", "write", "read_last",
                               "finish", "returned", "dead"}]
      /\ faz'[s] \in {"read", "read_last"}
      /\ \A d \in Streams : d # s => /\ faz'[d] = faz[d] /\ response'[d] = response[d]
                                    /\ toClient'[d] = toClient[d]
  <2>1. /\ faz[s] = "write" /\ response' = [response EXCEPT ![s] = <<>>]
        /\ UNCHANGED <<client, fromStore, cut, storeVars, owed, received, puts, deaths>>
        /\ \/ faz' = [faz EXCEPT ![s] = "read"] \/ faz' = [faz EXCEPT ![s] = "read_last"]
        /\ \/ toClient' = [toClient EXCEPT ![s] = @ \o response[s]] \/ UNCHANGED toClient
    BY DEF Faz_Write
  <2>2. /\ response \in [Streams -> {<<>>} \cup {<<v>> : v \in Values}]
        /\ faz \in [Streams -> {"none", "subscribe", "read", "write", "read_last",
                                "finish", "returned", "dead"}]
        /\ DOMAIN toClient = Streams
    BY DEF Inv, TypeOK
  <2>3. /\ response' \in [Streams -> {<<>>} \cup {<<v>> : v \in Values}]
        /\ response'[s] = <<>>
        /\ \A d \in Streams : d # s => response'[d] = response[d]
    BY <2>1, <2>2
  <2>4. /\ faz' \in [Streams -> {"none", "subscribe", "read", "write", "read_last",
                                 "finish", "returned", "dead"}]
        /\ faz'[s] \in {"read", "read_last"}
        /\ \A d \in Streams : d # s => faz'[d] = faz[d]
    BY <2>1, <2>2
  <2>5. DOMAIN toClient' = Streams /\ \A d \in Streams : d # s => toClient'[d] = toClient[d]
    BY <2>1, <2>2
  <2>6. QED
    BY <2>1, <2>3, <2>4, <2>5
<1>2. Listed'
  BY <1>1 DEF Inv, Listed
<1>3. store[s] \in {"none", "lock"} => toClient[s] = <<>> /\ response[s] = <<>>
  BY DEF Inv, Quiet
<1>4. CASE client[s] = "reading" /\ Len(toClient[s]) < Window /\ faz'[s] = "read"
           /\ toClient'[s] = toClient[s] \o response[s]
  <2> DEFINE r == received[s]  c == toClient[s]  m == response[s]  f == fromStore[s]
  <2>1. /\ r \in Seq(Values) /\ c \in Seq(Values) /\ m \in Seq(Values) /\ f \in Seq(Values)
        /\ (r \o c) \o m \in Seq(Values) /\ owed[s] \in Seq(Values)
    BY Types DEF Inv
  <2>2. Len(m) <= 1 /\ Len(c) < Window
    <3>1. m = <<>> \/ \E v \in Values : m = <<v>>
      BY DEF Inv, TypeOK
    <3>2. Len(<<>>) <= 1 /\ \A v \in Values : Len(<<v>>) <= 1
      OBVIOUS
    <3>3. QED
      BY <1>4, <3>1, <3>2
  <2>3. Along(s) = ((r \o c) \o m) \o f /\ Along(s)' = ((r \o (c \o m)) \o <<>>) \o f
    BY <1>1, <1>4 DEF Along
  <2>4. IsPrefix(Along(s), owed[s])
    BY <1>1, <1>4 DEF Inv, InOrder, Flowing
  <2>5. received'[s] \o toClient'[s] = r \o (c \o m)
    BY <1>1, <1>4
  <2>6. c = <<>> /\ m = <<>> => toClient'[s] = <<>>
    BY <1>4, ConcatEmptySeq
  <2>7. toClient'[s] = c \o m
    BY <1>4
  <2> HIDE DEF r, c, m, f
  <2>8. c \o m \in Seq(Values) /\ Len(c \o m) <= Window
    BY <2>1, <2>2, ConcatProperties, StreamAssumption
  <2>9. r \o (c \o m) = (r \o c) \o m
    <3>1. Associative(r, c, m)
      BY <2>1, ConcatIsAssociative
    <3> QED
      BY <3>1 DEF Associative
  <2>10. ((r \o c) \o m) \o <<>> = (r \o c) \o m
    BY <2>1, ConcatEmptySeq
  <2>11. IsPrefix((r \o c) \o m, owed[s])
    BY <2>1, <2>3, <2>4, PrefixOfConcat
  <2>12. Along(s)' = Along(s) /\ Due(s)' = Due(s)
    BY <1>1, <2>3, <2>9, <2>10, SameDue
  <2>13. IsPrefix(received'[s] \o toClient'[s], owed'[s])
    BY <1>1, <2>5, <2>9, <2>11
  <2>14. TypeOK'
    <3>1. \A d \in Streams : toClient'[d] \in Seq(Values) /\ Len(toClient'[d]) <= Window
      BY <1>1, <2>7, <2>8 DEF Inv, TypeOK
    <3>2. QED
      BY <1>1, <3>1 DEF Inv, TypeOK
  <2>15. Quiet(s)'
    BY <1>1, <1>3, <1>4, <2>6 DEF Inv, Quiet, c, m
  <2>16. InOrder(s)'
    BY <1>1, <1>4, <2>12, <2>13 DEF Inv, InOrder, Flowing, Whole
  <2>17. QED
    BY <1>1, <1>2, <2>14, <2>15, <2>16, OneStream DEF Inv, NoSilentStream
<1>5. CASE client[s] # "reading" /\ UNCHANGED toClient /\ faz'[s] = "read_last"
  <2>1. TypeOK'
    BY <1>1, <1>5 DEF Inv, TypeOK
  <2>2. Quiet(s)'
    BY <1>1, <1>5 DEF Inv, Quiet
  <2>3. InOrder(s)'
    BY <1>1, <1>5 DEF Inv, InOrder, Flowing, Whole
  <2>4. QED
    BY <1>1, <1>2, <1>5, <2>1, <2>2, <2>3, OneStream
<1>6. QED
  BY <1>4, <1>5 DEF Faz_Write, Inv, TypeOK

\* The Faz thread leaves its loop.
LEMMA FazEndsInv ==
  ASSUME Inv, NEW s \in Streams, Faz_ReadLast(s) \/ Faz_Finish(s)
  PROVE  Inv'
<1> USE DEF hops, storeVars
<1>1. /\ faz[s] \in {"read_last", "finish"} /\ faz'[s] \in {"finish", "returned"}
      /\ faz' \in [Streams -> {"none", "subscribe", "read", "write", "read_last",
                               "finish", "returned", "dead"}]
      /\ UNCHANGED <<client, toClient, response, cut, storeVars, owed, received, puts, deaths>>
      /\ DOMAIN fromStore' = Streams
      /\ \A d \in Streams : d # s => faz'[d] = faz[d] /\ fromStore'[d] = fromStore[d]
  BY DEF Inv, TypeOK, Faz_ReadLast, Faz_Finish
<1>2. /\ fromStore'[s] \in Seq(Values) /\ Len(fromStore'[s]) <= Window
      /\ fromStore[s] = <<>> => fromStore'[s] = <<>>
  <2>1. CASE fromStore'[s] \in {<<>>, fromStore[s]}
    <3>1. <<>> \in Seq(Values) /\ Len(<<>>) <= Window
      BY StreamAssumption
    <3>2. QED
      BY <2>1, <3>1 DEF Inv, TypeOK
  <2>2. CASE fromStore[s] # <<>> /\ fromStore'[s] = Tail(fromStore[s])
    <3>1. fromStore[s] \in Seq(Values) /\ Len(fromStore[s]) <= Window
      BY DEF Inv, TypeOK
    <3>2. /\ Tail(fromStore[s]) \in Seq(Values)
          /\ Len(Tail(fromStore[s])) = Len(fromStore[s]) - 1
      BY <2>2, <3>1, Shift
    <3>3. Len(fromStore[s]) \in Nat
      BY <3>1
    <3>4. QED
      BY <2>2, <3>1, <3>2, <3>3, StreamAssumption
  <2>3. QED
    BY <2>1, <2>2 DEF Faz_ReadLast, Faz_Finish, Inv, TypeOK
<1>3. TypeOK' /\ Listed'
  <2>1. \A d \in Streams : fromStore'[d] \in Seq(Values) /\ Len(fromStore'[d]) <= Window
    BY <1>1, <1>2 DEF Inv, TypeOK
  <2>2. QED
    BY <1>1, <2>1 DEF Inv, TypeOK, Listed
<1>4. Quiet(s)'
  BY <1>1, <1>2 DEF Inv, Quiet
<1>5. InOrder(s)'
  BY <1>1 DEF Inv, InOrder, Flowing, Whole
<1>6. QED
  BY <1>1, <1>3, <1>4, <1>5, OneStream

\* The store subscribes the stream.
LEMMA StoreGetInv ==
  ASSUME Inv, NEW s \in Streams, Store_Get(s)
  PROVE  Inv'
<1> USE DEF hops, storeVars
<1> DEFINE g == Hashtag[s]  q == sub_map_[g]
<1>1. /\ store[s] = "lock" /\ store' = [store EXCEPT ![s] = "spin"] /\ store'[s] = "spin"
      /\ putting = NoValue /\ g \in Tags /\ q \in Seq(Streams)
      /\ sub_map_' = [sub_map_ EXCEPT ![g] = Append(q, s)]
      /\ sub_map_'[g] = Append(q, s)
      /\ \A d \in Streams : d # s => store'[d] = store[d]
      /\ \A h \in Tags : h # g => sub_map_'[h] = sub_map_[h]
      /\ UNCHANGED <<client, faz, hops, cut, putting, tag, it, owed, received, puts, deaths>>
  BY StreamAssumption DEF Inv, TypeOK, Store_Get
<1> HIDE DEF g, q
<1>2. /\ Append(q, s) \in Seq(Streams) /\ Len(Append(q, s)) = Len(q) + 1
      /\ \A i \in 1 .. Len(q) : Append(q, s)[i] = q[i]
      /\ Append(q, s)[Len(q) + 1] = s
      /\ Len(q) \in Nat
  BY <1>1, AppendProperties
<1>3. TypeOK'
  BY <1>1, <1>2 DEF Inv, TypeOK
<1>4. Listed'
  <2>1. ASSUME NEW h \in Tags, h # g
        PROVE  /\ \A i \in DOMAIN sub_map_'[h] : /\ Hashtag[sub_map_'[h][i]] = h
                                                /\ store'[sub_map_'[h][i]] = "spin"
               /\ \A i, j \in DOMAIN sub_map_'[h] :
                    sub_map_'[h][i] = sub_map_'[h][j] => i = j
    <3>1. sub_map_'[h] = sub_map_[h] /\ \A i \in DOMAIN sub_map_[h] : sub_map_[h][i] \in Streams
      BY <1>1, <2>1 DEF Inv, TypeOK
    <3>2. /\ \A i \in DOMAIN sub_map_[h] : /\ Hashtag[sub_map_[h][i]] = h
                                           /\ store[sub_map_[h][i]] = "spin"
          /\ \A i, j \in DOMAIN sub_map_[h] : sub_map_[h][i] = sub_map_[h][j] => i = j
      BY DEF Inv, Listed
    <3>3. \A i \in DOMAIN sub_map_[h] : store'[sub_map_[h][i]] = "spin"
      BY <1>1, <3>1, <3>2
    <3>4. QED
      BY <3>1, <3>2, <3>3
  <2>2. /\ \A i \in 1 .. Len(q) : /\ q[i] \in Streams /\ Hashtag[q[i]] = g
                                  /\ store[q[i]] = "spin" /\ q[i] # s
        /\ \A i, j \in 1 .. Len(q) : q[i] = q[j] => i = j
    BY <1>1 DEF Inv, Listed, q
  <2>3. \A i \in 1 .. Len(q) + 1 : i \in 1 .. Len(q) \/ i = Len(q) + 1
    BY <1>2
  <2>4. /\ \A i \in 1 .. Len(q) + 1 : /\ Hashtag[Append(q, s)[i]] = g
                                      /\ store'[Append(q, s)[i]] = "spin"
        /\ \A i, j \in 1 .. Len(q) + 1 : Append(q, s)[i] = Append(q, s)[j] => i = j
    BY <1>1, <1>2, <2>2, <2>3 DEF g
  <2>5. DOMAIN sub_map_'[g] = 1 .. Len(q) + 1
    BY <1>1, <1>2
  <2>6. QED
    BY <1>1, <2>1, <2>4, <2>5 DEF Listed
<1>5. ASSUME NEW d \in Streams PROVE Quiet(d)' /\ InOrder(d)'
  <2>1. Due(d) = <<>> /\ Due(d)' = <<>>
    BY <1>1, CopiesNone DEF Due, Turns
  <2>2. CASE d # s
    BY <1>1, <2>1, <2>2, Frame DEF Inv
  <2>3. CASE d = s
    <3>1. Quiet(s)'
      BY <1>1 DEF Inv, Quiet
    <3>2. Along(s)' = Along(s)
      BY <1>1 DEF Along
    <3>3. InOrder(s)'
      BY <1>1, <2>1, <2>3, <3>2 DEF Inv, InOrder, Flowing, Whole
    <3>4. QED
      BY <2>3, <3>1, <3>3
  <2>4. QED
    BY <2>2, <2>3
<1>6. NoSilentStream'
  <2>1. s \in ToSet(sub_map_'[Hashtag[s]])
    <3>1. Len(q) + 1 \in DOMAIN Append(q, s)
      BY <1>2
    <3>2. QED
      BY <1>1, <1>2, <3>1 DEF ToSet, g
  <2>2. ASSUME NEW d \in Streams, d \in ToSet(sub_map_[Hashtag[d]])
        PROVE  d \in ToSet(sub_map_'[Hashtag[d]])
    <3>1. Hashtag[d] \in Tags
      BY StreamAssumption
    <3>2. CASE Hashtag[d] # g
      BY <1>1, <2>2, <3>1, <3>2
    <3>3. CASE Hashtag[d] = g
      <4>1. PICK i \in 1 .. Len(q) : q[i] = d
        BY <1>1, <2>2, <3>3 DEF ToSet, q
      <4>2. i \in DOMAIN Append(q, s) /\ Append(q, s)[i] = d
        BY <1>2, <4>1
      <4>3. QED
        BY <1>1, <3>3, <4>2 DEF ToSet
    <3>4. QED
      BY <3>2, <3>3
  <2>3. QED
    BY <1>1, <2>1, <2>2 DEF Inv, NoSilentStream
<1>7. QED
  BY <1>3, <1>4, <1>5, <1>6 DEF Inv

\* The places of a value's tags are finitely many, and none is a place of a
\* stream whose thread does not spin.
LEMMA PlacesOf ==
  ASSUME TypeOK, Listed, NEW v \in Values, NEW d \in Streams
  PROVE  /\ IsFiniteSet(Places(v, d))
         /\ store[d] # "spin" => Places(v, d) = {}
<1>1. TagsOf[v] \in Seq(Tags) /\ DOMAIN TagsOf[v] = 1 .. Len(TagsOf[v]) /\ Len(TagsOf[v]) \in Int
  BY StreamAssumption
<1>2. IsFiniteSet(DOMAIN TagsOf[v])
  BY <1>1, FS_Interval
<1>3. Places(v, d) \in SUBSET DOMAIN TagsOf[v]
  BY DEF Places
<1>4. IsFiniteSet(Places(v, d))
  BY <1>2, <1>3, FS_Subset
<1>5. \A i \in DOMAIN TagsOf[v] : TagsOf[v][i] \in Tags
  BY <1>1
<1>6. \A g \in Tags : d \in Row(g) => store[d] = "spin"
  BY DEF Listed, Row, ToSet
<1>7. QED
  BY <1>4, <1>5, <1>6 DEF Places

\* A Put begins: it owes its value to the streams of its tags.
LEMMA StorePutInv ==
  ASSUME Inv, NEW v \in Values, Store_Put(v)
  PROVE  Inv'
<1> USE DEF hops, storeVars
<1>1. /\ putting = NoValue /\ putting' = v /\ v # NoValue /\ tag' = 1 /\ it' = 1
      /\ puts' = puts + 1
      /\ owed' = [d \in Streams |-> owed[d] \o Copies(v, Places(v, d))]
      /\ TagsOf[v] \in Seq(Tags)
      /\ UNCHANGED <<client, faz, hops, cut, store, sub_map_, received, deaths>>
  BY StreamAssumption DEF Inv, TypeOK, Store_Put
<1>2. ASSUME NEW d \in Streams
      PROVE  /\ owed[d] \in Seq(Values) /\ Copies(v, Places(v, d)) \in Seq(Values)
             /\ owed[d] \o Copies(v, Places(v, d)) \in Seq(Values)
             /\ store[d] # "spin" => owed[d] \o Copies(v, Places(v, d)) = owed[d]
  <2> DEFINE o == owed[d]  c == Copies(v, Places(v, d))
  <2>1. o \in Seq(Values) /\ c \in Seq(Values) /\ (store[d] # "spin" => c = <<>>)
    BY Types, PlacesOf, CopiesType, CopiesNone DEF Inv
  <2> HIDE DEF o, c
  <2>2. o \o c \in Seq(Values) /\ o \o <<>> = o
    BY <2>1, ConcatProperties, ConcatEmptySeq
  <2>3. QED
    BY <2>1, <2>2 DEF o, c
<1>3. TypeOK'
  <2>1. owed' \in [Streams -> Seq(Values)]
    BY <1>1, <1>2
  <2>2. tag' \in Nat \ {0} /\ it' \in Nat \ {0} /\ puts' \in Nat
    BY <1>1 DEF Inv, TypeOK
  <2>3. QED
    BY <1>1, <2>1, <2>2 DEF Inv, TypeOK
<1>4. Listed' /\ NoSilentStream'
  BY <1>1 DEF Inv, Listed, NoSilentStream
<1>5. ASSUME NEW d \in Streams
      PROVE  Due(d) = <<>> /\ Due(d)' = Copies(v, Places(v, d))
  <2>1. Due(d) = <<>>
    BY <1>1, CopiesNone DEF Due, Turns
  <2> DEFINE T == TagsOf[v]
  <2>2. DOMAIN T = 1 .. Len(T) /\ T \in Seq(Tags)
    BY <1>1
  <2>3. ASSUME NEW i \in 1 .. Len(T)
        PROVE  d \in Row(T[i]) <=>
                 \E j \in (IF i = 1 THEN 1 ELSE 1) .. Len(sub_map_[T[i]]) : sub_map_[T[i]][j] = d
    <3>1. DOMAIN sub_map_[T[i]] = 1 .. Len(sub_map_[T[i]])
      BY <2>2 DEF Inv, TypeOK
    <3>2. QED
      BY <3>1 DEF Row, ToSet
  <2>4. Turns(d)' = Places(v, d)
    BY <1>1, <2>2, <2>3 DEF Turns, Places
  <2>5. QED
    BY <1>1, <2>1, <2>4 DEF Due
<1>6. ASSUME NEW d \in Streams PROVE Quiet(d)' /\ InOrder(d)'
  <2> DEFINE o == owed[d]  c == Copies(v, Places(v, d))
             a == Along(d)  r == received[d] \o toClient[d]
  <2>1. /\ o \in Seq(Values) /\ c \in Seq(Values) /\ a \in Seq(Values) /\ r \in Seq(Values)
        /\ owed'[d] = o \o c /\ Due(d) = <<>> /\ Due(d)' = c
        /\ Along(d)' = a /\ received'[d] \o toClient'[d] = r
        /\ Whole(d)' = Whole(d) /\ Flowing(d)' = Flowing(d)
    BY <1>1, <1>2, <1>5, Types DEF Inv, Along, Whole, Flowing
  <2>2. Quiet(d)'
    BY <1>1, <1>2 DEF Inv, Quiet
  <2>3. /\ IsPrefix(r, o) /\ (Flowing(d) => IsPrefix(a, o))
        /\ (Whole(d) => a \o Due(d) = o)
    BY DEF Inv, InOrder
  <2> HIDE DEF o, c, a, r
  <2>4. IsPrefix(r, o) => IsPrefix(r, o \o c)
    BY <2>1, PrefixConcat
  <2>5. IsPrefix(a, o) => IsPrefix(a, o \o c)
    BY <2>1, PrefixConcat
  <2>6. a \o <<>> = a
    BY <2>1, ConcatEmptySeq
  <2>7. Whole(d) => a \o c = o \o c
    BY <2>1, <2>3, <2>6
  <2>8. InOrder(d)'
    BY <2>1, <2>3, <2>4, <2>5, <2>7 DEF InOrder
  <2>9. QED
    BY <2>2, <2>8
<1>7. QED
  BY <1>3, <1>4, <1>6 DEF Inv

\* A Put passes to its next tag; the turns that are left are the same.
LEMMA StoreNextTagInv ==
  ASSUME Inv, Store_NextTag
  PROVE  Inv'
<1> USE DEF hops, storeVars
<1> DEFINE T == TagsOf[putting]
<1>1. /\ putting # NoValue /\ tag \in 1 .. Len(T) /\ T \in Seq(Tags) /\ Len(T) \in Nat
      /\ it > Len(sub_map_[T[tag]]) /\ it \in Nat /\ tag' = tag + 1 /\ it' = 1
      /\ UNCHANGED <<client, faz, hops, cut, store, sub_map_, putting, owed, received, puts, deaths>>
  BY StreamAssumption DEF Inv, TypeOK, Store_NextTag, AtTag
<1>2. TypeOK' /\ Listed' /\ NoSilentStream'
  BY <1>1 DEF Inv, TypeOK, Listed, NoSilentStream
<1>3. ASSUME NEW d \in Streams PROVE Due(d)' = Due(d)
  <2> DEFINE From(i, k, n) == \E j \in (IF i = k THEN n ELSE 1) .. Len(sub_map_[T[i]]) :
                                sub_map_[T[i]][j] = d
  <2>1. Turns(d) = {i \in tag .. Len(T) : From(i, tag, it)}
    BY <1>1 DEF Turns
  <2>2. Turns(d)' = {i \in tag + 1 .. Len(T) : From(i, tag + 1, 1)}
    BY <1>1 DEF Turns
  <2>3. ~From(tag, tag, it)
    <3>1. Len(sub_map_[T[tag]]) \in Nat
      BY <1>1 DEF Inv, TypeOK
    <3>2. it .. Len(sub_map_[T[tag]]) = {}
      BY <1>1, <3>1
    <3>3. QED
      BY <3>2
  <2>4. \A i \in tag + 1 .. Len(T) : From(i, tag, it) <=> From(i, tag + 1, 1)
    BY <1>1
  <2>5. tag .. Len(T) = {tag} \cup (tag + 1 .. Len(T))
    BY <1>1
  <2> HIDE DEF From
  <2>6. Turns(d)' = Turns(d)
    BY <2>1, <2>2, <2>3, <2>4, <2>5
  <2>7. QED
    BY <1>1, <2>6 DEF Due
<1>4. \A d \in Streams : Quiet(d)' /\ InOrder(d)'
  BY <1>1, <1>3, Frame DEF Inv
<1>5. QED
  BY <1>2, <1>4 DEF Inv

\* A Put has run the callbacks of every tag.
LEMMA StorePutReturnsInv ==
  ASSUME Inv, Store_PutReturns
  PROVE  Inv'
<1> USE DEF hops, storeVars
<1>1. /\ putting' = NoValue /\ putting # NoValue
      /\ tag > Len(TagsOf[putting])
      /\ UNCHANGED <<client, faz, hops, cut, store, sub_map_, tag, it, owed, received, puts, deaths>>
  BY DEF Store_PutReturns
<1>2. TypeOK' /\ Listed' /\ NoSilentStream'
  BY <1>1 DEF Inv, TypeOK, Listed, NoSilentStream
<1>3. ASSUME NEW d \in Streams PROVE Due(d) = <<>> /\ Due(d)' = <<>>
  <2>1. tag \in Nat /\ Len(TagsOf[putting]) \in Nat
    BY <1>1, StreamAssumption DEF Inv, TypeOK
  <2>2. tag .. Len(TagsOf[putting]) = {}
    BY <1>1, <2>1
  <2>3. QED
    BY <1>1, <2>2, CopiesNone DEF Due, Turns
<1>4. \A d \in Streams : Quiet(d)' /\ InOrder(d)'
  BY <1>1, <1>3, Frame DEF Inv
<1>5. QED
  BY <1>2, <1>4 DEF Inv

\* Faz dies: what its threads held and had to read is gone, and no stream flows.
LEMMA FazDiesInv ==
  ASSUME Inv, Faz_Dies
  PROVE  Inv'
<1> USE DEF hops, storeVars
<1>1. /\ deaths' = deaths + 1 /\ cut' = cut \cup InStore
      /\ response' = NothingYet /\ fromStore' = NothingYet
      /\ faz' = [s \in Streams |-> IF faz[s] \in {"none", "returned"} THEN faz[s] ELSE "dead"]
      /\ \A d \in Streams : /\ faz'[d] \in {"none", "returned", "dead"}
                            /\ faz'[d] = "none" <=> faz[d] = "none"
      /\ UNCHANGED <<client, toClient, storeVars, owed, received, puts>>
  BY DEF Inv, TypeOK, Faz_Dies
<1>2. TypeOK'
  <2>1. <<>> \in Seq(Values) /\ Len(<<>>) <= Window
    BY StreamAssumption
  <2>2. cut' \subseteq Streams /\ deaths' \in Nat
    BY <1>1 DEF Inv, TypeOK, InStore
  <2>3. QED
    BY <1>1, <2>1, <2>2 DEF Inv, TypeOK, NothingYet
<1>3. Listed' /\ NoSilentStream'
  BY <1>1 DEF Inv, Listed, NoSilentStream
<1>4. ASSUME NEW d \in Streams PROVE Quiet(d)' /\ InOrder(d)'
  <2>1. Quiet(d)'
    BY <1>1 DEF Inv, Quiet, NothingYet
  <2>2. InOrder(d)'
    BY <1>1 DEF Inv, InOrder, Flowing, Whole
  <2>3. QED
    BY <2>1, <2>2
<1>5. QED
  BY <1>2, <1>3, <1>4 DEF Inv

\* The store dies: every call to it breaks, and no subscription is left.
LEMMA StoreDiesInv ==
  ASSUME Inv, Store_Dies
  PROVE  Inv'
<1> USE DEF hops, storeVars
<1>1. /\ deaths' = deaths + 1 /\ cut' = cut \cup InStore
      /\ store' = [s \in Streams |-> IF s \in InStore THEN "gone" ELSE store[s]]
      /\ sub_map_' = [g \in Tags |-> <<>>] /\ putting' = NoValue /\ tag' = 1 /\ it' = 1
      /\ UNCHANGED <<client, faz, hops, owed, received, puts>>
  BY DEF Store_Dies
<1>2. TypeOK'
  <2>1. <<>> \in Seq(Streams) /\ tag' \in Nat \ {0} /\ it' \in Nat \ {0} /\ deaths' \in Nat
    BY <1>1 DEF Inv, TypeOK
  <2>2. cut' \subseteq Streams /\ sub_map_' \in [Tags -> Seq(Streams)]
    BY <1>1, <2>1 DEF Inv, TypeOK, InStore
  <2>3. store' \in [Streams -> {"none", "lock", "spin", "gone"}]
    BY <1>1 DEF Inv, TypeOK
  <2>4. QED
    BY <1>1, <2>1, <2>2, <2>3 DEF Inv, TypeOK
<1>3. Listed'
  BY <1>1 DEF Listed
<1>4. ASSUME NEW d \in Streams, faz[d] \in {"read", "write"}
      PROVE  d \in cut'
  BY <1>1, <1>4 DEF Inv, NoSilentStream, InStore
<1>5. NoSilentStream'
  BY <1>1, <1>4 DEF NoSilentStream
<1>6. ASSUME NEW d \in Streams PROVE Quiet(d)' /\ InOrder(d)'
  <2>1. store'[d] \in {"none", "lock"} => store[d] = "none"
    BY <1>1 DEF Inv, TypeOK, InStore
  <2>2. store[d] = "none" => store'[d] = "none"
    BY <1>1 DEF InStore
  <2>3. Quiet(d)'
    BY <1>1, <2>1, <2>2 DEF Inv, Quiet
  <2>4. Along(d)' = Along(d) /\ Flowing(d)' = Flowing(d) /\ Due(d)' = <<>>
    BY <1>1, CopiesNone DEF Along, Flowing, Due, Turns
  <2>5. Whole(d)' => faz[d] = "subscribe"
    BY <1>1, <1>4 DEF Whole
  <2>6. faz[d] = "subscribe" => owed[d] = <<>> /\ Along(d) = <<>>
    <3>1. <<>> \in Seq(Values) /\ <<>> \o <<>> = <<>>
      BY ConcatEmptySeq
    <3>2. QED
      BY <3>1 DEF Inv, Quiet, Along
  <2>7. <<>> \o <<>> = <<>>
    BY ConcatEmptySeq
  <2>8. InOrder(d)'
    BY <1>1, <2>4, <2>5, <2>6, <2>7 DEF Inv, InOrder
  <2>9. QED
    BY <2>3, <2>8
<1>7. QED
  BY <1>2, <1>3, <1>5, <1>6 DEF Inv

\* Turn i of the running Put has still to come to d, when its place is <<k, n>>
\* and the subscribers are those of m.
Pending(m, i, k, n, d) ==
  \E j \in (IF i = k THEN n ELSE 1) .. Len(m[TagsOf[putting][i]]) :
    m[TagsOf[putting][i]][j] = d

\* The callback that a Put has come to, and the turns after it.
LEMMA CallbackAt ==
  ASSUME TypeOK, Listed, AtTag, it <= Len(sub_map_[TagsOf[putting][tag]])
  PROVE  LET T == TagsOf[putting]
             g == T[tag]
             q == sub_map_[g]
         IN /\ putting \in Values /\ T \in Seq(Tags) /\ Len(T) \in Nat /\ tag \in 1 .. Len(T)
            /\ g \in Tags /\ q \in Seq(Streams) /\ Len(q) \in Nat
            /\ it \in 1 .. Len(q) /\ q[it] \in Streams
            /\ Hashtag[q[it]] = g /\ store[q[it]] = "spin"
            /\ \A i, j \in 1 .. Len(q) : q[i] = q[j] => i = j
            /\ \A i \in 1 .. Len(q) : /\ q[i] \in Streams /\ store[q[i]] = "spin"
                                      /\ Hashtag[q[i]] = g
            /\ \A d : Turns(d) = {i \in tag .. Len(T) : Pending(sub_map_, i, tag, it, d)}
<1> DEFINE T == TagsOf[putting]  g == T[tag]  q == sub_map_[g]
<1>1. /\ putting \in Values /\ putting # NoValue /\ T \in Seq(Tags) /\ tag \in Nat \ {0}
      /\ tag <= Len(T) /\ it \in Nat \ {0}
  BY StreamAssumption DEF TypeOK, AtTag
<1>2. Len(T) \in Nat /\ tag \in 1 .. Len(T) /\ g \in Tags
  BY <1>1
<1>3. q \in Seq(Streams) /\ it <= Len(q)
  BY <1>2 DEF TypeOK
<1>4. Len(q) \in Nat /\ DOMAIN q = 1 .. Len(q) /\ it \in 1 .. Len(q)
  BY <1>1, <1>3
<1>5. \A i \in 1 .. Len(q) : /\ q[i] \in Streams /\ store[q[i]] = "spin"
                             /\ Hashtag[q[i]] = g
  BY <1>2, <1>3, <1>4 DEF Listed
<1>6. \A i, j \in 1 .. Len(q) : q[i] = q[j] => i = j
  BY <1>2, <1>4 DEF Listed
<1>7. \A d : Turns(d) = {i \in tag .. Len(T) : Pending(sub_map_, i, tag, it, d)}
  BY <1>1 DEF Turns, Pending
<1>8. QED
  BY <1>1, <1>2, <1>3, <1>4, <1>5, <1>6, <1>7

\* A Put erases a callback that fails: its stream is broken.
LEMMA CallbackErased ==
  ASSUME Inv, AtTag, it <= Len(sub_map_[TagsOf[putting][tag]]),
         NEW s \in Streams, s = sub_map_[TagsOf[putting][tag]][it], s \in cut,
         sub_map_' = [sub_map_ EXCEPT ![TagsOf[putting][tag]] = RemoveAt(@, it)],
         UNCHANGED <<client, faz, hops, cut, store, putting, tag, it, owed, received, puts, deaths>>
  PROVE  Inv'
<1> USE DEF hops, storeVars
<1> DEFINE T == TagsOf[putting]  g == T[tag]  q == sub_map_[g]  n == RemoveAt(q, it)
<1>1. /\ s = q[it] /\ g \in Tags /\ q \in Seq(Streams) /\ Len(q) \in Nat
      /\ T \in Seq(Tags) /\ Len(T) \in Nat /\ tag \in 1 .. Len(T) /\ putting # NoValue
      /\ it \in 1 .. Len(q) /\ s \in Streams /\ Hashtag[s] = g
      /\ \A i, j \in 1 .. Len(q) : q[i] = q[j] => i = j
      /\ \A i \in 1 .. Len(q) : /\ q[i] \in Streams /\ store[q[i]] = "spin"
                                /\ Hashtag[q[i]] = g
  BY CallbackAt DEF Inv, AtTag
<1>2. \A d : Turns(d) = {i \in tag .. Len(T) : Pending(sub_map_, i, tag, it, d)}
  BY CallbackAt DEF Inv, AtTag
<1>3. \A d : Turns(d)' = {i \in tag .. Len(T) : Pending(sub_map_', i, tag, it, d)}
  BY <1>1 DEF Turns, Pending
<1>4. sub_map_' = [sub_map_ EXCEPT ![g] = n] /\ s \in cut
  OBVIOUS
<1> HIDE DEF T, g, q, n
<1>12. sub_map_'[g] = n /\ \A h \in Tags : h # g => sub_map_'[h] = sub_map_[h]
  <2>1. DOMAIN sub_map_ = Tags /\ g \in Tags
    BY <1>1 DEF Inv, TypeOK
  <2>2. QED
    BY <1>4, <2>1
<1>5. /\ n \in Seq(Streams) /\ Len(n) = Len(q) - 1
      /\ \A j \in 1 .. Len(q) - 1 : n[j] = IF j < it THEN q[j] ELSE q[j + 1]
  BY <1>1, RemoveAtElements DEF n
<1>6. TypeOK'
  <2>1. sub_map_ \in [Tags -> Seq(Streams)]
    BY DEF Inv, TypeOK
  <2>2. sub_map_' \in [Tags -> Seq(Streams)]
    BY <1>4, <1>5, <2>1
  <2>3. QED
    BY <2>2 DEF Inv, TypeOK
<1>7. Listed'
  <2>1. \A i \in 1 .. Len(n) : store[n[i]] = "spin" /\ Hashtag[n[i]] = g
    BY <1>1, <1>5
  <2>2. \A i, j \in 1 .. Len(n) : n[i] = n[j] => i = j
    <3>1. SUFFICES ASSUME NEW i \in 1 .. Len(n), NEW j \in 1 .. Len(n), n[i] = n[j]
                   PROVE  i = j
      OBVIOUS
    <3> DEFINE a == IF i < it THEN i ELSE i + 1
               b == IF j < it THEN j ELSE j + 1
    <3>2. a \in 1 .. Len(q) /\ q[a] = n[i]
      BY <1>1, <1>5
    <3>3. b \in 1 .. Len(q) /\ q[b] = n[j]
      BY <1>1, <1>5
    <3>4. a = b
      <4> HIDE DEF a, b
      <4>1. QED
        BY <1>1, <3>1, <3>2, <3>3
    <3>5. QED
      BY <1>1, <3>4
  <2>3. DOMAIN n = 1 .. Len(n)
    BY <1>5
  <2>4. ASSUME NEW h \in Tags
        PROVE  /\ \A i \in DOMAIN sub_map_'[h] : /\ Hashtag[sub_map_'[h][i]] = h
                                                /\ store'[sub_map_'[h][i]] = "spin"
               /\ \A i, j \in DOMAIN sub_map_'[h] :
                    sub_map_'[h][i] = sub_map_'[h][j] => i = j
    <3>1. CASE h = g
      BY <1>12, <2>1, <2>2, <2>3, <3>1
    <3>2. CASE h # g
      BY <1>12, <3>2 DEF Inv, Listed
    <3>3. QED
      BY <3>1, <3>2
  <2>5. QED
    BY <2>4 DEF Listed
<1>8. ASSUME NEW d \in Streams, d # s
      PROVE  /\ Due(d)' = Due(d)
             /\ d \in ToSet(sub_map_[Hashtag[d]]) => d \in ToSet(sub_map_'[Hashtag[d]])
  <2>1. ASSUME NEW k \in 1 .. Len(q), q[k] = d
        PROVE  /\ \E j \in 1 .. Len(n) : n[j] = d
               /\ k >= it => \E j \in it .. Len(n) : n[j] = d
    <3>1. k # it
      <4>1. q[it] = s
        BY <1>1
      <4>2. QED
        BY <1>8, <2>1, <4>1, Zenon
    <3>2. CASE k < it
      <4>1. k \in 1 .. Len(n) /\ n[k] = d
        BY <1>1, <1>5, <2>1, <3>2
      <4>2. QED
        BY <1>1, <3>2, <4>1
    <3>3. CASE k > it
      <4>1. k - 1 \in it .. Len(n) /\ k - 1 \in 1 .. Len(n) /\ (k - 1) + 1 = k
        BY <1>1, <1>5, <3>3
      <4>2. n[k - 1] = d
        BY <1>1, <1>5, <2>1, <3>3, <4>1
      <4>3. QED
        BY <4>1, <4>2
    <3>4. QED
      BY <1>1, <3>1, <3>2, <3>3
  <2>2. ASSUME NEW j \in it .. Len(n), n[j] = d
        PROVE  \E k \in it .. Len(q) : q[k] = d
    <3>1. j + 1 \in it .. Len(q) /\ q[j + 1] = d
      BY <1>1, <1>5, <2>2
    <3>2. QED
      BY <3>1
  <2>3. it .. Len(q) \subseteq 1 .. Len(q) /\ \A k \in it .. Len(q) : k >= it
    BY <1>1
  <2>4. (\E j \in it .. Len(n) : n[j] = d) <=> (\E k \in it .. Len(q) : q[k] = d)
    BY <2>1, <2>2, <2>3
  <2>5. Due(d)' = Due(d)
    <3>1. (\E j \in 1 .. Len(n) : n[j] = d) <=> (\E k \in 1 .. Len(q) : q[k] = d)
      <4>1. \A j \in 1 .. Len(n) : j \in 1 .. Len(q) /\ j + 1 \in 1 .. Len(q)
        BY <1>1, <1>5
      <4>2. \A j \in 1 .. Len(n) : n[j] = q[j] \/ n[j] = q[j + 1]
        BY <1>5
      <4>3. QED
        BY <2>1, <4>1, <4>2
    <3>2. ASSUME NEW i \in tag .. Len(T)
          PROVE  Pending(sub_map_', i, tag, it, d) <=> Pending(sub_map_, i, tag, it, d)
      <4>1. T[i] \in Tags
        BY <1>1
      <4>2. CASE T[i] # g
        <5>1. sub_map_'[T[i]] = sub_map_[T[i]]
          BY <1>12, <4>1, <4>2
        <5>2. QED
          BY <5>1 DEF Pending, T
      <4>3. CASE T[i] = g
        <5>1. sub_map_'[T[i]] = n /\ sub_map_[T[i]] = q
          BY <1>12, <4>3 DEF q
        <5>2. CASE i = tag
          BY <2>4, <5>1, <5>2 DEF Pending, T
        <5>3. CASE i # tag
          BY <3>1, <5>1, <5>3 DEF Pending, T
        <5>4. QED
          BY <5>2, <5>3
      <4>4. QED
        BY <4>2, <4>3
    <3>3. Turns(d)' = Turns(d)
      BY <1>2, <1>3, <3>2
    <3>4. QED
      BY <3>3 DEF Due
  <2>6. d \in ToSet(q) => d \in ToSet(n)
    <3>1. DOMAIN q = 1 .. Len(q) /\ DOMAIN n = 1 .. Len(n)
      BY <1>1, <1>5
    <3>2. QED
      BY <2>1, <3>1 DEF ToSet
  <2>7. Hashtag[d] \in Tags
    BY StreamAssumption
  <2>8. QED
    BY <1>12, <2>5, <2>6, <2>7 DEF q
<1>9. NoSilentStream'
  BY <1>4, <1>8 DEF Inv, NoSilentStream
<1>10. ASSUME NEW d \in Streams PROVE Quiet(d)' /\ InOrder(d)'
  <2>1. CASE d # s
    BY <1>8, <2>1, Frame DEF Inv
  <2>2. CASE d = s
    <3>1. Quiet(d)' /\ Along(d)' = Along(d) /\ Flowing(d)' = Flowing(d) /\ ~Whole(d)'
      BY <1>4, <2>2 DEF Inv, Quiet, Along, Flowing, Whole
    <3>2. QED
      BY <3>1 DEF Inv, InOrder
  <2>3. QED
    BY <2>1, <2>2
<1>11. QED
  BY <1>6, <1>7, <1>9, <1>10 DEF Inv

\* A Put writes its value to a stream: it is no longer due but on its way.
LEMMA CallbackWrites ==
  ASSUME Inv, AtTag, it <= Len(sub_map_[TagsOf[putting][tag]]),
         NEW s \in Streams, s = sub_map_[TagsOf[putting][tag]][it], s \notin cut,
         Len(fromStore[s]) < Window,
         fromStore' = [fromStore EXCEPT ![s] = Append(@, putting)],
         it' = it + 1,
         UNCHANGED <<client, faz, toClient, response, cut, store, sub_map_, putting, tag,
                     owed, received, puts, deaths>>
  PROVE  Inv'
<1> USE DEF hops, storeVars
<1> DEFINE T == TagsOf[putting]  g == T[tag]  q == sub_map_[g]  f == fromStore[s]
<1>1. /\ s = q[it] /\ g \in Tags /\ q \in Seq(Streams) /\ Len(q) \in Nat
      /\ T \in Seq(Tags) /\ Len(T) \in Nat /\ tag \in 1 .. Len(T)
      /\ putting \in Values /\ putting # NoValue
      /\ it \in 1 .. Len(q) /\ s \in Streams /\ store[s] = "spin"
      /\ \A i, j \in 1 .. Len(q) : q[i] = q[j] => i = j
  BY CallbackAt DEF Inv, AtTag
<1>12. \A d : Turns(d) = {i \in tag .. Len(T) : Pending(sub_map_, i, tag, it, d)}
  BY CallbackAt DEF Inv, AtTag
<1>2. \A d : Turns(d)' = {i \in tag .. Len(T) : Pending(sub_map_, i, tag, it + 1, d)}
  BY <1>1 DEF Turns, Pending
<1>11. ASSUME NEW d
       PROVE  /\ Pending(sub_map_, tag, tag, it, d) <=> \E j \in it .. Len(q) : q[j] = d
              /\ Pending(sub_map_, tag, tag, it + 1, d) <=>
                   \E j \in it + 1 .. Len(q) : q[j] = d
  BY DEF Pending
<1>13. ASSUME NEW d, NEW i, i # tag
       PROVE  Pending(sub_map_, i, tag, it, d) <=> Pending(sub_map_, i, tag, it + 1, d)
  BY <1>13 DEF Pending
<1>3. /\ fromStore'[s] = Append(f, putting) /\ s \notin cut /\ DOMAIN fromStore' = Streams
      /\ \A d \in Streams : d # s => fromStore'[d] = fromStore[d]
      /\ Len(f) < Window /\ f \in Seq(Values) /\ putting \in Values
  BY <1>1 DEF Inv, TypeOK
<1> HIDE DEF T, g, q, f
<1>4. /\ Append(f, putting) \in Seq(Values) /\ Len(Append(f, putting)) = Len(f) + 1
      /\ Append(f, putting) = f \o <<putting>> /\ Len(f) \in Nat
  BY <1>3, AppendProperties, AppendIsConcat
<1>5. TypeOK'
  <2>1. Len(f) + 1 <= Window
    BY <1>3, <1>4, StreamAssumption
  <2>2. \A d \in Streams : fromStore'[d] \in Seq(Values) /\ Len(fromStore'[d]) <= Window
    BY <1>3, <1>4, <2>1 DEF Inv, TypeOK
  <2>3. it' \in Nat \ {0}
    BY <1>1
  <2>4. QED
    BY <1>3, <2>2, <2>3 DEF Inv, TypeOK
<1>6. Listed' /\ NoSilentStream'
  BY DEF Inv, Listed, NoSilentStream
<1>7. ASSUME NEW d \in Streams, d # s
      PROVE  Due(d)' = Due(d)
  <2>1. \A j \in it .. Len(q) : q[j] = d => j \in it + 1 .. Len(q)
    <3>1. SUFFICES ASSUME NEW j \in it .. Len(q), q[j] = d PROVE j \in it + 1 .. Len(q)
      OBVIOUS
    <3>2. j # it
      <4>1. q[it] = s
        BY <1>1
      <4>2. QED
        BY <1>7, <3>1, <4>1, Zenon
    <3>3. QED
      BY <1>1, <3>2
  <2>2. it + 1 .. Len(q) \subseteq it .. Len(q)
    BY <1>1
  <2>3. Pending(sub_map_, tag, tag, it, d) <=> Pending(sub_map_, tag, tag, it + 1, d)
    BY <1>11, <2>1, <2>2
  <2>4. \A i \in tag .. Len(T) :
          Pending(sub_map_, i, tag, it, d) <=> Pending(sub_map_, i, tag, it + 1, d)
    BY <1>13, <2>3
  <2>6. Turns(d)' = Turns(d)
    BY <1>2, <1>12, <2>4
  <2>7. QED
    BY <2>6 DEF Due
<1>8. Due(s) = <<putting>> \o Due(s)' /\ Due(s)' \in Seq(Values)
  <2>1. it \in it .. Len(q) /\ q[it] = s
    BY <1>1
  <2>2. \A j \in it + 1 .. Len(q) : j \in 1 .. Len(q) /\ j # it
    BY <1>1
  <2>3. \A j \in it + 1 .. Len(q) : q[j] # s
    BY <1>1, <2>2
  <2>4. Pending(sub_map_, tag, tag, it, s) /\ ~Pending(sub_map_, tag, tag, it + 1, s)
    BY <1>11, <2>1, <2>3
  <2>8. tag \in tag .. Len(T)
    BY <1>1
  <2>5. tag \in Turns(s) /\ Turns(s)' = Turns(s) \ {tag}
    BY <1>2, <1>12, <1>13, <2>4, <2>8
  <2>6. IsFiniteSet(Turns(s)) /\ IsFiniteSet(Turns(s)')
    BY <2>5, TurnsFinite, FS_RemoveElement DEF Inv
  <2>7. Copies(putting, Turns(s)) = <<putting>> \o Copies(putting, Turns(s) \ {tag})
    <3> DEFINE P == Turns(s)  v == putting
    <3>1. v \in Values /\ IsFiniteSet(P) /\ tag \in P
      BY <1>1, <2>5, <2>6
    <3> HIDE DEF P, v
    <3>2. Copies(v, P) = <<v>> \o Copies(v, P \ {tag})
      BY <3>1, CopiesFirst
    <3>3. QED
      BY <3>2 DEF P, v
  <2>9. Due(s)' = Copies(putting, Turns(s)')
    BY DEF Due
  <2>10. Due(s)' \in Seq(Values)
    BY <1>1, <2>6, <2>9, CopiesType
  <2>11. QED
    BY <2>5, <2>7, <2>9, <2>10 DEF Due
<1>9. ASSUME NEW d \in Streams PROVE Quiet(d)' /\ InOrder(d)'
  <2>1. CASE d # s
    BY <1>3, <1>7, <2>1, Frame DEF Inv
  <2>2. CASE d = s
    <3>1. Quiet(s)'
      BY <1>1 DEF Inv, Quiet
    <3> DEFINE b == (received[s] \o toClient[s]) \o response[s]
    <3>2. /\ b \in Seq(Values) /\ Along(s) \in Seq(Values) /\ owed[s] \in Seq(Values)
          /\ Along(s) = b \o f /\ Along(s)' = b \o Append(f, putting)
      BY <1>1, <1>3, Types DEF Inv, Along, f
    <3> HIDE DEF b
    <3>3. Along(s)' = Along(s) \o <<putting>>
      <4>1. <<putting>> \in Seq(Values)
        BY <1>3
      <4>2. Associative(b, f, <<putting>>)
        BY <1>3, <3>2, <4>1, ConcatIsAssociative
      <4>3. b \o (f \o <<putting>>) = (b \o f) \o <<putting>>
        BY <4>2 DEF Associative
      <4>4. QED
        BY <1>4, <3>2, <4>3
    <3>4. Along(s)' \in Seq(Values)
      <4> DEFINE w == Append(f, putting)
      <4>1. w \in Seq(Values)
        BY <1>4
      <4> HIDE DEF w
      <4>2. b \o w \in Seq(Values)
        BY <3>2, <4>1, ConcatProperties
      <4>3. QED
        BY <3>2, <4>2 DEF w
    <3>5. Along(s) \o Due(s) = Along(s)' \o Due(s)'
      <4> DEFINE a == Along(s)  p == <<putting>>  e == Due(s)'
      <4>5. putting \in Values
        BY <1>3
      <4>6. p \in Seq(Values)
        BY <4>5
      <4>1. a \in Seq(Values) /\ p \in Seq(Values) /\ e \in Seq(Values)
        BY <1>8, <3>2, <4>6, Zenon
      <4>2. Along(s)' = a \o p /\ Due(s) = p \o e
        BY <1>8, <3>3
      <4> HIDE DEF a, p, e
      <4>3. a \o (p \o e) = (a \o p) \o e
        BY <4>1, ConcatIsAssociative DEF Associative
      <4>4. QED
        BY <4>2, <4>3 DEF a, e
    <3>6. Whole(s) => Along(s)' \o Due(s)' = owed[s]
      BY <3>5 DEF Inv, InOrder
    <3>7. Along(s)' \o Due(s)' = owed[s] => IsPrefix(Along(s)', owed[s])
      <4> DEFINE w == Along(s)'  o == owed[s]  e == Due(s)'
      <4>1. w \in Seq(Values) /\ o \in Seq(Values) /\ e \in Seq(Values)
        BY <1>8, <3>2, <3>4
      <4> HIDE DEF w, o, e
      <4>2. w \o e = o => IsPrefix(w, o)
        BY <4>1, PrefixOfConcat
      <4>3. QED
        BY <4>2 DEF w, o, e
    <3>8. (Flowing(s)' => Whole(s)) /\ (Whole(s)' => Whole(s))
      BY <1>3 DEF Flowing, Whole
    <3>9. Flowing(s)' => IsPrefix(Along(s)', owed'[s])
      BY <3>6, <3>7, <3>8
    <3>10. Whole(s)' => Along(s)' \o Due(s)' = owed'[s]
      BY <3>6, <3>8
    <3>11. IsPrefix(received'[s] \o toClient'[s], owed'[s])
      BY <1>1 DEF Inv, InOrder
    <3>12. InOrder(s)'
      BY <3>9, <3>10, <3>11 DEF InOrder
    <3>13. QED
      BY <2>2, <3>1, <3>12
  <2>3. QED
    BY <2>1, <2>2
<1>10. QED
  BY <1>5, <1>6, <1>9 DEF Inv

\* One turn of the loop over the callbacks.
LEMMA StoreCallbackInv ==
  ASSUME Inv, Store_Callback
  PROVE  Inv'
<1> DEFINE q == sub_map_[TagsOf[putting][tag]]
<1>1. AtTag /\ it <= Len(q)
  BY DEF Store_Callback
<1>2. PICK s \in Streams : s = q[it]
  BY <1>1, CallbackAt DEF Inv
<1>3. CASE s \in cut
  <2>1. /\ sub_map_' = [sub_map_ EXCEPT ![TagsOf[putting][tag]] = RemoveAt(@, it)]
        /\ UNCHANGED <<client, faz, hops, cut, store, putting, tag, it, owed, received,
                       puts, deaths>>
    BY <1>2, <1>3 DEF Store_Callback, hops
  <2>2. QED
    BY <1>1, <1>2, <1>3, <2>1, CallbackErased
<1>4. CASE s \notin cut
  <2>1. /\ Len(fromStore[s]) < Window /\ it' = it + 1
        /\ fromStore' = [fromStore EXCEPT ![s] = Append(@, putting)]
        /\ UNCHANGED <<client, faz, toClient, response, cut, store, sub_map_, putting, tag,
                       owed, received, puts, deaths>>
    BY <1>2, <1>4 DEF Store_Callback
  <2>2. QED
    BY <1>1, <1>2, <1>4, <2>1, CallbackWrites
<1>5. QED
  BY <1>3, <1>4

-----------------------------------------------------------------------------
\* The invariant holds.

\* Every step keeps it.
LEMMA InvNext == Inv /\ [Next]_vars => Inv'
<1> SUFFICES ASSUME Inv, [Next]_vars PROVE Inv'
  OBVIOUS
<1>1. CASE UNCHANGED vars
  <2> USE <1>1 DEF vars, hops, storeVars
  <2>1. TypeOK' /\ Listed' /\ NoSilentStream'
    BY DEF Inv, TypeOK, Listed, NoSilentStream
  <2>2. \A d \in Streams : Quiet(d)' /\ InOrder(d)'
    BY Frame, SameDue DEF Inv
  <2>3. QED
    BY <2>1, <2>2 DEF Inv
<1>2. ASSUME NEW s \in Streams,
             \/ StreamEvent(s) \/ Client(s) \/ Client_Leave(s) \/ Faz(s) \/ Store_Get(s)
      PROVE  Inv'
  BY <1>2, StreamEventInv, ClientReadInv, ClientGoesInv, FazGetInv, FazReadInv,
     FazWriteInv, FazEndsInv, StoreGetInv DEF Client, Faz
<1>3. CASE (\E v \in Values : Store_Put(v)) \/ Notify \/ Faz_Dies \/ Store_Dies
  BY <1>3, StorePutInv, StoreCallbackInv, StoreNextTagInv, StorePutReturnsInv, FazDiesInv, StoreDiesInv
     DEF Notify
<1>4. QED
  BY <1>1, <1>2, <1>3 DEF Next

\* In every behaviour.
LEMMA InvAlways == Spec => []Inv
BY InvInit, InvNext, PTL DEF Spec

\* Every variable has its type, and no stream holds more than Window messages:
\* the code has no bound of its own, flow control has.
THEOREM TypeCorrect == Spec => []TypeOK
<1>1. Inv => TypeOK
  BY DEF Inv
<1>2. QED
  BY <1>1, InvAlways, PTL

\* The two streams and the threads between them are one FIFO (the loops of
\* kvstore_client.cpp:71, faz_client.cpp:40 and KeyValueStore.cpp:38-45).
THEOREM NothingIsLost == Spec => []NothingLost
<1>1. Inv => NothingLost
  BY AlongTransit DEF Inv, NothingLost, InOrder
<1>2. QED
  BY <1>1, InvAlways, PTL

\* A stream that is alive is subscribed (KeyValueStore.cpp:38-45, 88-98).
THEOREM StreamsAreHeard == Spec => []NoSilentStream
<1>1. Inv => NoSilentStream
  BY DEF Inv
<1>2. QED
  BY <1>1, InvAlways, PTL

-----------------------------------------------------------------------------
\* The pipeline implements TagFeed.

\* The first state is one of TagFeed.
LEMMA FeedInit == Init => Feed!Init
BY StreamAssumption DEF Init, NothingYet, Feed!Init, Subscription

\* No step of the threads shows, but for the six below.
LEMMA FeedStutter ==
  ASSUME UNCHANGED <<store, sub_map_, cut, owed, received>>
  PROVE  UNCHANGED Feed!vars
BY DEF Feed!vars, Subscription, Row

\* A stream's subscription is what its thread and its row say.
LEMMA SubscriptionIs ==
  ASSUME Inv, NEW d \in Streams
  PROVE  /\ Hashtag[d] \in Tags
         /\ d \in Row(Hashtag[d]) => store[d] = "spin"
         /\ \A g \in Tags : d \in Row(g) => g = Hashtag[d]
         /\ Subscription[d] = "on" <=> d \in Row(Hashtag[d])
         /\ Subscription[d] = "new" <=> store[d] \in {"none", "lock"}
         /\ Subscription[d] \in {"new", "on", "over"}
<1>1. Hashtag[d] \in Tags
  BY StreamAssumption
<1>2. \A g \in Tags : d \in Row(g) => store[d] = "spin" /\ g = Hashtag[d]
  BY DEF Inv, Listed, Row, ToSet
<1>3. QED
  BY <1>1, <1>2 DEF Subscription

\* The Faz thread's call is one step of the thread of the store, which shows nothing.
LEMMA CallStutters ==
  ASSUME Inv, NEW s \in Streams, Faz_Get(s)
  PROVE  UNCHANGED Feed!vars
<1>1. store[s] = "none"
  BY DEF Inv, Quiet, Faz_Get
<1>2. \A d \in Streams : store'[d] = store[d] \/ (store[d] = "none" /\ store'[d] = "lock")
  BY <1>1 DEF Faz_Get, Inv, TypeOK
<1>3. Subscription' = Subscription
  BY <1>2 DEF Subscription, Row, Faz_Get
<1>4. QED
  BY <1>3 DEF Feed!vars, Faz_Get

\* What the client reads is the next value it is owed.
LEMMA ReadIsReceive ==
  ASSUME Inv, NEW s \in Streams, Client_Read(s)
  PROVE  Feed!Receive(s)
<1> DEFINE r == received[s]  c == toClient[s]  o == owed[s]
<1>1. /\ r \in Seq(Values) /\ c \in Seq(Values) /\ o \in Seq(Values) /\ c # <<>>
      /\ IsPrefix(r \o c, o)
  BY Types DEF Inv, InOrder, Client_Read
<1> HIDE DEF r, c, o
<1>2. Len(r) < Len(o) /\ o[Len(r) + 1] = Head(c)
  BY <1>1, PrefixNext
<1>3. received' = [received EXCEPT ![s] = Append(@, owed[s][Len(@) + 1])]
  BY <1>2 DEF Client_Read, r, c, o
<1>4. UNCHANGED <<Subscription, cut, owed>>
  BY DEF Client_Read, storeVars, Subscription, Row
<1>5. QED
  BY <1>2, <1>3, <1>4 DEF Feed!Receive, r, o

\* What Put owes, it owes to the subscribed streams, once for each time their
\* tag occurs.
LEMMA PutIsPut ==
  ASSUME Inv, NEW v \in Values, Store_Put(v)
  PROVE  Feed!Put(v)
<1> DEFINE same(s) == {i \in DOMAIN TagsOf[v] : TagsOf[v][i] = Hashtag[s]}
<1>1. ASSUME NEW s \in Streams
      PROVE  owed[s] \o Copies(v, Places(v, s)) =
               IF Subscription[s] = "on"
                 THEN owed[s] \o [n \in 1 .. Occurrences[s][v] |-> v] ELSE owed[s]
  <2>1. \A i \in DOMAIN TagsOf[v] : TagsOf[v][i] \in Tags
    BY StreamAssumption
  <2>2. CASE Subscription[s] = "on"
    <3>1. \A g \in Tags : s \in Row(g) <=> g = Hashtag[s]
      BY <2>2, SubscriptionIs
    <3>2. Places(v, s) = same(s)
      BY <2>1, <3>1 DEF Places
    <3>3. QED
      BY <2>2, <3>2 DEF Copies, Occurrences
  <2>3. CASE Subscription[s] # "on"
    <3>1. \A g \in Tags : s \notin Row(g)
      BY <2>3, SubscriptionIs
    <3>2. Places(v, s) = {}
      BY <2>1, <3>1 DEF Places
    <3>3. Copies(v, Places(v, s)) = <<>> /\ owed[s] \in Seq(Values)
      BY <3>2, CopiesNone, Types DEF Inv
    <3>4. owed[s] \o <<>> = owed[s]
      BY <3>3, ConcatEmptySeq
    <3>5. QED
      BY <2>3, <3>3, <3>4
  <2>4. QED
    BY <2>2, <2>3
<1>2. owed' = [s \in Streams |-> IF Subscription[s] = "on"
                                   THEN owed[s] \o [n \in 1 .. Occurrences[s][v] |-> v]
                                   ELSE owed[s]]
  BY <1>1 DEF Store_Put
<1>3. UNCHANGED <<Subscription, cut, received>>
  BY DEF Store_Put, Subscription, Row
<1>4. QED
  BY <1>2, <1>3 DEF Feed!Put

\* Get subscribes.
LEMMA GetIsSubscribe ==
  ASSUME Inv, NEW s \in Streams, Store_Get(s)
  PROVE  Feed!Subscribe(s)
<1> DEFINE g == Hashtag[s]  q == sub_map_[g]
<1>1. /\ g \in Tags /\ q \in Seq(Streams) /\ sub_map_'[g] = Append(q, s)
      /\ \A h \in Tags : h # g => sub_map_'[h] = sub_map_[h]
      /\ store[s] = "lock" /\ store'[s] = "spin"
      /\ \A d \in Streams : d # s => store'[d] = store[d]
      /\ UNCHANGED <<cut, owed, received>>
  BY StreamAssumption DEF Inv, TypeOK, Store_Get
<1> HIDE DEF q
<1>2. /\ DOMAIN Append(q, s) = 1 .. Len(q) + 1 /\ DOMAIN q = 1 .. Len(q) /\ Len(q) \in Nat
      /\ \A i \in 1 .. Len(q) : Append(q, s)[i] = q[i]
      /\ Append(q, s)[Len(q) + 1] = s
  BY <1>1, AppendProperties
<1>3. ASSUME NEW d \in Streams
      PROVE  d \in ToSet(Append(q, s)) <=> d \in ToSet(q) \/ d = s
  <2>1. \A i \in 1 .. Len(q) + 1 : i \in 1 .. Len(q) \/ i = Len(q) + 1
    BY <1>2
  <2>2. QED
    BY <1>2, <2>1 DEF ToSet
<1>4. ASSUME NEW d \in Streams
      PROVE  d \in Row(Hashtag[d])' <=> d \in Row(Hashtag[d]) \/ d = s
  <2>1. CASE Hashtag[d] = g
    BY <1>1, <1>3, <2>1 DEF Row, q
  <2>2. CASE Hashtag[d] # g
    BY <1>1, <2>2, StreamAssumption DEF Row
  <2>3. QED
    BY <2>1, <2>2
<1>5. \A d \in Streams : Subscription'[d] = IF d = s THEN "on" ELSE Subscription[d]
  BY <1>1, <1>4 DEF Subscription
<1>6. Subscription' = [Subscription EXCEPT ![s] = "on"]
  BY <1>5 DEF Subscription
<1>7. Subscription[s] = "new"
  BY <1>1 DEF Subscription
<1>8. QED
  BY <1>1, <1>6, <1>7 DEF Feed!Subscribe

\* A callback is erased only where the connection has broken.
LEMMA EraseIsFail ==
  ASSUME Inv, Store_Callback
  PROVE  Feed!Fail({}) \/ UNCHANGED Feed!vars
<1> DEFINE T == TagsOf[putting]  g == T[tag]  q == sub_map_[g]  n == RemoveAt(q, it)
           s == q[it]
<1>1. CASE UNCHANGED sub_map_
  BY <1>1, FeedStutter DEF Store_Callback
<1>2. CASE s \in cut /\ sub_map_' = [sub_map_ EXCEPT ![g] = n]
  <2>1. /\ g \in Tags /\ q \in Seq(Streams) /\ Len(q) \in Nat /\ it \in 1 .. Len(q)
        /\ s \in Streams /\ Hashtag[s] = g /\ store[s] = "spin" /\ s = q[it]
        /\ \A i, j \in 1 .. Len(q) : q[i] = q[j] => i = j
    BY CallbackAt DEF Store_Callback, Inv
  <2>5. UNCHANGED <<store, cut, owed, received>> /\ s \in cut
    BY <1>2 DEF Store_Callback
  <2>13. sub_map_' = [sub_map_ EXCEPT ![g] = n] /\ q = sub_map_[g] /\ DOMAIN sub_map_ = Tags
    BY <1>2 DEF Inv, TypeOK
  <2> HIDE DEF T, g, q, s
  <2>2. /\ n \in Seq(Streams) /\ Len(n) = Len(q) - 1
        /\ \A j \in 1 .. Len(q) - 1 : n[j] = IF j < it THEN q[j] ELSE q[j + 1]
    BY <2>1, RemoveAtElements
  <2> HIDE DEF n
  <2>3. sub_map_'[g] = n /\ \A h \in Tags : h # g => sub_map_'[h] = sub_map_[h]
    BY <2>1, <2>13
  <2>4. \A d \in Streams : Hashtag[d] = g =>
          Row(Hashtag[d])' = ToSet(n) /\ Row(Hashtag[d]) = ToSet(q)
    BY <2>3, <2>13 DEF Row
  <2>6. s \notin ToSet(n)
    <3>1. SUFFICES ASSUME NEW j \in 1 .. Len(n), n[j] = s PROVE FALSE
      BY <2>2 DEF ToSet
    <3>2. j \in 1 .. Len(q) /\ j + 1 \in 1 .. Len(q) /\ Len(n) = Len(q) - 1
      BY <2>1, <2>2
    <3>3. CASE j < it
      <4>1. q[j] = s
        BY <2>2, <3>1, <3>2, <3>3
      <4>2. j = it
        BY <2>1, <3>2, <4>1
      <4>3. QED
        BY <2>1, <3>3, <4>2
    <3>4. CASE ~(j < it)
      <4>1. q[j + 1] = s
        BY <2>2, <3>1, <3>2, <3>4
      <4>2. j + 1 = it
        BY <2>1, <3>2, <4>1
      <4>3. QED
        BY <2>1, <3>4, <4>2
    <3>5. QED
      BY <3>3, <3>4
  <2>7. ASSUME NEW d \in Streams, d # s PROVE d \in ToSet(n) <=> d \in ToSet(q)
    <3>1. ASSUME NEW j \in 1 .. Len(n), n[j] = d PROVE \E k \in 1 .. Len(q) : q[k] = d
      BY <2>1, <2>2, <3>1
    <3>2. ASSUME NEW k \in 1 .. Len(q), q[k] = d PROVE \E j \in 1 .. Len(n) : n[j] = d
      <4>1. k # it
        <5>1. q[it] = s
          BY <2>1
        <5>2. QED
          BY <2>7, <3>2, <5>1, Zenon
      <4>2. CASE k < it
        <5>1. k \in 1 .. Len(n) /\ n[k] = d
          BY <2>1, <2>2, <3>2, <4>2
        <5>2. QED
          BY <5>1
      <4>3. CASE k > it
        <5>1. k - 1 \in 1 .. Len(n) /\ (k - 1) + 1 = k /\ ~(k - 1 < it)
          BY <2>1, <2>2, <4>3
        <5>2. n[k - 1] = d
          BY <2>1, <2>2, <3>2, <5>1
        <5>3. QED
          BY <5>1, <5>2
      <4>4. QED
        BY <2>1, <4>1, <4>2, <4>3
    <3>3. DOMAIN n = 1 .. Len(n) /\ DOMAIN q = 1 .. Len(q)
      BY <2>1, <2>2
    <3>4. QED
      BY <3>1, <3>2, <3>3 DEF ToSet
  <2>8. ASSUME NEW d \in Streams
        PROVE  Subscription'[d] = IF d \in {s} THEN "over" ELSE Subscription[d]
    <3>1. CASE d = s
      <4>1. d \notin Row(Hashtag[d])' /\ store'[d] = "spin"
        BY <2>1, <2>4, <2>5, <2>6, <3>1
      <4>2. QED
        BY <3>1, <4>1 DEF Subscription
    <3>2. CASE d # s
      <4>1. d \in Row(Hashtag[d])' <=> d \in Row(Hashtag[d])
        <5>1. CASE Hashtag[d] = g
          BY <2>4, <2>7, <3>2, <5>1
        <5>2. CASE Hashtag[d] # g
          BY <2>3, <5>2, StreamAssumption DEF Row
        <5>3. QED
          BY <5>1, <5>2
      <4>2. QED
        BY <2>5, <3>2, <4>1 DEF Subscription
    <3>3. QED
      BY <3>1, <3>2
  <2>9. Subscription' = [d \in Streams |-> IF d \in {s} THEN "over" ELSE Subscription[d]]
    BY <2>8 DEF Subscription
  <2>10. {s} \in SUBSET cut' /\ cut' = cut \cup {}
    BY <2>5
  <2>11. Feed!Fail({})
    BY <2>5, <2>9, <2>10 DEF Feed!Fail
  <2>12. QED
    BY <2>11
<1>3. QED
  BY <1>1, <1>2 DEF Store_Callback

\* The death of Faz breaks the connections; the subscriptions stay for the moment.
LEMMA FazDeathIsFail ==
  ASSUME Inv, Faz_Dies
  PROVE  Feed!Fail(InStore)
<1>1. cut' = cut \cup InStore /\ UNCHANGED <<store, sub_map_, owed, received>>
  BY DEF Faz_Dies, storeVars
<1>2. Subscription' = [d \in Streams |-> IF d \in {} THEN "over" ELSE Subscription[d]]
  BY <1>1 DEF Subscription, Row
<1>3. {} \in SUBSET cut'
  OBVIOUS
<1>4. QED
  BY <1>1, <1>2, <1>3 DEF Feed!Fail

\* With the store the connections break and all subscriptions are over.
LEMMA DeathIsFail ==
  ASSUME Inv, Store_Dies
  PROVE  Feed!Fail(InStore)
<1>1. /\ cut' = cut \cup InStore /\ UNCHANGED <<owed, received>>
      /\ sub_map_' = [g \in Tags |-> <<>>]
      /\ store' = [s \in Streams |-> IF s \in InStore THEN "gone" ELSE store[s]]
  BY DEF Store_Dies
<1>2. ASSUME NEW d \in Streams
      PROVE  Subscription'[d] = IF d \in InStore THEN "over" ELSE Subscription[d]
  <2>1. d \notin Row(Hashtag[d])'
    BY <1>1, StreamAssumption DEF Row, ToSet
  <2>2. CASE d \in InStore
    BY <1>1, <2>1, <2>2 DEF Subscription
  <2>3. CASE d \notin InStore
    <3>1. store'[d] = store[d] /\ store[d] \in {"none", "gone"}
      BY <1>1, <2>3 DEF InStore, Inv, TypeOK
    <3>2. d \notin Row(Hashtag[d])
      BY <3>1, SubscriptionIs
    <3>3. QED
      BY <2>1, <2>3, <3>1, <3>2 DEF Subscription
  <2>4. QED
    BY <2>2, <2>3
<1>3. Subscription' = [d \in Streams |-> IF d \in InStore THEN "over" ELSE Subscription[d]]
  BY <1>2 DEF Subscription
<1>4. InStore \in SUBSET cut'
  BY <1>1
<1>5. QED
  BY <1>1, <1>3, <1>4 DEF Feed!Fail

\* Every step is one of TagFeed or does not show.
LEMMA FeedNext == Inv /\ [Next]_vars => [Feed!Next]_Feed!vars
<1> SUFFICES ASSUME Inv, [Next]_vars PROVE Feed!Next \/ UNCHANGED Feed!vars
  OBVIOUS
<1>0. {} \in SUBSET Streams /\ InStore \in SUBSET Streams
  BY DEF InStore
<1>1. CASE UNCHANGED vars
  BY <1>1, FeedStutter DEF vars, storeVars
<1>2. ASSUME NEW s \in Streams,
             \/ StreamEvent(s) \/ Client(s) \/ Client_Leave(s) \/ Faz(s) \/ Store_Get(s)
      PROVE  Feed!Next \/ UNCHANGED Feed!vars
  <2>1. CASE Client_Read(s)
    BY <2>1, ReadIsReceive DEF Feed!Next
  <2>2. CASE Store_Get(s)
    BY <2>2, GetIsSubscribe DEF Feed!Next
  <2>3. CASE Faz_Get(s)
    BY <2>3, CallStutters
  <2>4. CASE \/ StreamEvent(s) \/ Client_Finish(s) \/ Client_Leave(s)
             \/ Faz_Read(s) \/ Faz_Write(s) \/ Faz_ReadLast(s) \/ Faz_Finish(s)
    BY <2>4, FeedStutter
       DEF StreamEvent, Client_Finish, Client_Leave, Faz_Read, Faz_Write,
           Faz_ReadLast, Faz_Finish, storeVars
  <2>5. QED
    BY <1>2, <2>1, <2>2, <2>3, <2>4 DEF Client, Faz
<1>3. CASE \E v \in Values : Store_Put(v)
  BY <1>3, PutIsPut DEF Feed!Next
<1>4. CASE Store_Callback
  BY <1>0, <1>4, EraseIsFail DEF Feed!Next
<1>5. CASE Store_NextTag \/ Store_PutReturns
  BY <1>5, FeedStutter DEF Store_NextTag, Store_PutReturns
<1>6. CASE Faz_Dies \/ Store_Dies
  BY <1>0, <1>6, FazDeathIsFail, DeathIsFail DEF Feed!Next
<1>7. QED
  BY <1>1, <1>2, <1>3, <1>4, <1>5, <1>6 DEF Next, Notify

\* A hashtag stream is subscribed once and until its connection breaks, and its
\* user gets the values put with its tag since then, in order, each once for
\* every time the tag occurs in it, none left out and none made up
\* (caw_client.h:83-86, KeyValueStore.cpp:24-46).
THEOREM PipelineIsAFeed == Spec => IsAFeed
<1>1. Spec => Feed!Spec
  BY FeedInit, FeedNext, InvAlways, PTL DEF Spec, Feed!Spec
<1>2. QED
  BY <1>1 DEF IsAFeed
=============================================================================
