--------------------------- MODULE SequenceFacts ---------------------------
(***************************************************************************)
(* Facts about sequences that the proofs about the store and about the     *)
(* streams share, prefixes and what RemoveAt leaves, and about FlattenSeq  *)
(* and sequences without repetitions, on which those about ReadCaw rest.   *)
(***************************************************************************)
EXTENDS Integers, SequencesExt, SequenceTheorems, WellFoundedInduction, TLAPS

\* Concatenation is associative; as a formula of its own it is used only where
\* it is asked for.
Associative(p, q, t) == p \o (q \o t) = (p \o q) \o t

LEMMA ConcatIsAssociative ==
  ASSUME NEW S, NEW p \in Seq(S), NEW q \in Seq(S), NEW t \in Seq(S)
  PROVE  Associative(p, q, t)
BY ConcatAssociative DEF Associative

\* A prefix, element by element.
LEMMA PrefixElements ==
  ASSUME NEW S, NEW p \in Seq(S), NEW t \in Seq(S)
  PROVE  IsPrefix(p, t) <=> Len(p) <= Len(t) /\ \A i \in 1 .. Len(p) : p[i] = t[i]
<1>1. SubSeq(p, 1, Len(p)) = p
  BY SubSeqFull
<1>2. CASE Len(p) <= Len(t)
  <2> DEFINE u == SubSeq(t, 1, Len(p))
  <2>1. Len(p) \in Nat /\ Len(t) \in Nat
    OBVIOUS
  <2>2. \A i \in 1 .. Len(p) : t[i] \in S
    BY <1>2, <2>1, ElementOfSeq
  <2>3. u \in Seq(S) /\ Len(u) = Len(p) /\ \A i \in 1 .. Len(p) : u[i] = t[i]
    BY <2>1, <2>2, SubSeqProperties
  <2>4. u = p <=> \A i \in 1 .. Len(p) : p[i] = u[i]
    BY <2>3, SeqEqual
  <2>5. QED
    BY <1>1, <1>2, <2>3, <2>4 DEF IsPrefix
<1>3. CASE ~(Len(p) <= Len(t))
  BY <1>3 DEF IsPrefix
<1>4. QED
  BY <1>2, <1>3

\* The first part of a concatenation is a prefix of it and of what it is a prefix of.
LEMMA PrefixOfConcat ==
  ASSUME NEW S, NEW p \in Seq(S), NEW q \in Seq(S), NEW t \in Seq(S)
  PROVE  /\ IsPrefix(p \o q, t) => IsPrefix(p, t)
         /\ p \o q = t => IsPrefix(p, t)
<1>1. /\ p \o q \in Seq(S) /\ Len(p \o q) = Len(p) + Len(q)
      /\ \A i \in 1 .. Len(p) : (p \o q)[i] = p[i]
  BY ConcatProperties
<1>2. Len(p) \in Nat /\ Len(q) \in Nat /\ Len(t) \in Nat
  OBVIOUS
<1>3. IsPrefix(p, t) <=> Len(p) <= Len(t) /\ \A i \in 1 .. Len(p) : p[i] = t[i]
  BY PrefixElements
<1> DEFINE u == p \o q
<1>4. /\ u \in Seq(S) /\ Len(u) = Len(p) + Len(q)
      /\ \A i \in 1 .. Len(p) : u[i] = p[i]
  BY <1>1
<1>5. ASSUME IsPrefix(u, t) PROVE IsPrefix(p, t)
  <2> HIDE DEF u
  <2>1. Len(u) <= Len(t) /\ \A i \in 1 .. Len(u) : u[i] = t[i]
    BY <1>4, <1>5, PrefixElements
  <2>2. Len(p) <= Len(t)
    BY <1>2, <1>4, <2>1
  <2>3. ASSUME NEW i \in 1 .. Len(p) PROVE p[i] = t[i]
    BY <1>2, <1>4, <2>1
  <2> QED
    BY <1>3, <2>2, <2>3
<1>6. ASSUME u = t PROVE IsPrefix(p, t)
  <2> HIDE DEF u
  <2> QED
    BY <1>2, <1>3, <1>4, <1>6
<1>7. QED
  BY <1>5, <1>6

\* What is put later keeps a prefix one.
LEMMA PrefixAppend ==
  ASSUME NEW S, NEW p \in Seq(S), NEW t \in Seq(S), NEW x \in S, IsPrefix(p, t)
  PROVE  IsPrefix(p, Append(t, x))
<1> DEFINE u == Append(t, x)
<1>1. u \in Seq(S) /\ Len(u) = Len(t) + 1 /\ \A i \in 1 .. Len(t) : u[i] = t[i]
  BY AppendProperties
<1>2. Len(p) \in Nat /\ Len(t) \in Nat
  OBVIOUS
<1>3. Len(p) <= Len(t) /\ \A i \in 1 .. Len(p) : p[i] = t[i]
  BY PrefixElements
<1>4. \A i \in 1 .. Len(p) : p[i] = u[i]
  BY <1>1, <1>2, <1>3
<1> HIDE DEF u
<1>5. IsPrefix(p, u)
  BY <1>1, <1>2, <1>3, <1>4, PrefixElements
<1>6. QED
  BY <1>5 DEF u

\* What comes after keeps a prefix one.
LEMMA PrefixConcat ==
  ASSUME NEW S, NEW p \in Seq(S), NEW t \in Seq(S), NEW e \in Seq(S), IsPrefix(p, t)
  PROVE  IsPrefix(p, t \o e)
<1> DEFINE u == t \o e
<1>1. /\ u \in Seq(S) /\ Len(u) = Len(t) + Len(e)
      /\ \A i \in 1 .. Len(t) : u[i] = t[i]
  BY ConcatProperties
<1>2. Len(p) \in Nat /\ Len(t) \in Nat /\ Len(e) \in Nat
  OBVIOUS
<1>3. Len(p) <= Len(t) /\ \A i \in 1 .. Len(p) : p[i] = t[i]
  BY PrefixElements
<1>4. Len(p) <= Len(u) /\ \A i \in 1 .. Len(p) : p[i] = u[i]
  BY <1>1, <1>2, <1>3
<1> HIDE DEF u
<1>5. IsPrefix(p, u)
  BY <1>1, <1>4, PrefixElements
<1>6. QED
  BY <1>5 DEF u

\* The element after p is the first of what follows it.
LEMMA PrefixNext ==
  ASSUME NEW S, NEW p \in Seq(S), NEW q \in Seq(S), NEW t \in Seq(S), q # <<>>,
         IsPrefix(p \o q, t)
  PROVE  Len(p) < Len(t) /\ t[Len(p) + 1] = Head(q)
<1>1. Len(p) \in Nat /\ Len(q) \in Nat /\ Len(t) \in Nat /\ Len(q) > 0
  BY EmptySeq
<1>2. p \o q \in Seq(S) /\ Len(p \o q) = Len(p) + Len(q) /\ (p \o q)[Len(p) + 1] = q[1]
  BY <1>1, ConcatProperties
<1>3. q[1] = Head(q)
  BY HeadTailProperties
<1>4. Len(p \o q) <= Len(t) /\ \A i \in 1 .. Len(p \o q) : (p \o q)[i] = t[i]
  BY <1>2, PrefixElements
<1>5. QED
  BY <1>1, <1>2, <1>3, <1>4

\* A message that moves from the head of one buffer to the end of the one
\* before does not change their concatenation.
LEMMA Shift ==
  ASSUME NEW S, NEW p \in Seq(S), NEW q \in Seq(S), q # <<>>
  PROVE  /\ Head(q) \in S /\ Tail(q) \in Seq(S) /\ Len(Tail(q)) = Len(q) - 1
         /\ <<Head(q)>> \o Tail(q) = q
         /\ Append(p, Head(q)) \o Tail(q) = p \o q
<1>1. Head(q) \in S /\ Tail(q) \in Seq(S) /\ Len(Tail(q)) = Len(q) - 1
  BY HeadTailProperties
<1>2. Len(q) \in Nat /\ Len(q) >= 1
  BY EmptySeq
<1>3. SubSeq(q, 1, Len(q)) = <<q[1]>> \o SubSeq(q, 2, Len(q))
  BY <1>2, SubSeqRecursiveFirst
<1>4. q = <<Head(q)>> \o Tail(q)
  BY <1>3, SubSeqFull, TailIsSubSeq, HeadTailProperties
<1>5. Append(p, Head(q)) = p \o <<Head(q)>>
  BY <1>1, AppendIsConcat
<1>6. (p \o <<Head(q)>>) \o Tail(q) = p \o (<<Head(q)>> \o Tail(q))
  <2>0. <<Head(q)>> \in Seq(S)
    BY <1>1
  <2>1. Associative(p, <<Head(q)>>, Tail(q))
    BY <1>1, <2>0, ConcatIsAssociative
  <2> QED
    BY <2>1 DEF Associative
<1>7. QED
  BY <1>1, <1>4, <1>5, <1>6

\* RemoveAt takes out one element and keeps the order of the others.
LEMMA RemoveAtElements ==
  ASSUME NEW S, NEW q \in Seq(S), NEW i \in 1 .. Len(q)
  PROVE  /\ RemoveAt(q, i) \in Seq(S)
         /\ Len(RemoveAt(q, i)) = Len(q) - 1
         /\ \A j \in 1 .. Len(q) - 1 :
              RemoveAt(q, i)[j] = IF j < i THEN q[j] ELSE q[j + 1]
<1> DEFINE a == SubSeq(q, 1, i - 1)
           b == SubSeq(q, i + 1, Len(q))
<1>1. Len(q) \in Nat /\ \A j \in 1 .. Len(q) : q[j] \in S
  BY ElementOfSeq
<1>2. a \in Seq(S) /\ Len(a) = i - 1 /\ \A j \in 1 .. i - 1 : a[j] = q[j]
  BY <1>1, SubSeqProperties
<1>3. b \in Seq(S) /\ Len(b) = Len(q) - i /\ \A j \in 1 .. Len(q) - i : b[j] = q[j + i]
  BY <1>1, SubSeqProperties
<1>4. /\ a \o b \in Seq(S) /\ Len(a \o b) = Len(a) + Len(b)
      /\ \A j \in 1 .. Len(a) + Len(b) :
           (a \o b)[j] = IF j <= Len(a) THEN a[j] ELSE b[j - Len(a)]
  <2> HIDE DEF a, b
  <2>1. QED
    BY <1>2, <1>3, ConcatProperties
<1>5. RemoveAt(q, i) = a \o b
  BY DEF RemoveAt
<1> HIDE DEF a, b
<1>6. ASSUME NEW j \in 1 .. Len(q) - 1
      PROVE  (a \o b)[j] = IF j < i THEN q[j] ELSE q[j + 1]
  <2>1. CASE j < i
    BY <1>1, <1>2, <1>3, <1>4, <2>1
  <2>2. CASE ~(j < i)
    <3>1. (a \o b)[j] = b[j - (i - 1)] /\ j - (i - 1) \in 1 .. Len(q) - i
      BY <1>1, <1>2, <1>3, <1>4, <2>2
    <3>2. b[j - (i - 1)] = q[(j - (i - 1)) + i]
      BY <1>3, <3>1
    <3>3. (j - (i - 1)) + i = j + 1
      BY <1>1
    <3>4. QED
      BY <2>2, <3>1, <3>2, <3>3
  <2>3. QED
    BY <2>1, <2>2
<1>7. QED
  BY <1>1, <1>2, <1>3, <1>4, <1>5, <1>6

-----------------------------------------------------------------------------
\* Induction over the natural numbers, for a set of them.

Less == {p \in Nat \X Nat : p[1] < p[2]}

\* The order of the natural numbers is well founded.
LEMMA LessIsWellFounded == IsWellFoundedOn(Less, Nat)
BY NatLessThanWellFounded DEF OpToRel, Less

\* A set of natural numbers that has 0 and with each number the next has all.
LEMMA SetInduction ==
  ASSUME NEW T, T \subseteq Nat, 0 \in T, \A n \in T : n + 1 \in T
  PROVE  T = Nat
<1> SUFFICES ASSUME Nat \ T # {} PROVE FALSE
  OBVIOUS
<1>1. PICK x \in Nat \ T : \A y \in Nat \ T : <<y, x>> \notin Less
  BY LessIsWellFounded, WFMin
<1>2. x # 0 /\ x - 1 \in Nat
  OBVIOUS
<1>3. x - 1 \in Nat \ T
  BY <1>2
<1>4. <<x - 1, x>> \in Less
  BY <1>2 DEF Less
<1>5. QED
  BY <1>1, <1>3, <1>4

-----------------------------------------------------------------------------
\* The concatenation of the sequences of a sequence.

\* The value of the recursive function of FlattenSeq at i.
FlatStep(s, f, i) == IF i = 1 THEN s[i] ELSE f[i - 1] \o s[i]

\* What f is for the first n sequences of s.
Flattens(s, f, n) == DOMAIN f = 1 .. n /\ \A i \in 1 .. n : f[i] = FlatStep(s, f, i)

\* There is such a function.
LEMMA FlattenExists ==
  ASSUME NEW s, NEW m \in Nat
  PROVE  \E f : f = [i \in 1 .. m |-> FlatStep(s, f, i)]
<1> DEFINE good(n) == \E f : Flattens(s, f, n)
           T == {n \in Nat : good(n)}
<1>1. 0 \in T
  <2>1. Flattens(s, <<>>, 0)
    BY DEF Flattens
  <2>2. QED
    BY <2>1
<1>2. ASSUME NEW n \in T PROVE n + 1 \in T
  <2>1. PICK f : Flattens(s, f, n)
    OBVIOUS
  <2> DEFINE g == [i \in 1 .. n + 1 |-> IF i = n + 1 THEN FlatStep(s, f, i) ELSE f[i]]
  <2>2. n \in Nat /\ n + 1 \in Nat /\ 1 .. n \subseteq 1 .. n + 1
    OBVIOUS
  <2>3. \A i \in 1 .. n : g[i] = f[i]
    BY <2>2
  <2>4. \A i \in 1 .. n + 1 : FlatStep(s, g, i) = FlatStep(s, f, i)
    <3>1. \A i \in 1 .. n + 1 : i # 1 => i - 1 \in 1 .. n
      BY <2>2
    <3> HIDE DEF g
    <3>2. QED
      BY <2>3, <3>1 DEF FlatStep
  <2>5. \A i \in 1 .. n + 1 : g[i] = FlatStep(s, f, i)
    <3>1. g[n + 1] = FlatStep(s, f, n + 1)
      BY <2>2
    <3>2. \A i \in 1 .. n : g[i] = FlatStep(s, f, i)
      BY <2>1, <2>3 DEF Flattens
    <3>3. \A i \in 1 .. n + 1 : i = n + 1 \/ i \in 1 .. n
      BY <2>2
    <3> HIDE DEF g
    <3>4. QED
      BY <3>1, <3>2, <3>3
  <2>6. DOMAIN g = 1 .. n + 1
    OBVIOUS
  <2> HIDE DEF g
  <2>7. Flattens(s, g, n + 1)
    BY <2>4, <2>5, <2>6 DEF Flattens
  <2>8. QED
    BY <2>2, <2>7
<1> HIDE DEF T
<1>3. T = Nat
  <2>1. T \subseteq Nat
    BY DEF T
  <2>2. QED
    BY <1>1, <1>2, <2>1, SetInduction
<1>4. PICK f : Flattens(s, f, m)
  BY <1>3 DEF T
<1> DEFINE g == [i \in 1 .. m |-> f[i]]
<1>5. DOMAIN g = 1 .. m /\ \A i \in 1 .. m : g[i] = f[i]
  OBVIOUS
<1>6. \A i \in 1 .. m : FlatStep(s, g, i) = FlatStep(s, f, i)
  <2>1. \A i \in 1 .. m : i # 1 => i - 1 \in 1 .. m
    OBVIOUS
  <2> HIDE DEF g
  <2>2. QED
    BY <1>5, <2>1 DEF FlatStep
<1>7. \A i \in 1 .. m : f[i] = FlatStep(s, g, i)
  BY <1>4, <1>6 DEF Flattens
<1>8. g = [i \in 1 .. m |-> FlatStep(s, g, i)]
  BY <1>7
<1>9. QED
  BY <1>8

\* FlattenSeq by its recursive function.
LEMMA FlattenIs ==
  ASSUME NEW s, Len(s) \in Nat, Len(s) # 0
  PROVE  \E f : Flattens(s, f, Len(s)) /\ FlattenSeq(s) = f[Len(s)]
<1> DEFINE flatten == CHOOSE f : f = [i \in 1 .. Len(s) |->
                                        IF i = 1 THEN s[i] ELSE f[i - 1] \o s[i]]
<1>1. FlattenSeq(s) = flatten[Len(s)]
  BY DEF FlattenSeq
<1>2. \E f : f = [i \in 1 .. Len(s) |-> FlatStep(s, f, i)]
  BY FlattenExists
<1>3. flatten = [i \in 1 .. Len(s) |-> FlatStep(s, flatten, i)]
  BY <1>2 DEF FlatStep
<1> HIDE DEF flatten
<1>4. Flattens(s, flatten, Len(s))
  BY <1>3 DEF Flattens
<1>5. QED
  BY <1>1, <1>4

\* Nothing to concatenate.
LEMMA FlattenEmpty == FlattenSeq(<<>>) = <<>>
BY DEF FlattenSeq

\* The functions of a sequence and of a longer one agree, and their values are sequences.
LEMMA FlattensAgree ==
  ASSUME NEW S, NEW n \in Nat, NEW s, NEW t, NEW f, NEW g,
         \A i \in 1 .. n : s[i] \in Seq(S) /\ t[i] = s[i],
         Flattens(s, f, n), NEW m \in Nat, n <= m, Flattens(t, g, m)
  PROVE  \A i \in 1 .. n : f[i] = g[i] /\ f[i] \in Seq(S)
<1> DEFINE T == {i \in Nat : i \in 1 .. n => f[i] = g[i] /\ f[i] \in Seq(S)}
<1>1. 0 \in T
  OBVIOUS
<1>2. ASSUME NEW k \in T PROVE k + 1 \in T
  <2> SUFFICES ASSUME k + 1 \in 1 .. n
               PROVE  f[k + 1] = g[k + 1] /\ f[k + 1] \in Seq(S)
    OBVIOUS
  <2>1. k \in Nat /\ k + 1 \in 1 .. m /\ (k + 1) - 1 = k
    OBVIOUS
  <2>2. f[k + 1] = FlatStep(s, f, k + 1) /\ g[k + 1] = FlatStep(t, g, k + 1)
    BY <2>1 DEF Flattens
  <2>3. s[k + 1] \in Seq(S) /\ t[k + 1] = s[k + 1]
    OBVIOUS
  <2>4. CASE k = 0
    <3>1. FlatStep(s, f, k + 1) = s[k + 1] /\ FlatStep(t, g, k + 1) = t[k + 1]
      BY <2>4 DEF FlatStep
    <3>2. QED
      BY <2>2, <2>3, <3>1
  <2>5. CASE k # 0
    <3>1. f[k] = g[k] /\ f[k] \in Seq(S)
      BY <2>1, <2>5
    <3>2. FlatStep(s, f, k + 1) = f[k] \o s[k + 1] /\ FlatStep(t, g, k + 1) = g[k] \o t[k + 1]
      <4>1. k + 1 # 1
        BY <2>1, <2>5
      <4>2. QED
        BY <2>1, <4>1, Zenon DEF FlatStep
    <3>3. QED
      BY <2>2, <2>3, <3>1, <3>2, ConcatProperties
  <2>6. QED
    BY <2>4, <2>5
<1> HIDE DEF T
<1>3. T = Nat
  <2>1. T \subseteq Nat
    BY DEF T
  <2>2. QED
    BY <1>1, <1>2, <2>1, SetInduction
<1>4. QED
  BY <1>3 DEF T

\* One more sequence.
LEMMA FlattenAppend ==
  ASSUME NEW S, NEW s \in Seq(Seq(S)), NEW x \in Seq(S)
  PROVE  /\ FlattenSeq(s) \in Seq(S)
         /\ FlattenSeq(Append(s, x)) = FlattenSeq(s) \o x
<1> DEFINE n == Len(s)
           t == Append(s, x)
<1>1. /\ n \in Nat /\ Len(t) = n + 1 /\ t[n + 1] = x
      /\ \A i \in 1 .. n : s[i] \in Seq(S) /\ t[i] = s[i]
  BY AppendProperties, ElementOfSeq
<1> HIDE DEF t
<1>2. Len(t) \in Nat /\ Len(t) # 0
  BY <1>1
<1>3. PICK g : Flattens(t, g, Len(t)) /\ FlattenSeq(t) = g[Len(t)]
  BY <1>2, FlattenIs
<1>4. n + 1 \in 1 .. Len(t) /\ (n + 1) - 1 = n
  BY <1>1
<1>5. FlattenSeq(t) = FlatStep(t, g, n + 1)
  BY <1>1, <1>3, <1>4 DEF Flattens
<1>6. CASE n = 0
  <2>1. s = <<>>
    BY <1>6, EmptySeq
  <2>2. FlattenSeq(t) = x
    BY <1>1, <1>5, <1>6 DEF FlatStep
  <2>3. <<>> \o x = x
    BY ConcatEmptySeq
  <2>4. FlattenSeq(s) = <<>> /\ <<>> \in Seq(S)
    BY <2>1, FlattenEmpty
  <2>5. QED
    BY <2>2, <2>3, <2>4 DEF t
<1>7. CASE n # 0
  <2>1. PICK f : Flattens(s, f, n) /\ FlattenSeq(s) = f[n]
    BY <1>1, <1>7, FlattenIs
  <2>2. f[n] = g[n] /\ f[n] \in Seq(S)
    <3>1. n <= Len(t) /\ n \in 1 .. n
      BY <1>1, <1>7
    <3> HIDE DEF n
    <3>2. QED
      BY <1>1, <1>2, <1>3, <2>1, <3>1, FlattensAgree
  <2>3. FlattenSeq(t) = g[n] \o x
    BY <1>1, <1>4, <1>5, <1>7 DEF FlatStep
  <2>4. QED
    BY <2>1, <2>2, <2>3 DEF t
<1>8. QED
  BY <1>6, <1>7

\* The concatenation of what f gives for the elements of s.
Visits(f, s) == FlattenSeq([j \in DOMAIN s |-> f[s[j]]])

\* A function from A to sequences over S.
SeqValued(f, A, S) == f \in [A -> Seq(S)]

\* One more element.
LEMMA VisitsAppend ==
  ASSUME NEW S, NEW A, NEW f, SeqValued(f, A, S), NEW s \in Seq(A), NEW x \in A
  PROVE  /\ Visits(f, s) \in Seq(S)
         /\ Visits(f, Append(s, x)) = Visits(f, s) \o f[x]
<1> DEFINE t == Append(s, x)
           sf == [j \in DOMAIN s |-> f[s[j]]]
           tf == [j \in DOMAIN t |-> f[t[j]]]
<1>1. /\ DOMAIN s = 1 .. Len(s) /\ Len(s) \in Nat /\ \A j \in DOMAIN s : s[j] \in A
      /\ DOMAIN t = 1 .. Len(s) + 1 /\ t[Len(s) + 1] = x
      /\ \A j \in 1 .. Len(s) : t[j] = s[j]
  BY AppendProperties, ElementOfSeq
<1>2. f[x] \in Seq(S) /\ \A j \in DOMAIN s : f[s[j]] \in Seq(S)
  BY <1>1 DEF SeqValued
<1>3. sf \in Seq(Seq(S)) /\ Len(sf) = Len(s) /\ DOMAIN sf = 1 .. Len(s)
  BY <1>1, <1>2
<1>4. tf = Append(sf, f[x])
  <2> DEFINE u == Append(sf, f[x])
  <2>1. u \in Seq(Seq(S)) /\ Len(u) = Len(s) + 1 /\ u[Len(s) + 1] = f[x]
        /\ \A j \in 1 .. Len(s) : u[j] = sf[j]
    BY <1>2, <1>3, AppendProperties
  <2>2. DOMAIN tf = 1 .. Len(s) + 1 /\ \A j \in 1 .. Len(s) + 1 : tf[j] = f[t[j]]
    BY <1>1
  <2>3. \A j \in 1 .. Len(s) : sf[j] = f[s[j]]
    BY <1>1
  <2>4. \A j \in 1 .. Len(s) + 1 : j \in 1 .. Len(s) \/ j = Len(s) + 1
    BY <1>1
  <2>5. tf = [j \in 1 .. Len(s) + 1 |-> tf[j]]
    BY <2>2
  <2>6. u = [j \in 1 .. Len(s) + 1 |-> u[j]]
    <3> HIDE DEF u, sf
    <3>1. QED
      BY <2>1
  <2> HIDE DEF u, sf, tf, t
  <2>7. \A j \in 1 .. Len(s) + 1 : tf[j] = u[j]
    BY <1>1, <2>1, <2>2, <2>3, <2>4
  <2>8. QED
    BY <2>5, <2>6, <2>7 DEF u
<1>5. FlattenSeq(sf) \in Seq(S) /\ FlattenSeq(Append(sf, f[x])) = FlattenSeq(sf) \o f[x]
  <2> HIDE DEF sf
  <2>1. QED
    BY <1>2, <1>3, FlattenAppend
<1>6. QED
  BY <1>4, <1>5 DEF Visits

\* No element, and one.
LEMMA VisitsShort ==
  ASSUME NEW S, NEW A, NEW f, SeqValued(f, A, S)
  PROVE  /\ Visits(f, <<>>) = <<>>
         /\ \A x \in A : Visits(f, <<x>>) = f[x]
<1>1. Visits(f, <<>>) = <<>>
  <2>1. [j \in DOMAIN <<>> |-> f[<<>>[j]]] = <<>>
    OBVIOUS
  <2>2. QED
    BY <2>1, FlattenEmpty DEF Visits
<1>2. ASSUME NEW x \in A PROVE Visits(f, <<x>>) = f[x]
  <2>1. <<>> \in Seq(A) /\ Append(<<>>, x) = <<x>> /\ f[x] \in Seq(S)
    BY DEF SeqValued
  <2>2. Visits(f, Append(<<>>, x)) = Visits(f, <<>>) \o f[x]
    <3> DEFINE e == <<>>
    <3>1. e \in Seq(A)
      BY <2>1
    <3> HIDE DEF e
    <3>2. Visits(f, Append(e, x)) = Visits(f, e) \o f[x]
      BY <3>1, VisitsAppend
    <3>3. QED
      BY <3>2 DEF e
  <2>3. <<>> \o f[x] = f[x]
    BY <2>1, ConcatEmptySeq
  <2>4. QED
    BY <1>1, <2>1, <2>2, <2>3
<1>3. QED
  BY <1>1, <1>2

\* The concatenation is a sequence.
LEMMA VisitsTyped ==
  ASSUME NEW S, NEW A, NEW f, SeqValued(f, A, S), NEW u \in Seq(A)
  PROVE  Visits(f, u) \in Seq(S)
<1>1. CASE u = <<>>
  <2>1. <<>> \in Seq(S)
    OBVIOUS
  <2>2. QED
    BY <1>1, <2>1, VisitsShort
<1>2. CASE u # <<>>
  <2>1. PICK x \in A : TRUE
    BY <1>2, EmptySeq, ElementOfSeq
  <2>2. QED
    BY <2>1, VisitsAppend
<1>3. QED
  BY <1>1, <1>2

\* It depends on f only at the elements.
LEMMA VisitsSame ==
  ASSUME NEW f, NEW g, NEW s, \A j \in DOMAIN s : f[s[j]] = g[s[j]]
  PROVE  Visits(f, s) = Visits(g, s)
<1>1. [j \in DOMAIN s |-> f[s[j]]] = [j \in DOMAIN s |-> g[s[j]]]
  OBVIOUS
<1>2. QED
  BY <1>1 DEF Visits

\* The elements of two sequences, one after the other.
LEMMA VisitsConcat ==
  ASSUME NEW S, NEW A, NEW f, SeqValued(f, A, S), NEW s \in Seq(A), NEW t \in Seq(A)
  PROVE  Visits(f, s \o t) = Visits(f, s) \o Visits(f, t)
<1> DEFINE both(u) == Visits(f, s \o u) = Visits(f, s) \o Visits(f, u)
           T == {n \in Nat : \A u \in Seq(A) : Len(u) = n => both(u)}
<1>0. \A u \in Seq(A) : Visits(f, u) \in Seq(S)
  BY VisitsTyped
<1>1. 0 \in T
  <2> SUFFICES ASSUME NEW u \in Seq(A), Len(u) = 0 PROVE both(u)
    OBVIOUS
  <2>1. u = <<>> /\ s \o u = s
    BY EmptySeq, ConcatEmptySeq
  <2>2. Visits(f, s) \o <<>> = Visits(f, s)
    BY <1>0, ConcatEmptySeq
  <2>3. QED
    BY <2>1, <2>2, VisitsShort
<1>2. ASSUME NEW n \in T PROVE n + 1 \in T
  <2> SUFFICES ASSUME NEW u \in Seq(A), Len(u) = n + 1 PROVE both(u)
    OBVIOUS
  <2>1. n \in Nat /\ \A q \in Seq(A) : Len(q) = n => both(q)
    OBVIOUS
  <2> HIDE DEF T
  <2>2. PICK q \in Seq(A), x \in A : u = Append(q, x)
    <3>1. u # <<>>
      BY <2>1
    <3>2. QED
      BY <3>1, SequenceEmptyOrAppend
  <2>3. Len(q) = n
    BY <2>1, <2>2, AppendProperties
  <2>4. both(q) /\ f[x] \in Seq(S)
    BY <2>1, <2>3 DEF SeqValued
  <2>5. s \o q \in Seq(A) /\ s \o u = Append(s \o q, x)
    <3>1. s \o q \in Seq(A)
      BY ConcatProperties
    <3>2. <<x>> \in Seq(A) /\ Append(q, x) = q \o <<x>> /\ Append(s \o q, x) = (s \o q) \o <<x>>
      BY <3>1, AppendIsConcat
    <3>3. Associative(s, q, <<x>>)
      BY <3>2, ConcatIsAssociative
    <3>4. QED
      BY <2>2, <3>1, <3>2, <3>3 DEF Associative
  <2>6. Visits(f, s \o u) = Visits(f, s \o q) \o f[x] /\ Visits(f, u) = Visits(f, q) \o f[x]
    <3> DEFINE r == s \o q
    <3>1. r \in Seq(A) /\ s \o u = Append(r, x)
      BY <2>5
    <3> HIDE DEF r, both
    <3>2. Visits(f, Append(r, x)) = Visits(f, r) \o f[x]
      BY <3>1, VisitsAppend
    <3>3. Visits(f, Append(q, x)) = Visits(f, q) \o f[x]
      BY VisitsAppend
    <3>4. Visits(f, s \o u) = Visits(f, r) \o f[x]
      BY <3>1, <3>2, Zenon
    <3>5. Visits(f, u) = Visits(f, q) \o f[x]
      BY <2>2, <3>3, Zenon
    <3>6. QED
      BY <3>4, <3>5, Zenon DEF r
  <2>7. Associative(Visits(f, s), Visits(f, q), f[x])
    BY <1>0, <2>4, ConcatIsAssociative
  <2>8. QED
    BY <2>4, <2>6, <2>7 DEF Associative
<1> HIDE DEF T
<1>3. T = Nat
  <2>1. T \subseteq Nat
    BY DEF T
  <2>2. QED
    BY <1>1, <1>2, <2>1, SetInduction
<1>4. Len(t) \in Nat
  OBVIOUS
<1>5. QED
  BY <1>3, <1>4 DEF T

-----------------------------------------------------------------------------
\* Sequences without repetitions.

\* Two such sequences with no element in common, one after the other.
LEMMA InjectiveConcat ==
  ASSUME NEW S, NEW s \in Seq(S), NEW t \in Seq(S)
  PROVE  /\ s \o t \in Seq(S)
         /\ ToSet(s \o t) = ToSet(s) \cup ToSet(t)
         /\ IsInjective(s) /\ IsInjective(t) /\ ToSet(s) \cap ToSet(t) = {} =>
              IsInjective(s \o t)
<1> DEFINE u == s \o t
<1>1. /\ u \in Seq(S) /\ DOMAIN u = 1 .. Len(s) + Len(t)
      /\ Len(s) \in Nat /\ Len(t) \in Nat
      /\ DOMAIN s = 1 .. Len(s) /\ DOMAIN t = 1 .. Len(t)
      /\ \A i \in 1 .. Len(s) : u[i] = s[i]
      /\ \A i \in 1 .. Len(t) : u[Len(s) + i] = t[i]
  BY ConcatProperties
<1> HIDE DEF u
<1>2. \A i \in DOMAIN u :
        \/ i \in DOMAIN s /\ u[i] = s[i]
        \/ \E j \in DOMAIN t : i = Len(s) + j /\ u[i] = t[j]
  <2> SUFFICES ASSUME NEW i \in DOMAIN u, i \notin DOMAIN s
               PROVE  \E j \in DOMAIN t : i = Len(s) + j /\ u[i] = t[j]
    BY <1>1
  <2>1. i - Len(s) \in DOMAIN t /\ i = Len(s) + (i - Len(s))
    BY <1>1
  <2>2. QED
    BY <1>1, <2>1
<1>3. ToSet(u) = ToSet(s) \cup ToSet(t)
  <2>1. ToSet(u) \subseteq ToSet(s) \cup ToSet(t)
    BY <1>2 DEF ToSet
  <2>2. \A i \in DOMAIN s : i \in DOMAIN u
    BY <1>1
  <2>3. \A i \in DOMAIN t : Len(s) + i \in DOMAIN u
    BY <1>1
  <2>4. ToSet(s) \subseteq ToSet(u) /\ ToSet(t) \subseteq ToSet(u)
    BY <1>1, <2>2, <2>3 DEF ToSet
  <2>5. QED
    BY <2>1, <2>4
<1>4. ASSUME IsInjective(s), IsInjective(t), ToSet(s) \cap ToSet(t) = {}
      PROVE  IsInjective(u)
  <2>1. \A i \in DOMAIN s, j \in DOMAIN t : s[i] # t[j]
    BY <1>4 DEF ToSet
  <2>2. /\ \A i, j \in DOMAIN s : s[i] = s[j] => i = j
        /\ \A i, j \in DOMAIN t : t[i] = t[j] => i = j
    BY <1>4 DEF IsInjective
  <2>3. \A i, j \in DOMAIN u : u[i] = u[j] => i = j
    BY <1>2, <2>1, <2>2
  <2>4. QED
    BY <2>3 DEF IsInjective
<1>5. QED
  BY <1>1, <1>3, <1>4 DEF u

\* A sequence of one element, and none.
LEMMA InjectiveShort ==
  /\ IsInjective(<<>>) /\ ToSet(<<>>) = {}
  /\ \A x : IsInjective(<<x>>) /\ ToSet(<<x>>) = {x}
BY DEF IsInjective, ToSet

\* The first element and the others.
LEMMA InjectiveTail ==
  ASSUME NEW S, NEW t \in Seq(S), t # <<>>
  PROVE  /\ Head(t) \in ToSet(t) /\ ToSet(t) = {Head(t)} \cup ToSet(Tail(t))
         /\ IsInjective(t) => IsInjective(Tail(t)) /\ Head(t) \notin ToSet(Tail(t))
<1> DEFINE u == Tail(t)
<1>1. /\ Len(t) \in Nat /\ Len(t) >= 1 /\ DOMAIN t = 1 .. Len(t) /\ Head(t) = t[1]
      /\ DOMAIN u = 1 .. Len(t) - 1 /\ \A i \in 1 .. Len(t) - 1 : u[i] = t[i + 1]
  <2>1. Len(t) # 0
    BY EmptySeq
  <2>2. /\ u \in Seq(S) /\ Len(u) = Len(t) - 1 /\ Head(t) = t[1]
        /\ \A i \in 1 .. Len(u) : u[i] = t[i + 1]
    BY HeadTailProperties
  <2> HIDE DEF u
  <2>3. QED
    BY <2>1, <2>2
<1> HIDE DEF u
<1>2. 1 \in DOMAIN t /\ \A i \in DOMAIN u : i + 1 \in DOMAIN t /\ i + 1 # 1
  BY <1>1
<1>3. \A i \in DOMAIN t : i = 1 \/ \E j \in DOMAIN u : t[i] = u[j]
  <2> SUFFICES ASSUME NEW i \in DOMAIN t, i # 1 PROVE \E j \in DOMAIN u : t[i] = u[j]
    OBVIOUS
  <2>1. i - 1 \in DOMAIN u /\ (i - 1) + 1 = i
    BY <1>1
  <2>2. QED
    BY <1>1, <2>1
<1>4. ToSet(t) = {Head(t)} \cup ToSet(u) /\ Head(t) \in ToSet(t)
  <2>1. Head(t) = t[1] /\ \A i \in DOMAIN u : u[i] = t[i + 1]
    BY <1>1
  <2>2. Head(t) \in ToSet(t)
    BY <1>2, <2>1 DEF ToSet
  <2>3. ToSet(u) \subseteq ToSet(t)
    BY <1>2, <2>1 DEF ToSet
  <2>4. ToSet(t) \subseteq {Head(t)} \cup ToSet(u)
    BY <1>3, <2>1 DEF ToSet
  <2>5. QED
    BY <2>2, <2>3, <2>4
<1>5. ASSUME IsInjective(t) PROVE IsInjective(u) /\ Head(t) \notin ToSet(u)
  <2>1. \A i, j \in DOMAIN t : t[i] = t[j] => i = j
    BY <1>5 DEF IsInjective
  <2>2. \A i \in DOMAIN u : u[i] # t[1]
    BY <1>1, <1>2, <2>1
  <2>3. \A i, j \in DOMAIN u : u[i] = u[j] => i = j
    BY <1>1, <1>2, <2>1
  <2>4. QED
    BY <1>1, <2>2, <2>3 DEF IsInjective, ToSet
<1>6. QED
  BY <1>4, <1>5 DEF u
=============================================================================
