---------------------------- MODULE QueueCounts -----------------------------
(***************************************************************************)
(* How many entries of a queue are of one kind, and how that number        *)
(* changes when the queue is appended to and taken from.  The proofs about *)
(* the executors need it: their counters stand for tasks in a queue.  And  *)
(* how large a set is: the counters of objects that several parts hold     *)
(* stand for sets of holders.                                              *)
(***************************************************************************)
EXTENDS Integers, Sequences, FiniteSets, FiniteSetTheorems, SequenceTheorems, TLAPS

\* Among the first n entries of q, those in T.
Num(q, n, T) == Cardinality({i \in 1 .. n : q[i] \in T})

One(condition) == IF condition THEN 1 ELSE 0

-----------------------------------------------------------------------------
\* What appending to a queue and taking from it make of its entries.
LEMMA Appended ==
  ASSUME NEW S, NEW q \in Seq(S), NEW x \in S
  PROVE  /\ Len(q) \in Nat /\ DOMAIN q = 1 .. Len(q) /\ \A i \in 1 .. Len(q) : q[i] \in S
         /\ Append(q, x) \in Seq(S)
         /\ Len(Append(q, x)) = Len(q) + 1 /\ DOMAIN Append(q, x) = 1 .. Len(q) + 1
         /\ \A i \in 1 .. Len(q) : Append(q, x)[i] = q[i]
         /\ Append(q, x)[Len(q) + 1] = x
  BY LenProperties, AppendProperties, ElementOfSeq

LEMMA Taken ==
  ASSUME NEW S, NEW q \in Seq(S), q # <<>>
  PROVE  /\ Len(q) \in Nat \ {0} /\ DOMAIN q = 1 .. Len(q) /\ \A i \in 1 .. Len(q) : q[i] \in S
         /\ Head(q) = q[1] /\ Head(q) \in S
         /\ Tail(q) \in Seq(S)
         /\ Len(Tail(q)) = Len(q) - 1 /\ DOMAIN Tail(q) = 1 .. Len(q) - 1
         /\ \A i \in 1 .. Len(q) - 1 : Tail(q)[i] = q[i + 1]
  BY LenProperties, HeadTailProperties, ElementOfSeq, EmptySeq

-----------------------------------------------------------------------------
\* The number is a natural number, n at most, and zero of no entries.
LEMMA NumType ==
  ASSUME NEW q, NEW n \in Nat, NEW T
  PROVE  /\ Num(q, n, T) \in Nat
         /\ IsFiniteSet({i \in 1 .. n : q[i] \in T})
         /\ n = 0 => Num(q, n, T) = 0
<1> DEFINE I == {i \in 1 .. n : q[i] \in T}
<1>1. IsFiniteSet(1 .. n)
  BY FS_Interval
<1>2. IsFiniteSet(I)
  BY <1>1, FS_Subset
<1>3. Cardinality(I) \in Nat
  BY <1>2, FS_CardinalityType
<1>4. ASSUME n = 0 PROVE Cardinality(I) = 0
  <2>1. I = {}
    BY <1>4
  <2> QED BY <2>1, FS_EmptySet
<1> QED BY <1>2, <1>3, <1>4 DEF Num

\* One entry more counts or does not.
LEMMA NumNext ==
  ASSUME NEW q, NEW n \in Nat, NEW T
  PROVE  Num(q, n + 1, T) = Num(q, n, T) + One(q[n + 1] \in T)
<1> DEFINE I == {i \in 1 .. n : q[i] \in T}
           J == {i \in 1 .. n + 1 : q[i] \in T}
<1>1. IsFiniteSet(I)
  BY NumType
<1>2. CASE q[n + 1] \in T
  <2>1. J = I \cup {n + 1} /\ n + 1 \notin I
    BY <1>2
  <2>2. Cardinality(J) = Cardinality(I) + 1
    BY <1>1, <2>1, FS_AddElement
  <2> QED BY <1>2, <2>2 DEF Num, One
<1>3. CASE q[n + 1] \notin T
  <2>1. J = I
    BY <1>3
  <2> QED BY <1>3, <2>1, NumType DEF Num, One
<1> QED BY <1>2, <1>3

\* No entry counts if none is in T, and some do if one is.
LEMMA NumZero ==
  ASSUME NEW q, NEW n \in Nat, NEW T
  PROVE  Num(q, n, T) = 0 <=> \A i \in 1 .. n : q[i] \notin T
<1> DEFINE I == {i \in 1 .. n : q[i] \in T}
<1>1. IsFiniteSet(I)
  BY NumType
<1>2. Cardinality(I) = 0 <=> I = {}
  BY <1>1, FS_EmptySet
<1> QED BY <1>2 DEF Num

\* Appending to a queue leaves the numbers of its prefixes.
LEMMA NumAppend ==
  ASSUME NEW S, NEW q \in Seq(S), NEW x \in S, NEW T
  PROVE  /\ \A n \in 0 .. Len(q) : Num(Append(q, x), n, T) = Num(q, n, T)
         /\ Num(Append(q, x), Len(q) + 1, T) = Num(q, Len(q), T) + One(x \in T)
<1> DEFINE a == Append(q, x)
<1>1. /\ Len(q) \in Nat
      /\ \A i \in 1 .. Len(q) : a[i] = q[i]
      /\ a[Len(q) + 1] = x
  BY LenProperties, AppendProperties
<1> HIDE DEF a
<1>2. ASSUME NEW n \in 0 .. Len(q) PROVE Num(a, n, T) = Num(q, n, T)
  <2>1. {i \in 1 .. n : a[i] \in T} = {i \in 1 .. n : q[i] \in T}
    BY <1>1
  <2> QED BY <2>1 DEF Num
<1>3. Num(a, Len(q) + 1, T) = Num(a, Len(q), T) + One(x \in T)
  BY <1>1, NumNext
<1> QED BY <1>1, <1>2, <1>3 DEF a

\* Taking the head of a queue shifts the prefixes.
LEMMA NumTail ==
  ASSUME NEW S, NEW q \in Seq(S), q # <<>>, NEW T
  PROVE  \A n \in 0 .. Len(q) - 1 : Num(q, n + 1, T) = Num(Tail(q), n, T) + One(Head(q) \in T)
<1> DEFINE t == Tail(q)
<1>1. /\ Len(q) \in Nat \ {0}
      /\ \A i \in 1 .. Len(q) - 1 : t[i] = q[i + 1]
      /\ Head(q) = q[1]
  BY LenProperties, HeadTailProperties, EmptySeq
<1> HIDE DEF t
<1> SUFFICES ASSUME NEW n \in 0 .. Len(q) - 1
             PROVE  Num(q, n + 1, T) = Num(t, n, T) + One(Head(q) \in T)
  BY DEF t
<1> DEFINE I == {i \in 1 .. n : t[i] \in T}
           J == {i \in 2 .. n + 1 : q[i] \in T}
           K == {i \in 1 .. n + 1 : q[i] \in T}
           f == [i \in I |-> i + 1]
<1>2. n \in Nat /\ n + 1 \in Nat
  BY <1>1
<1>3. IsFiniteSet(I)
  BY <1>2, NumType
<1>4. f \in Bijection(I, J)
  <2>1. f \in [I -> J]
    BY <1>1, <1>2
  <2>2. \A a, b \in I : f[a] = f[b] => a = b
    OBVIOUS
  <2>3. ASSUME NEW j \in J PROVE \E i \in I : f[i] = j
    <3>1. j - 1 \in I
      BY <1>1, <1>2
    <3>2. f[j - 1] = j
      BY <3>1
    <3> QED BY <3>1, <3>2
  <2> QED BY <2>1, <2>2, <2>3 DEF Bijection, Injection, Surjection, IsInjective
<1>5. IsFiniteSet(J) /\ Cardinality(J) = Cardinality(I)
  <2>1. ExistsBijection(I, J)
    BY <1>4 DEF ExistsBijection
  <2> QED BY <1>3, <2>1, FS_Bijection
<1>6. CASE Head(q) \in T
  <2>1. K = J \cup {1} /\ 1 \notin J
    BY <1>1, <1>2, <1>6
  <2>2. Cardinality(K) = Cardinality(J) + 1
    BY <1>5, <2>1, FS_AddElement
  <2> QED BY <1>5, <1>6, <2>2 DEF Num, One
<1>7. CASE Head(q) \notin T
  <2>1. K = J
    BY <1>1, <1>2, <1>7
  <2>2. Cardinality(I) \in Nat /\ Cardinality(K) = Cardinality(I)
    BY <1>3, <1>5, <2>1, FS_CardinalityType
  <2> QED BY <1>7, <2>2 DEF Num, One
<1> QED BY <1>6, <1>7

-----------------------------------------------------------------------------
(* Sets and their sizes.                                                   *)

\* How the size of a set changes with one of its elements.
LEMMA CountOf ==
  ASSUME NEW S, IsFiniteSet(S), NEW A \in SUBSET S, NEW x \in S
  PROVE  /\ Cardinality(A) \in Nat
         /\ x \in A => A \cup {x} = A /\ Cardinality(A \ {x}) = Cardinality(A) - 1
         /\ x \notin A => A \ {x} = A /\ Cardinality(A \cup {x}) = Cardinality(A) + 1
         /\ x \in A => Cardinality(A) >= 1
         /\ Cardinality(A) = 0 => A = {}
         /\ Cardinality(A) = 1 /\ x \in A => A = {x}
<1>1. IsFiniteSet(A) /\ Cardinality(A) \in Nat
  BY FS_Subset, FS_CardinalityType
<1>2. ASSUME x \notin A PROVE A \ {x} = A /\ Cardinality(A \cup {x}) = Cardinality(A) + 1
  <2>1. Cardinality(A \cup {x}) = IF x \in A THEN Cardinality(A) ELSE Cardinality(A) + 1
    BY <1>1, FS_AddElement
  <2> QED BY <1>2, <2>1
<1>3. ASSUME x \in A PROVE A \cup {x} = A /\ Cardinality(A \ {x}) = Cardinality(A) - 1
  <2>1. Cardinality(A \ {x}) = IF x \in A THEN Cardinality(A) - 1 ELSE Cardinality(A)
    BY <1>1, FS_RemoveElement
  <2> QED BY <1>3, <2>1
<1>4. Cardinality(A) = 0 => A = {}
  BY <1>1, FS_EmptySet
<1>5. ASSUME Cardinality(A) = 1, x \in A PROVE A = {x}
  <2>1. Cardinality({x}) = 1 /\ {x} \in SUBSET A
    BY <1>5, FS_Singleton
  <2> QED BY <1>1, <1>5, <2>1, FS_Subset
<1>6. x \in A => Cardinality(A) >= 1
  BY <1>1, <1>4
<1> QED BY <1>1, <1>2, <1>3, <1>4, <1>5, <1>6

LEMMA OneOf ==
  ASSUME NEW S, IsFiniteSet(S), NEW A \in SUBSET S
  PROVE  \A x \in A : Cardinality(A) >= 1 /\ (Cardinality(A) = 1 => A = {x})
BY CountOf

\* An element taken out, be it in the set or not.
LEMMA Without ==
  ASSUME NEW S, IsFiniteSet(S), NEW A \in SUBSET S, NEW x \in S
  PROVE  Cardinality(A) \in Nat /\ Cardinality(A \ {x}) = Cardinality(A) - One(x \in A)
<1>1. CASE x \in A
  <2>1. One(x \in A) = 1
    BY <1>1 DEF One
  <2>2. Cardinality(A) \in Nat /\ Cardinality(A \ {x}) = Cardinality(A) - 1
    BY <1>1, CountOf
  <2> QED BY <2>1, <2>2
<1>2. CASE x \notin A
  <2>1. A \ {x} = A /\ Cardinality(A) \in Nat
    BY <1>2, CountOf
  <2>2. One(x \in A) = 0
    BY <1>2 DEF One
  <2> QED BY <2>1, <2>2
<1> QED BY <1>1, <1>2
=============================================================================
