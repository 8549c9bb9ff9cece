---------------------------- MODULE Lists_proofs ----------------------------
(***************************************************************************)
(* Facts about sequences that several proofs rest on: for Event and        *)
(* Presence, lists that lose, gain or skip an element; for the messages,   *)
(* what the folds FlattenSeq and FoldLeft are for sequences of any length. *)
(***************************************************************************)
EXTENDS Lists, SequenceTheorems, WellFoundedInduction, TLAPS

\* What erasing one position of a list leaves.
LEMMA RemoveAtProperties ==
    ASSUME NEW S, NEW q \in Seq(S), NEW i \in 1 .. Len(q)
    PROVE  /\ RemoveAt(q, i) \in Seq(S)
           /\ Len(RemoveAt(q, i)) = Len(q) - 1
           /\ \A k \in 1 .. Len(q) - 1 :
                RemoveAt(q, i)[k] = IF k < i THEN q[k] ELSE q[k + 1]
<1> DEFINE a == SubSeq(q, 1, i - 1)
           b == SubSeq(q, i + 1, Len(q))
<1>1. Len(q) \in Nat /\ i \in Nat /\ i - 1 \in Nat /\ \A k \in 1 .. Len(q) : q[k] \in S
  BY LenProperties, ElementOfSeq
<1>2. /\ a \in Seq(S) /\ Len(a) = i - 1
      /\ \A k \in 1 .. i - 1 : a[k] = q[k]
  BY <1>1, SubSeqProperties
<1>3. /\ b \in Seq(S) /\ Len(b) = Len(q) - i
      /\ \A k \in 1 .. Len(q) - i : b[k] = q[k + i]
  BY <1>1, SubSeqProperties
<1> HIDE DEF a, b
<1>4. /\ a \o b \in Seq(S) /\ Len(a \o b) = Len(a) + Len(b)
      /\ \A k \in 1 .. Len(a) + Len(b) :
           (a \o b)[k] = IF k <= Len(a) THEN a[k] ELSE b[k - Len(a)]
  BY <1>2, <1>3, ConcatProperties
<1>5. Len(a) + Len(b) = Len(q) - 1 /\ Len(a) = i - 1 /\ Len(b) = Len(q) - i
  BY <1>1, <1>2, <1>3
<1>6. ASSUME NEW k \in 1 .. Len(q) - 1
      PROVE  (a \o b)[k] = IF k < i THEN q[k] ELSE q[k + 1]
  <2>1. (a \o b)[k] = IF k <= i - 1 THEN a[k] ELSE b[k - (i - 1)]
    BY <1>4, <1>5
  <2>2. CASE k < i
    <3>1. k \in 1 .. i - 1 /\ k <= i - 1
      BY <1>1, <2>2
    <3> QED BY <1>2, <2>1, <2>2, <3>1
  <2>3. CASE ~(k < i)
    <3>1. /\ k - (i - 1) \in 1 .. Len(q) - i /\ (k - (i - 1)) + i = k + 1
          /\ ~(k <= i - 1)
      BY <1>1, <2>3
    <3>2. b[k - (i - 1)] = q[(k - (i - 1)) + i]
      BY <1>3, <3>1
    <3> QED BY <2>1, <2>3, <3>1, <3>2
  <2> QED BY <2>2, <2>3
<1>7. RemoveAt(q, i) = a \o b
  BY DEF a, b, RemoveAt
<1> QED BY <1>4, <1>5, <1>6, <1>7

LEMMA PrefixProperties ==
    ASSUME NEW S, NEW q \in Seq(S), NEW n \in Nat, n <= Len(q)
    PROVE  /\ SubSeq(q, 1, n) \in Seq(S) /\ Len(SubSeq(q, 1, n)) = n
           /\ \A i \in 1 .. n : i \in 1 .. Len(q) /\ SubSeq(q, 1, n)[i] = q[i]
<1>1. \A i \in 1 .. n : i \in 1 .. Len(q) /\ q[i] \in S
  BY LenProperties, ElementOfSeq
<1>2. /\ SubSeq(q, 1, n) \in Seq(S)
      /\ Len(SubSeq(q, 1, n)) = IF 1 <= n THEN n - 1 + 1 ELSE 0
      /\ \A i \in 1 .. n - 1 + 1 : SubSeq(q, 1, n)[i] = q[1 + i - 1]
  BY <1>1, SubSeqProperties
<1>3. \A i \in 1 .. n : 1 + i - 1 = i /\ i \in 1 .. n - 1 + 1
  OBVIOUS
<1> QED BY <1>1, <1>2, <1>3

-----------------------------------------------------------------------------
\* Elements and order of the lists.

LEMMA ElementsAppend ==
    ASSUME NEW q \in Seq(Nat), NEW n \in Nat
    PROVE  /\ Append(q, n) \in Seq(Nat)
           /\ Elements(Append(q, n)) = Elements(q) \cup {n}
           /\ StrictlyIncreasing(q) /\ (\A m \in Elements(q) : m < n)
                => StrictlyIncreasing(Append(q, n))
<1>1. /\ Append(q, n) \in Seq(Nat) /\ Len(Append(q, n)) = Len(q) + 1
      /\ \A i \in 1 .. Len(q) : Append(q, n)[i] = q[i]
      /\ Append(q, n)[Len(q) + 1] = n /\ Len(q) \in Nat
  BY AppendProperties, LenProperties
<1>2. Elements(Append(q, n)) = Elements(q) \cup {n}
  BY <1>1 DEF Elements
<1>3. ASSUME StrictlyIncreasing(q), \A m \in Elements(q) : m < n
      PROVE  StrictlyIncreasing(Append(q, n))
  <2>1. \A i \in 1 .. Len(q) : q[i] < n
    BY <1>3 DEF Elements
  <2>2. ASSUME NEW i \in 1 .. Len(q) + 1, NEW j \in 1 .. Len(q) + 1, i < j
        PROVE  Append(q, n)[i] < Append(q, n)[j]
    <3>1. CASE j = Len(q) + 1
      BY <1>1, <2>1, <2>2, <3>1
    <3>2. CASE j \in 1 .. Len(q)
      BY <1>1, <1>3, <2>2, <3>2 DEF StrictlyIncreasing
    <3> QED BY <1>1, <3>1, <3>2
  <2> QED BY <1>1, <2>2 DEF StrictlyIncreasing
<1> QED BY <1>1, <1>2, <1>3

LEMMA ElementsRemoveAt ==
    ASSUME NEW q \in Seq(Nat), StrictlyIncreasing(q), NEW i \in 1 .. Len(q)
    PROVE  /\ RemoveAt(q, i) \in Seq(Nat)
           /\ Elements(RemoveAt(q, i)) = Elements(q) \ {q[i]}
           /\ StrictlyIncreasing(RemoveAt(q, i))
<1> DEFINE r == RemoveAt(q, i)
<1>1. /\ r \in Seq(Nat) /\ Len(r) = Len(q) - 1 /\ Len(q) \in Nat
      /\ \A k \in 1 .. Len(q) - 1 : r[k] = IF k < i THEN q[k] ELSE q[k + 1]
  BY RemoveAtProperties, LenProperties
<1> HIDE DEF r
<1>2. \A j \in 1 .. Len(q) : q[j] \in Nat
  BY ElementOfSeq
<1>3. \A j \in 1 .. Len(q) : j # i => q[j] # q[i]
  BY <1>2 DEF StrictlyIncreasing
<1>4. Elements(r) \subseteq Elements(q) \ {q[i]}
  <2> SUFFICES ASSUME NEW k \in 1 .. Len(q) - 1
               PROVE  r[k] \in Elements(q) \ {q[i]}
    BY <1>1 DEF Elements
  <2>1. CASE k < i
    <3>1. k \in 1 .. Len(q) /\ k # i /\ r[k] = q[k]
      BY <1>1, <2>1
    <3> QED BY <1>3, <3>1 DEF Elements
  <2>2. CASE ~(k < i)
    <3>1. k + 1 \in 1 .. Len(q) /\ k + 1 # i /\ r[k] = q[k + 1]
      BY <1>1, <2>2
    <3> QED BY <1>3, <3>1 DEF Elements
  <2> QED BY <2>1, <2>2
<1>5. Elements(q) \ {q[i]} \subseteq Elements(r)
  <2> SUFFICES ASSUME NEW j \in 1 .. Len(q), j # i PROVE q[j] \in Elements(r)
    BY DEF Elements
  <2>1. CASE j < i
    <3>0. j \in 1 .. Len(q) - 1
      BY <1>1, <2>1
    <3>1. j \in 1 .. Len(q) - 1 /\ r[j] = q[j]
      BY <1>1, <2>1, <3>0
    <3> QED BY <1>1, <3>1 DEF Elements
  <2>2. CASE ~(j < i)
    <3>1. j - 1 \in 1 .. Len(q) - 1 /\ ~(j - 1 < i) /\ (j - 1) + 1 = j
      BY <1>1, <2>2
    <3>2. r[j - 1] = q[j]
      BY <1>1, <3>1
    <3> QED BY <1>1, <3>1, <3>2 DEF Elements
  <2> QED BY <2>1, <2>2
<1>6. StrictlyIncreasing(r)
  <2> SUFFICES ASSUME NEW k \in 1 .. Len(q) - 1, NEW l \in 1 .. Len(q) - 1, k < l
               PROVE  r[k] < r[l]
    BY <1>1 DEF StrictlyIncreasing
  <2>1. \E a, b \in 1 .. Len(q) : a < b /\ r[k] = q[a] /\ r[l] = q[b]
    <3>1. CASE l < i
      <4>1. k \in 1 .. Len(q) /\ l \in 1 .. Len(q) /\ r[k] = q[k] /\ r[l] = q[l]
        BY <1>1, <3>1
      <4> QED BY <4>1
    <3>2. CASE ~(l < i) /\ k < i
      <4>1. /\ k \in 1 .. Len(q) /\ l + 1 \in 1 .. Len(q) /\ k < l + 1
            /\ r[k] = q[k] /\ r[l] = q[l + 1]
        BY <1>1, <3>2
      <4> QED BY <4>1
    <3>3. CASE ~(k < i)
      <4>0. Len(q) \in Nat
        BY LenProperties
      <4>1. k + 1 \in 1 .. Len(q) /\ l + 1 \in 1 .. Len(q) /\ k + 1 < l + 1
        BY <4>0
      <4>2. r[k] = q[k + 1]
        BY <1>1, <3>3
      <4>3. ~(l < i)
        BY <1>1, <3>3
      <4>4. r[l] = q[l + 1]
        BY <1>1, <4>3
      <4> QED BY <4>1, <4>2, <4>4
    <3> QED BY <3>1, <3>2, <3>3
  <2> QED BY <2>1 DEF StrictlyIncreasing
<1> QED BY <1>1, <1>4, <1>5, <1>6 DEF r

LEMMA EmptyList ==
    /\ <<>> \in Seq(Nat)
    /\ Elements(<<>>) = {}
    /\ StrictlyIncreasing(<<>>)
<1>1. <<>> \in Seq(Nat) /\ Len(<<>>) = 0
  BY EmptySeq
<1> QED BY <1>1 DEF Elements, StrictlyIncreasing

LEMMA TailElements ==
    ASSUME NEW q \in Seq(Nat), q # <<>>, StrictlyIncreasing(q)
    PROVE  /\ Head(q) \in Nat /\ Tail(q) \in Seq(Nat)
           /\ Elements(q) = Elements(Tail(q)) \cup {Head(q)}
           /\ StrictlyIncreasing(Tail(q))
           /\ \A m \in Elements(Tail(q)) : Head(q) < m
<1>1. /\ Head(q) \in Nat /\ Tail(q) \in Seq(Nat) /\ Head(q) = q[1]
      /\ Len(q) \in Nat \ {0} /\ Len(Tail(q)) = Len(q) - 1
      /\ \A i \in 1 .. Len(Tail(q)) : Tail(q)[i] = q[i + 1]
  BY HeadTailProperties, LenProperties, EmptySeq
<1>2. ASSUME NEW i \in 1 .. Len(q) PROVE i = 1 \/ (i - 1 \in 1 .. Len(Tail(q)) /\ (i - 1) + 1 = i)
  BY <1>1
<1>3. \A i \in 1 .. Len(Tail(q)) : i + 1 \in 1 .. Len(q) /\ 1 < i + 1
  BY <1>1
<1>4. Elements(q) = Elements(Tail(q)) \cup {Head(q)}
  <2>1. ASSUME NEW i \in 1 .. Len(q) PROVE q[i] \in Elements(Tail(q)) \cup {Head(q)}
    <3>1. CASE i = 1
      BY <1>1, <3>1
    <3>2. CASE i # 1
      <4>1. i - 1 \in 1 .. Len(Tail(q)) /\ (i - 1) + 1 = i
        BY <1>2, <3>2
      <4>2. Tail(q)[i - 1] = q[i]
        BY <1>1, <4>1
      <4> QED BY <4>1, <4>2 DEF Elements
    <3> QED BY <3>1, <3>2
  <2>2. 1 \in 1 .. Len(q)
    BY <1>1
  <2>3. Elements(Tail(q)) \cup {Head(q)} \subseteq Elements(q)
    BY <1>1, <1>3, <2>2 DEF Elements
  <2> QED BY <2>1, <2>3 DEF Elements
<1>5. \A m \in Elements(Tail(q)) : Head(q) < m
  <2>1. 1 \in 1 .. Len(q)
    BY <1>1
  <2> QED BY <1>1, <1>3, <2>1 DEF Elements, StrictlyIncreasing
<1>6. StrictlyIncreasing(Tail(q))
  <2>1. \A i, j \in 1 .. Len(Tail(q)) : i < j => i + 1 < j + 1
    BY <1>1
  <2> QED BY <1>1, <1>3, <2>1 DEF StrictlyIncreasing
<1> QED BY <1>1, <1>4, <1>5, <1>6

LEMMA TailOrderly ==
    ASSUME NEW q \in Seq(Nat), q # <<>>, StrictlyIncreasing(q), NEW n \in Nat,
           \A i \in 1 .. Len(q) : q[i] < n
    PROVE  /\ StrictlyIncreasing(Tail(q))
           /\ \A i \in 1 .. Len(Tail(q)) : Tail(q)[i] < n
<1>1. /\ Len(q) \in Nat /\ Len(Tail(q)) = Len(q) - 1
      /\ \A i \in 1 .. Len(Tail(q)) : Tail(q)[i] = q[i + 1]
  BY HeadTailProperties, LenProperties
<1>2. \A i \in 1 .. Len(Tail(q)) : i + 1 \in 1 .. Len(q)
  BY <1>1
<1>3. \A i, j \in 1 .. Len(Tail(q)) : i < j => i + 1 < j + 1
  BY <1>1
<1> QED BY <1>1, <1>2, <1>3 DEF StrictlyIncreasing

-----------------------------------------------------------------------------
(***************************************************************************)
(* Induction over the natural numbers.  The set of the numbers that have a *)
(* property stands for the property.                                       *)
(***************************************************************************)
NatLess == {p \in Nat \X Nat : p[1] < p[2]}

LEMMA NatLessIsWellFounded == IsWellFoundedOn(NatLess, Nat)
<1>1. NatLess = OpToRel(<, Nat)
  BY DEF NatLess, OpToRel
<1> QED BY <1>1, NatLessThanWellFounded

\* A set that has 0, and each number's successor with it, has all numbers.
LEMMA SetInduction ==
    ASSUME NEW S, 0 \in S, \A n \in Nat : n \in S => n + 1 \in S
    PROVE  Nat \subseteq S
<1> SUFFICES ASSUME Nat \ S # {} PROVE FALSE
  OBVIOUS
<1>1. PICK n \in Nat \ S : \A m \in Nat \ S : <<m, n>> \notin NatLess
  BY NatLessIsWellFounded, WFMin
<1>2. n # 0 /\ n - 1 \in Nat
  BY <1>1
<1>3. <<n - 1, n>> \in NatLess
  BY <1>1, <1>2 DEF NatLess
<1>4. n - 1 \in S
  BY <1>1, <1>2, <1>3
<1> QED BY <1>1, <1>2, <1>4

-----------------------------------------------------------------------------
(***************************************************************************)
(* FlattenSeq, without its recursive function.                             *)
(***************************************************************************)
IsFlatten(f, list, n) ==
    f = [i \in 1 .. n |-> IF i = 1 THEN list[i] ELSE f[i - 1] \o list[i]]

LEMMA FlattenExists ==
    ASSUME NEW list, NEW n \in Nat
    PROVE  \E f : IsFlatten(f, list, n)
<1> DEFINE T == {k \in Nat : \E f : IsFlatten(f, list, k)}
<1>1. 0 \in T
  <2>1. IsFlatten([i \in 1 .. 0 |-> 0], list, 0)
    BY DEF IsFlatten
  <2> QED BY <2>1
<1>2. ASSUME NEW k \in Nat, k \in T PROVE k + 1 \in T
  <2>1. PICK f : IsFlatten(f, list, k)
    BY <1>2
  <2> DEFINE g == [i \in 1 .. k + 1 |-> IF i = 1 THEN list[i] ELSE f[i - 1] \o list[i]]
  <2>2. \A i \in 1 .. k : f[i] = g[i]
    <3> DEFINE e(i) == IF i = 1 THEN list[i] ELSE f[i - 1] \o list[i]
    <3>1. f = [i \in 1 .. k |-> e(i)]
      BY <2>1 DEF IsFlatten
    <3>2. \A i \in 1 .. k + 1 : g[i] = e(i)
      OBVIOUS
    <3> HIDE DEF e, g
    <3>3. \A i \in 1 .. k : f[i] = e(i)
      BY <3>1
    <3> QED BY <3>2, <3>3
  <2>3. \A i \in 1 .. k + 1 : i # 1 => i - 1 \in 1 .. k
    OBVIOUS
  <2>4. g = [i \in 1 .. k + 1 |-> IF i = 1 THEN list[i] ELSE g[i - 1] \o list[i]]
    BY <2>2, <2>3
  <2> HIDE DEF g
  <2>5. IsFlatten(g, list, k + 1)
    BY <2>4 DEF IsFlatten
  <2> QED BY <2>5
<1> HIDE DEF T
<1>3. Nat \subseteq T
  BY <1>1, <1>2, SetInduction
<1> QED BY <1>3 DEF T

LEMMA ConcatParts ==
    ASSUME NEW S, NEW a \in Seq(S), NEW b \in Seq(S)
    PROVE  /\ a \o b \in Seq(S) /\ Len(a \o b) = Len(a) + Len(b)
           /\ \A p \in 1 .. Len(a) : (a \o b)[p] = a[p]
           /\ \A k \in 1 .. Len(b) : (a \o b)[Len(a) + k] = b[k]
<1>1. Len(a) \in Nat /\ Len(b) \in Nat
  BY LenProperties
<1>2. /\ a \o b \in Seq(S) /\ Len(a \o b) = Len(a) + Len(b)
      /\ \A i \in 1 .. Len(a) + Len(b) :
           (a \o b)[i] = IF i <= Len(a) THEN a[i] ELSE b[i - Len(a)]
  BY ConcatProperties
<1>3. \A k \in 1 .. Len(b) : Len(a) + k \in 1 .. Len(a) + Len(b) /\ ~(Len(a) + k <= Len(a))
                              /\ (Len(a) + k) - Len(a) = k
  BY <1>1
<1>4. \A p \in 1 .. Len(a) : p \in 1 .. Len(a) + Len(b) /\ p <= Len(a)
  BY <1>1
<1> QED BY <1>2, <1>3, <1>4

LEMMA FlattenSteps ==
    ASSUME NEW f, NEW list, NEW n \in Nat, IsFlatten(f, list, n)
    PROVE  \A i \in 1 .. n : f[i] = IF i = 1 THEN list[i] ELSE f[i - 1] \o list[i]
<1> DEFINE e(i) == IF i = 1 THEN list[i] ELSE f[i - 1] \o list[i]
<1>1. f = [i \in 1 .. n |-> e(i)]
  BY DEF IsFlatten
<1> HIDE DEF e
<1>2. \A i \in 1 .. n : f[i] = e(i)
  BY <1>1
<1> QED BY <1>2 DEF e

LEMMA FlattenIs ==
    ASSUME NEW list, Len(list) \in Nat, Len(list) # 0
    PROVE  \E f : IsFlatten(f, list, Len(list)) /\ FlattenSeq(list) = f[Len(list)]
<1> DEFINE P(f) == f = [i \in 1 .. Len(list) |-> IF i = 1 THEN list[i] ELSE f[i - 1] \o list[i]]
           g == CHOOSE f : P(f)
<1>1. FlattenSeq(list) = g[Len(list)]
  BY DEF FlattenSeq
<1>2. \E f : P(f)
  BY FlattenExists DEF IsFlatten
<1> HIDE DEF P
<1>3. P(g)
  BY <1>2
<1> HIDE DEF g
<1> QED BY <1>1, <1>3 DEF P, IsFlatten

\* edge[i] is where the first i sequences of list end in the whole.
IsEdges(edge, list) ==
    /\ edge \in [0 .. Len(list) -> Nat]
    /\ edge[0] = 0
    /\ \A i \in 1 .. Len(list) : edge[i] = edge[i - 1] + Len(list[i])

LEMMA FlattenProperties ==
    ASSUME NEW S, NEW list \in Seq(Seq(S))
    PROVE  /\ FlattenSeq(list) \in Seq(S)
           /\ \E edge : /\ IsEdges(edge, list)
                        /\ Len(FlattenSeq(list)) = edge[Len(list)]
                        /\ \A i \in 1 .. Len(list) : \A k \in 1 .. Len(list[i]) :
                                FlattenSeq(list)[edge[i - 1] + k] = list[i][k]
<1> DEFINE n == Len(list)
<1>1. n \in Nat /\ \A i \in 1 .. n : list[i] \in Seq(S) /\ Len(list[i]) \in Nat
  BY LenProperties, ElementOfSeq
<1>2. CASE n = 0
  <2> DEFINE edge == [i \in 0 .. 0 |-> 0]
  <2>1. FlattenSeq(list) = list /\ list = <<>>
    BY <1>2, EmptySeq DEF FlattenSeq
  <2>2. IsEdges(edge, list) /\ edge[n] = 0
    BY <1>2 DEF IsEdges
  <2>3. FlattenSeq(list) \in Seq(S) /\ Len(FlattenSeq(list)) = 0
    BY <2>1, EmptySeq
  <2> HIDE DEF edge
  <2> QED BY <1>2, <2>2, <2>3
<1>3. CASE n # 0
  <2>1. PICK f : IsFlatten(f, list, n) /\ FlattenSeq(list) = f[n]
    BY <1>1, <1>3, FlattenIs
  <2>2. \A i \in 1 .. n : f[i] = IF i = 1 THEN list[i] ELSE f[i - 1] \o list[i]
    BY <1>1, <2>1, FlattenSteps
  <2> HIDE DEF n
  <2>3. \A i \in 1 .. n : f[i] \in Seq(S)
    <3> DEFINE T == {k \in Nat : k \in 1 .. n => f[k] \in Seq(S)}
    <3>1. 0 \in T
      OBVIOUS
    <3>2. ASSUME NEW k \in Nat, k \in T PROVE k + 1 \in T
      <4> SUFFICES ASSUME k + 1 \in 1 .. n PROVE f[k + 1] \in Seq(S)
        OBVIOUS
      <4>1. CASE k = 0
        BY <1>1, <2>2, <4>1
      <4>2. CASE k # 0
        <5>1. k \in 1 .. n /\ k + 1 # 1 /\ (k + 1) - 1 = k
          BY <1>1, <4>2
        <5>2. f[k] \in Seq(S) /\ f[k + 1] = f[k] \o list[k + 1] /\ list[k + 1] \in Seq(S)
          BY <1>1, <2>2, <3>2, <5>1
        <5> QED BY <5>2, ConcatProperties
      <4> QED BY <4>1, <4>2
    <3> HIDE DEF T
    <3>3. Nat \subseteq T
      BY <3>1, <3>2, SetInduction
    <3> QED BY <1>1, <3>3 DEF T
  <2> DEFINE edge == [i \in 0 .. n |-> IF i = 0 THEN 0 ELSE Len(f[i])]
  <2>4. \A i \in 1 .. n : Len(f[i]) \in Nat
    BY <2>3, LenProperties
  <2>5. \A i \in 0 .. n : edge[i] \in Nat /\ edge[0] = 0 /\ (i # 0 => edge[i] = Len(f[i]))
    BY <1>1, <2>4
  <2>6. edge \in [0 .. n -> Nat]
    BY <2>5
  <2> HIDE DEF edge
  <2>7. ASSUME NEW i \in 1 .. n
        PROVE  /\ edge[i] = edge[i - 1] + Len(list[i])
               /\ \A p \in 1 .. edge[i - 1] : i > 1 /\ f[i][p] = f[i - 1][p]
               /\ \A k \in 1 .. Len(list[i]) : f[i][edge[i - 1] + k] = list[i][k]
    <3>1. i - 1 \in 0 .. n /\ i \in 0 .. n /\ i # 0 /\ list[i] \in Seq(S) /\ Len(list[i]) \in Nat
      BY <1>1
    <3>2. CASE i = 1
      <4>1. f[1] = list[1]
        BY <2>2, <3>2
      <4>2. edge[0] = 0 /\ edge[1] = Len(f[1])
        BY <2>5, <3>1, <3>2
      <4> QED BY <3>1, <3>2, <4>1, <4>2
    <3>3. CASE i # 1
      <4>1. i - 1 \in 1 .. n /\ i - 1 # 0 /\ i > 1
        BY <1>1, <3>3
      <4>2. f[i] = f[i - 1] \o list[i] /\ f[i - 1] \in Seq(S)
        BY <2>2, <2>3, <3>3, <4>1
      <4> DEFINE a == f[i - 1]
                 b == list[i]
      <4>3. /\ Len(f[i]) = Len(a) + Len(b)
            /\ \A p \in 1 .. Len(a) : f[i][p] = a[p]
            /\ \A k \in 1 .. Len(b) : f[i][Len(a) + k] = b[k]
        <5>1. a \in Seq(S) /\ b \in Seq(S) /\ f[i] = a \o b
          BY <3>1, <4>2
        <5> HIDE DEF a, b
        <5> QED BY <5>1, ConcatParts
      <4>4. edge[i] = Len(f[i]) /\ edge[i - 1] = Len(a) /\ edge[i - 1] \in Nat
        BY <2>5, <3>1, <4>1
      <4> QED BY <4>1, <4>3, <4>4
    <3> QED BY <3>2, <3>3
  \* What is written stays.
  <2>8. \A j \in Nat : \A i \in 1 .. n : i <= j /\ j <= n =>
            edge[i] <= edge[j] /\ \A p \in 1 .. edge[i] : f[j][p] = f[i][p]
    <3> DEFINE Q(j) == \A i \in 1 .. n : i <= j /\ j <= n =>
            edge[i] <= edge[j] /\ \A p \in 1 .. edge[i] : f[j][p] = f[i][p]
               T == {j \in Nat : Q(j)}
    <3>1. 0 \in T
      OBVIOUS
    <3>2. ASSUME NEW j \in Nat, j \in T PROVE j + 1 \in T
      <4> SUFFICES ASSUME NEW i \in 1 .. n, i <= j + 1, j + 1 <= n
                   PROVE  /\ edge[i] <= edge[j + 1]
                          /\ \A p \in 1 .. edge[i] : f[j + 1][p] = f[i][p]
        OBVIOUS
      <4>1. CASE i = j + 1
        <5>1. edge[i] \in Nat
          BY <1>1, <2>5
        <5> QED BY <4>1, <5>1
      <4>2. CASE i # j + 1
        <5>1. i <= j /\ j <= n /\ j \in 0 .. n /\ i \in 0 .. n /\ j + 1 \in 1 .. n /\ (j + 1) - 1 = j
          BY <1>1, <4>2
        <5>2. edge[i] <= edge[j] /\ \A p \in 1 .. edge[i] : f[j][p] = f[i][p]
          BY <3>2, <5>1
        <5>3. /\ edge[j + 1] = edge[j] + Len(list[j + 1])
              /\ \A p \in 1 .. edge[j] : f[j + 1][p] = f[j][p]
          BY <2>7, <5>1
        <5>4. edge[i] \in Nat /\ edge[j] \in Nat /\ Len(list[j + 1]) \in Nat
          BY <1>1, <2>5, <5>1
        <5> QED BY <5>2, <5>3, <5>4
      <4> QED BY <4>1, <4>2
    <3> HIDE DEF T
    <3>3. Nat \subseteq T
      BY <3>1, <3>2, SetInduction
    <3> QED BY <3>3 DEF T
  <2>9. ASSUME NEW i \in 1 .. n, NEW k \in 1 .. Len(list[i])
        PROVE  FlattenSeq(list)[edge[i - 1] + k] = list[i][k]
    <3>1. /\ edge[i] = edge[i - 1] + Len(list[i]) /\ f[i][edge[i - 1] + k] = list[i][k]
          /\ edge[i - 1] \in Nat /\ Len(list[i]) \in Nat
      BY <1>1, <2>5, <2>7
    <3>2. edge[i - 1] + k \in 1 .. edge[i]
      BY <3>1
    <3>3. \A p \in 1 .. edge[i] : f[n][p] = f[i][p]
      BY <1>1, <2>8
    <3> QED BY <2>1, <3>1, <3>2, <3>3
  <2>10. IsEdges(edge, list)
    BY <1>1, <2>5, <2>6, <2>7 DEF IsEdges, n
  <2>11. FlattenSeq(list) \in Seq(S) /\ Len(FlattenSeq(list)) = edge[n]
    BY <1>1, <1>3, <2>1, <2>3, <2>5
  <2> QED BY <2>9, <2>10, <2>11 DEF n
<1> QED BY <1>2, <1>3

-----------------------------------------------------------------------------
(***************************************************************************)
(* The sum of the lengths, as FoldLeft computes it: from the last element  *)
(* on, over the subsets of the domain.                                     *)
(***************************************************************************)
IsSum(f, list, n) ==
    f = [s \in SUBSET (1 .. n) |->
            IF s = {} THEN 0 ELSE f[s \ {Max(s)}] + Len(list[Max(s)])]

LEMMA MaxIs ==
    ASSUME NEW n \in Nat, NEW s \in SUBSET (1 .. n), s # {}
    PROVE  Max(s) \in s /\ \A y \in s : Max(s) >= y
<1> DEFINE T == {k \in Nat : \A t \in SUBSET (1 .. k) : t # {} => \E x \in t : \A y \in t : x >= y}
<1>1. 0 \in T
  <2>1. 1 .. 0 = {}
    OBVIOUS
  <2>2. \A t \in SUBSET (1 .. 0) : t = {}
    BY <2>1
  <2> QED BY <2>2
<1>2. ASSUME NEW k \in Nat, k \in T PROVE k + 1 \in T
  <2> SUFFICES ASSUME NEW t \in SUBSET (1 .. k + 1), t # {}
               PROVE  \E x \in t : \A y \in t : x >= y
    OBVIOUS
  <2>1. CASE k + 1 \in t
    BY <2>1
  <2>2. CASE k + 1 \notin t
    <3>1. t \in SUBSET (1 .. k)
      BY <2>2
    <3> QED BY <1>2, <3>1
  <2> QED BY <2>1, <2>2
<1> HIDE DEF T
<1>3. Nat \subseteq T
  BY <1>1, <1>2, SetInduction
<1>4. \E x \in s : \A y \in s : x >= y
  BY <1>3 DEF T
<1> QED BY <1>4 DEF Max

\* Without its largest number, a set of the first ones is one of fewer.
LEMMA WithoutMax ==
    ASSUME NEW k \in Nat, NEW s \in SUBSET (1 .. k + 1), s # {}
    PROVE  s \ {Max(s)} \in SUBSET (1 .. k)
<1> DEFINE n == k + 1
<1>1. n \in Nat /\ s \in SUBSET (1 .. n)
  OBVIOUS
<1> HIDE DEF n
<1>2. Max(s) \in s /\ \A y \in s : Max(s) >= y
  BY <1>1, MaxIs
<1> DEFINE m == Max(s)
<1>3. m \in s /\ \A y \in s : m >= y
  BY <1>2
<1> HIDE DEF m
<1>4. ASSUME NEW y \in s, y # m PROVE y \in 1 .. k
  BY <1>1, <1>3, <1>4 DEF n
<1> QED BY <1>4 DEF m

LEMMA SumExists ==
    ASSUME NEW list, NEW n \in Nat
    PROVE  \E f : IsSum(f, list, n)
<1> DEFINE T == {k \in Nat : \E f : IsSum(f, list, k)}
<1>1. 0 \in T
  <2> DEFINE f == [s \in SUBSET (1 .. 0) |-> 0]
  <2>1. \A s \in SUBSET (1 .. 0) : s = {}
    <3>1. 1 .. 0 = {}
      OBVIOUS
    <3> QED BY <3>1
  <2>2. f = [s \in SUBSET (1 .. 0) |->
                IF s = {} THEN 0 ELSE f[s \ {Max(s)}] + Len(list[Max(s)])]
    BY <2>1
  <2> HIDE DEF f
  <2>3. IsSum(f, list, 0)
    BY <2>2 DEF IsSum
  <2> QED BY <2>3
<1>2. ASSUME NEW k \in Nat, k \in T PROVE k + 1 \in T
  <2>1. PICK f : IsSum(f, list, k)
    BY <1>2
  <2> DEFINE e(s) == IF s = {} THEN 0 ELSE f[s \ {Max(s)}] + Len(list[Max(s)])
             g == [s \in SUBSET (1 .. k + 1) |-> e(s)]
  <2>2. f = [s \in SUBSET (1 .. k) |-> e(s)]
    BY <2>1 DEF IsSum
  <2> HIDE DEF e
  <2>3. \A s \in SUBSET (1 .. k) : f[s] = e(s) /\ g[s] = e(s)
    <3>1. \A s \in SUBSET (1 .. k) : s \in SUBSET (1 .. k + 1)
      <4>1. 1 .. k \subseteq 1 .. k + 1
        OBVIOUS
      <4> QED BY <4>1
    <3>2. \A s \in SUBSET (1 .. k) : f[s] = e(s)
      BY <2>2
    <3>3. \A s \in SUBSET (1 .. k + 1) : g[s] = e(s)
      OBVIOUS
    <3> QED BY <3>1, <3>2, <3>3
  <2>4. ASSUME NEW s \in SUBSET (1 .. k + 1), s # {}
        PROVE  s \ {Max(s)} \in SUBSET (1 .. k)
    BY <2>4, WithoutMax
  <2>5. ASSUME NEW s \in SUBSET (1 .. k + 1)
        PROVE  e(s) = IF s = {} THEN 0 ELSE g[s \ {Max(s)}] + Len(list[Max(s)])
    <3>1. CASE s = {}
      BY <3>1 DEF e
    <3>2. CASE s # {}
      <4>1. f[s \ {Max(s)}] = g[s \ {Max(s)}]
        BY <2>3, <2>4, <3>2
      <4> QED BY <3>2, <4>1 DEF e
    <3> QED BY <3>1, <3>2
  <2>6. g = [s \in SUBSET (1 .. k + 1) |->
                IF s = {} THEN 0 ELSE g[s \ {Max(s)}] + Len(list[Max(s)])]
    BY <2>5
  <2> HIDE DEF g
  <2>7. IsSum(g, list, k + 1)
    BY <2>6 DEF IsSum
  <2> QED BY <2>7
<1> HIDE DEF T
<1>3. Nat \subseteq T
  BY <1>1, <1>2, SetInduction
<1> QED BY <1>3 DEF T

LEMMA SumIs ==
    ASSUME NEW list, NEW n \in Nat, DOMAIN list = 1 .. n
    PROVE  \E f : /\ IsSum(f, list, n)
                  /\ FoldLeft(LAMBDA k, item : k + Len(item), 0, list) = f[1 .. n]
<1> DEFINE P(f) == f = [s \in SUBSET DOMAIN list |->
                            IF s = {} THEN 0 ELSE f[s \ {Max(s)}] + Len(list[Max(s)])]
           g == CHOOSE f : P(f)
<1>1. FoldLeft(LAMBDA k, item : k + Len(item), 0, list) = g[DOMAIN list]
  BY DEF FoldLeft, MapThenFoldSet
<1>2. PICK f : IsSum(f, list, n)
  BY SumExists
<1>3. P(f)
  BY <1>2 DEF IsSum
<1> HIDE DEF P
<1>4. P(g)
  BY <1>3
<1> HIDE DEF g
<1>5. IsSum(g, list, n)
  BY <1>4 DEF P, IsSum
<1> QED BY <1>1, <1>5

LEMMA SumOfLengths ==
    ASSUME NEW S, NEW list \in Seq(Seq(S)), NEW edge, IsEdges(edge, list)
    PROVE  FoldLeft(LAMBDA k, item : k + Len(item), 0, list) = edge[Len(list)]
<1> DEFINE n == Len(list)
<1>1. n \in Nat /\ DOMAIN list = 1 .. n /\ \A i \in 1 .. n : Len(list[i]) \in Nat
  BY LenProperties, ElementOfSeq
<1>3. edge[0] = 0 /\ \A i \in 1 .. n : edge[i] = edge[i - 1] + Len(list[i])
  BY DEF IsEdges
<1> HIDE DEF n
<1>2. PICK f : IsSum(f, list, n) /\ FoldLeft(LAMBDA k, item : k + Len(item), 0, list) = f[1 .. n]
  BY <1>1, SumIs
<1> DEFINE e(s) == IF s = {} THEN 0 ELSE f[s \ {Max(s)}] + Len(list[Max(s)])
<1>4. f = [s \in SUBSET (1 .. n) |-> e(s)]
  BY <1>2 DEF IsSum
<1> HIDE DEF e
<1>5. \A s \in SUBSET (1 .. n) : f[s] = e(s)
  BY <1>4
<1> DEFINE T == {k \in Nat : k <= n => f[1 .. k] = edge[k]}
<1>6. 0 \in T
  <2>1. 1 .. 0 = {} /\ {} \in SUBSET (1 .. n)
    BY <1>1
  <2>2. e({}) = 0
    BY DEF e
  <2> QED BY <1>3, <1>5, <2>1, <2>2
<1>7. ASSUME NEW k \in Nat, k \in T PROVE k + 1 \in T
  <2> SUFFICES ASSUME k + 1 <= n PROVE f[1 .. k + 1] = edge[k + 1]
    OBVIOUS
  <2> DEFINE s == 1 .. k + 1
             h == k + 1
  <2>1. s \subseteq 1 .. n
    BY <1>1
  <2>2. s \in SUBSET (1 .. h) /\ h \in s /\ h \in Nat /\ s # {}
    <3>1. s \in SUBSET (1 .. h)
      BY Zenon
    <3>2. h \in s
      OBVIOUS
    <3>3. h \in Nat
      OBVIOUS
    <3>4. s # {}
      BY <3>2, Zenon
    <3> QED BY <3>1, <3>2, <3>3, <3>4
  <2>9. \A y \in s : h >= y /\ y \in Nat
    OBVIOUS
  <2>3. s \ {h} = 1 .. k
    <3>1. ASSUME NEW y PROVE y \in s \ {h} <=> y \in 1 .. k
      OBVIOUS
    <3> QED BY <3>1
  <2> HIDE DEF s, h
  <2>4. Max(s) = h
    <3>1. Max(s) \in s /\ \A y \in s : Max(s) >= y
      BY <2>2, MaxIs
    <3> DEFINE m == Max(s)
    <3>2. m \in s /\ m >= h
      BY <2>2, <3>1, Zenon
    <3>4. h >= m /\ m \in Nat
      BY <2>9, <3>2, Zenon
    <3> HIDE DEF m
    <3>3. m = h
      BY <2>2, <3>2, <3>4
    <3> QED BY <3>3 DEF m
  <2>5. f[s] = f[1 .. k] + Len(list[h])
    BY <1>5, <2>1, <2>2, <2>3, <2>4 DEF e
  <2>6. edge[h] = edge[k] + Len(list[h]) /\ f[1 .. k] = edge[k]
    <3>1. h \in 1 .. n /\ h - 1 = k /\ k <= n
      BY <1>1 DEF h
    <3> QED BY <1>3, <1>7, <3>1
  <2> QED BY <2>5, <2>6 DEF s, h
<1> HIDE DEF T
<1>8. n \in T
  BY <1>1, <1>6, <1>7, SetInduction
<1>9. f[1 .. n] = edge[n]
  <2>1. n <= n
    BY <1>1
  <2> QED BY <1>8, <2>1 DEF T
<1> QED BY <1>2, <1>9 DEF n

\* The parts of a list end one after the other.
LEMMA EdgesAscend ==
    ASSUME NEW S, NEW list \in Seq(Seq(S)), NEW edge, IsEdges(edge, list),
           NEW i \in 0 .. Len(list), NEW k \in i .. Len(list)
    PROVE  edge[i] <= edge[k]
<1> DEFINE n == Len(list)
           T == {d \in Nat : i + d <= n => edge[i] <= edge[i + d]}
<1>1. n \in Nat /\ \A q \in 1 .. n : Len(list[q]) \in Nat
  BY LenProperties, ElementOfSeq
<1>2. edge \in [0 .. n -> Nat] /\ \A q \in 1 .. n : edge[q] = edge[q - 1] + Len(list[q])
  BY DEF IsEdges
<1>3. i \in 0 .. n /\ k \in i .. n
  OBVIOUS
<1> HIDE DEF n
<1>4. 0 \in T
  <2>1. edge[i] \in Nat
    BY <1>2, <1>3
  <2> QED BY <1>3, <2>1
<1>5. ASSUME NEW d \in Nat, d \in T PROVE d + 1 \in T
  <2> SUFFICES ASSUME i + d + 1 <= n PROVE edge[i] <= edge[i + (d + 1)]
    BY <1>3
  <2> DEFINE q == i + (d + 1)
  <2>1. q \in 1 .. n /\ q - 1 = i + d /\ i + d <= n /\ i + d \in 0 .. n
    BY <1>1, <1>3
  <2> HIDE DEF q
  <2>2. edge[q] = edge[i + d] + Len(list[q]) /\ Len(list[q]) \in Nat
    BY <1>1, <1>2, <2>1
  <2>3. edge[i] \in Nat /\ edge[i + d] \in Nat /\ edge[i] <= edge[i + d]
    BY <1>2, <1>3, <1>5, <2>1
  <2> QED BY <2>2, <2>3 DEF q
<1> HIDE DEF T
<1>6. Nat \subseteq T
  BY <1>4, <1>5, SetInduction
<1>7. k - i \in Nat /\ i + (k - i) = k /\ k <= n
  BY <1>1, <1>3
<1> QED BY <1>6, <1>7 DEF T
=============================================================================
